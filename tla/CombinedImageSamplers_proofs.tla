-------------------- MODULE CombinedImageSamplers_proofs --------------------
(***************************************************************************)
(* For all shaders, whatever their functions and calls: every lookup of a  *)
(* combined sampler succeeds, and what it yields samples what SPIR-V       *)
(* samples; the traversals find exactly the pairs of images and samplers   *)
(* which are sampled, and exactly the resources which are used for         *)
(* comparisons.                                                            *)
(***************************************************************************)
EXTENDS CombinedImageSamplers, IterationTheorems

\* What an operand stands for in a call
Value(F, id) == IF id \in DOMAIN F.remap THEN F.remap[id] ELSE id

\* What a function can name
Visible(f) == Globals \cup Params(f) \cup {Dummy}

IsLocal(f, i, s) == i \in Params(f) \/ s \in Params(f)

(***************************************************************************)
(* The pairs an instruction needs combined samplers for, in the ids of the *)
(* function it is in.                                                      *)
(***************************************************************************)
Needs(f, n) ==
    LET o == Ops(f)[n]
    IN  IF o.op = "call"
        THEN {<<ImageOf(c, o.args), CombinedSamplerOf(c, o.args)>> :
                 c \in combined_parameters[o.callee]}
        ELSE {<<o.image, SamplerOf(o)>>}

Available(f, i, s) ==
    IF IsLocal(f, i, s) THEN CombinedParameter(f, i, s) \in combined_parameters[f]
    ELSE <<i, s>> \in combined_image_samplers

\* All an instruction needs is there, and will not change.
Completed(f, n) ==
    /\ Ops(f)[n].op = "call" => ~do_combined_parameters[Ops(f)[n].callee]
    /\ \A x \in Needs(f, n) : Available(f, x[1], x[2])

\* The globals which meet at an instruction in this call are listed.
Listed(F, n) ==
    \A x \in Needs(F.fn, n) : <<Value(F, x[1]), Value(F, x[2])>> \in combined_image_samplers

-----------------------------------------------------------------------------
StageSet == {"dummy", "combine", "dref", "usage", "usage again", "run", "end", "thrown"}

TableInv ==
    /\ shader \in Shaders
    /\ stage \in StageSet
    /\ dummy_sampler \in BOOLEAN
    /\ combined_parameters = [f \in Functions |-> combined_parameters[f]]
    /\ do_combined_parameters \in [Functions -> BOOLEAN]

CallOf(k) == Ops(stack[k].fn)[stack[k].next]

StackIsASequence ==
    \E R, C : stack \in Seq([fn : Functions, next : Nat \ {0}, remap : R, combined : C])

\* Each frame is at the call which made the next one; the entry point is not called.
StackInv ==
    /\ Len(stack) > 0 /\ stack[1].fn = Main
    /\ \A k \in 1 .. Len(stack) : stack[k].next <= Len(Ops(stack[k].fn)) + 1
    /\ \A k \in 1 .. Len(stack) : k < Len(stack) =>
          /\ stack[k].next <= Len(Ops(stack[k].fn))
          /\ CallOf(k).op = "call" /\ CallOf(k).callee = stack[k + 1].fn
    /\ \A k \in 1 .. Len(stack) : k > 1 => Rank[stack[k].fn] < Rank[Main]

\* Every combined parameter is there because an instruction needs it.
KeysInv ==
    /\ combined_parameters[Main] = {}
    /\ \A f \in Functions : \A c \in combined_parameters[f] :
          \E n \in DOMAIN Ops(f) : \E x \in Needs(f, n) :
              /\ x[1] \in Visible(f) /\ x[2] \in Visible(f)
              /\ IsLocal(f, x[1], x[2])
              /\ c = CombinedParameter(f, x[1], x[2])

DoneInv ==
    \A f \in Functions : ~do_combined_parameters[f] =>
        \A n \in DOMAIN Ops(f) : Completed(f, n)

\* A parameter stands for what the caller's argument stands for.
RemapInv ==
    stage \in {"combine", "run"} => \A k \in 1 .. Len(stack) :
        /\ DOMAIN stack[k].remap = Params(stack[k].fn)
        /\ k > 1 => \A p \in Params(stack[k].fn) :
              stack[k].remap[p] =
                  Value(stack[k - 1], CallOf(k - 1).args[ParamIndex(stack[k].fn, p)])

CombineInv ==
    stage = "combine" => \A k \in 1 .. Len(stack) : \A n \in DOMAIN Ops(stack[k].fn) :
        n < stack[k].next => Completed(stack[k].fn, n) /\ Listed(stack[k], n)

MainInv ==
    stage \in {"dref", "usage", "usage again", "run", "end"} =>
        \A n \in DOMAIN Ops(Main) : Completed(Main, n)

\* The combined samplers passed are what the callee takes them for.
CombinedIsRight(F) ==
    \A c \in combined_parameters[F.fn] : \A i, s \in Visible(F.fn) :
        c = CombinedParameter(F.fn, i, s) => F.combined[c] = <<Value(F, i), Value(F, s)>>

RunInv ==
    stage = "run" => \A k \in 1 .. Len(stack) :
        /\ k > 1 => ~do_combined_parameters[stack[k].fn]
        /\ CombinedIsRight(stack[k])

(***************************************************************************)
(* Functions from which no image is used without a sampler.                *)
(***************************************************************************)
IsClosed(S) ==
    \A f \in S : \A n \in DOMAIN Ops(f) :
        /\ Ops(f)[n].op # "fetch"
        /\ Ops(f)[n].op = "call" => Ops(f)[n].callee \in S
IsClean(f) == \E S \in SUBSET Functions : f \in S /\ IsClosed(S)
IsCleanOp(f, n) ==
    /\ Ops(f)[n].op # "fetch"
    /\ Ops(f)[n].op = "call" => IsClean(Ops(f)[n].callee)

DummyInv ==
    /\ stage = "dummy" => ~dummy_sampler
    /\ ~dummy_sampler =>
        IF stage = "dummy"
        THEN \A k \in 1 .. Len(stack) : \A n \in DOMAIN Ops(stack[k].fn) :
                n < stack[k].next => IsCleanOp(stack[k].fn, n)
        ELSE IsClean(Main) /\ \A k \in 1 .. Len(stack) : IsClean(stack[k].fn)

IInv ==
    /\ TableInv /\ StackIsASequence /\ StackInv /\ KeysInv /\ DoneInv /\ RemapInv
    /\ CombineInv /\ MainInv /\ RunInv /\ DummyInv
    /\ SamplesTheRightPair /\ NeverThrows

-----------------------------------------------------------------------------
(* What the steps do to the stack. *)

LEMMA AdvanceFacts ==
  ASSUME StackIsASequence, Len(stack) > 0, Advance
  PROVE /\ StackIsASequence'
        /\ Len(stack') = Len(stack) /\ Len(stack) \in Nat
        /\ \A k \in 1 .. Len(stack) : k # Len(stack) => stack'[k] = stack[k]
        /\ \A k \in 1 .. Len(stack) :
              /\ stack'[k].fn = stack[k].fn /\ stack'[k].remap = stack[k].remap
              /\ stack'[k].combined = stack[k].combined
        /\ stack'[Len(stack)].next = Top.next + 1
<1>1. PICK R, C : stack \in Seq([fn : Functions, next : Nat \ {0}, remap : R, combined : C])
  BY DEF StackIsASequence
<1> DEFINE FrameSet == [fn : Functions, next : Nat \ {0}, remap : R, combined : C]
           new == [Top EXCEPT !.next = @ + 1]
<1>2. Top \in FrameSet
  <2>1. stack \in Seq(FrameSet)
    BY <1>1
  <2> HIDE DEF FrameSet
  <2> QED
    BY <2>1 DEF Top
<1>3. new \in FrameSet /\ new.next = Top.next + 1 /\ new.fn = Top.fn
        /\ new.remap = Top.remap /\ new.combined = Top.combined
  BY <1>2
<1>4. stack' = [stack EXCEPT ![Len(stack)] = new]
  BY DEF Advance, Top
<1>5. stack \in Seq(FrameSet)
  BY <1>1
<1> HIDE DEF FrameSet, new
<1>6. stack' \in Seq(FrameSet) /\ Len(stack') = Len(stack) /\ Len(stack) \in Nat
  BY <1>3, <1>4, <1>5
<1>7. \A k \in 1 .. Len(stack) : stack'[k] = IF k = Len(stack) THEN new ELSE stack[k]
  BY <1>4, <1>5
<1>8. StackIsASequence'
  BY <1>6 DEF StackIsASequence, FrameSet
<1> QED
  BY <1>3, <1>6, <1>7, <1>8 DEF Top

LEMMA PushFacts ==
  ASSUME StackIsASequence, NEW f \in Functions, NEW r, NEW c, Push(Frame(f, r, c))
  PROVE /\ StackIsASequence'
        /\ Len(stack') = Len(stack) + 1 /\ Len(stack) \in Nat
        /\ \A k \in 1 .. Len(stack) : stack'[k] = stack[k]
        /\ stack'[Len(stack')] = Frame(f, r, c)
<1>1. PICK R, C : stack \in Seq([fn : Functions, next : Nat \ {0}, remap : R, combined : C])
  BY DEF StackIsASequence
<1> DEFINE Old == [fn : Functions, next : Nat \ {0}, remap : R, combined : C]
           FrameSet == [fn : Functions, next : Nat \ {0}, remap : R \cup {r}, combined : C \cup {c}]
           new == Frame(f, r, c)
<1>2. new \in FrameSet
  BY DEF Frame
<1>3. \A x \in Old : x \in FrameSet
  OBVIOUS
<1>4. stack \in Seq(Old)
  BY <1>1
<1> HIDE DEF Old, FrameSet, new
<1>5. stack \in Seq(FrameSet)
  BY <1>3, <1>4
<1>6. stack' = Append(stack, new)
  BY DEF Push, new
<1>7. stack' \in Seq(FrameSet)
  BY <1>2, <1>5, <1>6
<1>8. StackIsASequence'
  BY <1>7 DEF StackIsASequence, FrameSet
<1> QED
  BY <1>5, <1>6, <1>8 DEF new

LEMMA ReturnFacts ==
  ASSUME StackIsASequence, Len(stack) > 1, Return
  PROVE /\ StackIsASequence'
        /\ Len(stack') = Len(stack) - 1 /\ Len(stack) \in Nat
        /\ \A k \in 1 .. Len(stack') : k # Len(stack') => stack'[k] = stack[k]
        /\ \A k \in 1 .. Len(stack') :
              /\ stack'[k].fn = stack[k].fn /\ stack'[k].remap = stack[k].remap
              /\ stack'[k].combined = stack[k].combined
        /\ stack'[Len(stack')].next = Caller.next + 1
<1>1. PICK R, C : stack \in Seq([fn : Functions, next : Nat \ {0}, remap : R, combined : C])
  BY DEF StackIsASequence
<1> DEFINE FrameSet == [fn : Functions, next : Nat \ {0}, remap : R, combined : C]
           new == [Caller EXCEPT !.next = @ + 1]
           short == SubSeq(stack, 1, Len(stack) - 1)
<1>2. Caller \in FrameSet
  <2>1. stack \in Seq(FrameSet)
    BY <1>1
  <2> HIDE DEF FrameSet
  <2> QED
    BY <2>1 DEF Caller
<1>3. new \in FrameSet /\ new.next = Caller.next + 1 /\ new.fn = Caller.fn
        /\ new.remap = Caller.remap /\ new.combined = Caller.combined
  BY <1>2
<1>4. stack \in Seq(FrameSet)
  BY <1>1
<1> HIDE DEF FrameSet
<1>5. short \in Seq(FrameSet) /\ Len(short) = Len(stack) - 1 /\ Len(stack) \in Nat
        /\ \A k \in 1 .. Len(short) : short[k] = stack[k]
  BY <1>4
<1>6. stack' = [short EXCEPT ![Len(stack) - 1] = new]
  <2>1. stack' = [short EXCEPT ![Len(stack) - 1] = [short[Len(stack) - 1] EXCEPT !.next = @ + 1]]
    BY DEF Return
  <2> HIDE DEF short
  <2>2. short[Len(stack) - 1] = Caller
    BY <1>5 DEF Caller
  <2> QED
    BY <2>1, <2>2
<1> HIDE DEF new, short
<1>7. stack' \in Seq(FrameSet) /\ Len(stack') = Len(stack) - 1
  BY <1>3, <1>5, <1>6
<1>8. \A k \in 1 .. Len(stack') : stack'[k] = IF k = Len(stack') THEN new ELSE stack[k]
  BY <1>5, <1>6, <1>7
<1>9. StackIsASequence'
  BY <1>7 DEF StackIsASequence, FrameSet
<1> QED
  BY <1>3, <1>5, <1>7, <1>8, <1>9 DEF Caller

LEMMA StartFacts ==
  ASSUME NEW s, Start(s)
  PROVE /\ StackIsASequence' /\ stage' = s
        /\ Len(stack') = 1 /\ stack'[1] = Frame(Main, Empty, Empty)
<1> DEFINE new == Frame(Main, Empty, Empty)
           FrameSet == [fn : Functions, next : Nat \ {0}, remap : {Empty}, combined : {Empty}]
<1>1. new \in FrameSet
  BY MainAssumption DEF Frame
<1>2. stack' = <<new>> /\ stage' = s
  BY DEF Start
<1> HIDE DEF new, FrameSet
<1>3. stack' \in Seq(FrameSet) /\ Len(stack') = 1 /\ stack'[1] = new
  BY <1>1, <1>2
<1>4. StackIsASequence'
  BY <1>3 DEF StackIsASequence, FrameSet
<1> QED
  BY <1>2, <1>3, <1>4 DEF new

-----------------------------------------------------------------------------
(* What is known of a shader. *)

LEMMA ShaderFacts ==
  ASSUME shader \in Shaders
  PROVE /\ Params(Main) = {}
        /\ \A f \in Functions :
              /\ Rank[f] \in Nat
              /\ Len(Ops(f)) \in Nat /\ DOMAIN Ops(f) = 1 .. Len(Ops(f))
              /\ Params(f) \subseteq Parameters
              /\ \A p \in Params(f) : /\ ParamIndex(f, p) \in DOMAIN shader[f].params
                                      /\ shader[f].params[ParamIndex(f, p)] = p
<1>1. IsShader(shader)
  BY ShaderAssumption
<1>2. Params(Main) = {}
  BY <1>1 DEF IsShader, Params, ParamsOf
<1> SUFFICES ASSUME NEW f \in Functions
             PROVE /\ Rank[f] \in Nat
                   /\ Len(Ops(f)) \in Nat /\ DOMAIN Ops(f) = 1 .. Len(Ops(f))
                   /\ Params(f) \subseteq Parameters
                   /\ \A p \in Params(f) : /\ ParamIndex(f, p) \in DOMAIN shader[f].params
                                           /\ shader[f].params[ParamIndex(f, p)] = p
  BY <1>2
<1>3. shader[f] \in Body
  BY <1>1 DEF IsShader
<1>4. shader[f].params \in Seq(Parameters) /\ shader[f].ops \in Seq(Instruction)
  BY <1>3 DEF Body
<1>5. Len(Ops(f)) \in Nat /\ DOMAIN Ops(f) = 1 .. Len(Ops(f))
  BY <1>4 DEF Ops
<1>6. Params(f) \subseteq Parameters
  BY <1>4 DEF Params, ParamsOf
<1>7. ASSUME NEW p \in Params(f)
      PROVE ParamIndex(f, p) \in DOMAIN shader[f].params /\ shader[f].params[ParamIndex(f, p)] = p
  <2>1. \E k \in DOMAIN shader[f].params : shader[f].params[k] = p
    BY <1>7 DEF Params, ParamsOf
  <2> QED
    BY <2>1 DEF ParamIndex
<1> QED
  BY <1>5, <1>6, <1>7, ShaderAssumption

LEMMA InstructionFacts ==
  ASSUME shader \in Shaders, NEW f \in Functions, NEW n \in DOMAIN Ops(f)
  PROVE /\ Ops(f)[n].op \in {"sample", "fetch", "call"}
        /\ Ops(f)[n].op # "call" =>
              Ops(f)[n].image \in Visible(f) /\ SamplerOf(Ops(f)[n]) \in Visible(f)
        /\ Ops(f)[n].op = "call" =>
              /\ Ops(f)[n].callee \in Functions
              /\ Rank[Ops(f)[n].callee] < Rank[f]
              /\ \A p \in Params(Ops(f)[n].callee) :
                    Ops(f)[n].args[ParamIndex(Ops(f)[n].callee, p)] \in Globals \cup Params(f)
<1> DEFINE o == Ops(f)[n]
<1>1. IsShader(shader)
  BY ShaderAssumption
<1>2. shader[f].ops \in Seq(Instruction)
  BY <1>1 DEF IsShader, Body
<1>3. o \in Instruction
  <2> HIDE DEF o
  <2>1. o = shader[f].ops[n] /\ n \in DOMAIN shader[f].ops
    BY DEF o, Ops
  <2> QED
    BY <1>2, <2>1
<1>4. o.op \in {"sample", "fetch", "call"} /\ (o.op = "call" => o.callee \in Functions)
  BY <1>3 DEF Instruction
<1>5. /\ o.op \in {"sample", "fetch"} => o.image \in Globals \cup Params(f)
      /\ o.op = "sample" => o.sampler \in Globals \cup Params(f)
      /\ o.op = "call" => /\ Rank[o.callee] < Rank[f]
                          /\ Len(o.args) = Len(shader[o.callee].params)
                          /\ \A k \in DOMAIN o.args : o.args[k] \in Globals \cup Params(f)
  BY <1>1 DEF IsShader, Ops, Params
<1>6. o.op # "call" => o.image \in Visible(f) /\ SamplerOf(o) \in Visible(f)
  BY <1>4, <1>5 DEF SamplerOf, Visible
<1>7. ASSUME o.op = "call", NEW p \in Params(o.callee)
      PROVE o.args[ParamIndex(o.callee, p)] \in Globals \cup Params(f)
  <2>1. ParamIndex(o.callee, p) \in DOMAIN shader[o.callee].params
    BY <1>4, <1>7, ShaderFacts
  <2>2. o.args \in Seq(Operands)
    BY <1>3, <1>7 DEF Instruction
  <2>3. shader[o.callee].params \in Seq(Parameters)
    BY <1>1, <1>4, <1>7 DEF IsShader, Body
  <2> HIDE DEF o
  <2>4. DOMAIN o.args = DOMAIN shader[o.callee].params
    BY <1>5, <1>7, <2>2, <2>3
  <2> QED
    BY <1>5, <1>7, <2>1, <2>4
<1> QED
  BY <1>4, <1>5, <1>6, <1>7

(***************************************************************************)
(* A combined parameter means in the callee what it means, looked up with  *)
(* the arguments, in the caller.                                           *)
(***************************************************************************)
Passes(F, f, G, g, args) ==
    /\ DOMAIN F.remap = Params(f) /\ DOMAIN G.remap = Params(g)
    /\ \A p \in Params(g) : G.remap[p] = Value(F, args[ParamIndex(g, p)])

MeansTheSame(F, G, g, args) ==
    \A c : \A i, s \in Visible(g) : c = CombinedParameter(g, i, s) =>
        /\ Value(G, i) = Value(F, ImageOf(c, args))
        /\ Value(G, s) = Value(F, CombinedSamplerOf(c, args))

LEMMA ArgumentsAreVisible ==
  ASSUME shader \in Shaders, NEW f \in Functions, NEW n \in DOMAIN Ops(f),
         Ops(f)[n].op = "call",
         NEW g, g = Ops(f)[n].callee, NEW args, args = Ops(f)[n].args,
         NEW i \in Visible(g), NEW s \in Visible(g),
         NEW c, c = CombinedParameter(g, i, s)
  PROVE ImageOf(c, args) \in Visible(f) /\ CombinedSamplerOf(c, args) \in Visible(f)
<1>1. /\ ImageOf(c, args) = IF i \in Params(g) THEN args[ParamIndex(g, i)] ELSE i
      /\ CombinedSamplerOf(c, args) = IF s \in Params(g) THEN args[ParamIndex(g, s)] ELSE s
  BY DEF CombinedParameter, ImageOf, CombinedSamplerOf
<1>2. g \in Functions /\ \A p \in Params(g) : args[ParamIndex(g, p)] \in Globals \cup Params(f)
  BY InstructionFacts
<1>3. \A x \in Visible(g) : x \notin Params(g) => x \in Globals \cup {Dummy}
  BY DEF Visible
<1> QED
  BY <1>1, <1>2, <1>3 DEF Visible

LEMMA CallResolves ==
  ASSUME shader \in Shaders, NEW f \in Functions, NEW g \in Functions, NEW args,
         NEW F, NEW G, Passes(F, f, G, g, args)
  PROVE MeansTheSame(F, G, g, args)
<1>1. \A x \in Visible(g) : x \notin Params(g) => x \in Globals \cup {Dummy}
  BY DEF Visible
<1>2. \A x \in Globals \cup {Dummy} : x \notin Params(f) /\ x \notin Params(g)
  BY IdAssumption, ShaderFacts
<1>3. ASSUME NEW x \in Visible(g)
      PROVE Value(G, x) = Value(F, IF x \in Params(g) THEN args[ParamIndex(g, x)] ELSE x)
  <2>1. CASE x \in Params(g)
    BY <2>1 DEF Value, Passes
  <2>2. CASE x \notin Params(g)
    <3>1. Value(G, x) = x
      BY <2>2 DEF Value, Passes
    <3>2. Value(F, x) = x
      BY <1>1, <1>2, <2>2 DEF Value, Passes
    <3> QED
      BY <2>2, <3>1, <3>2
  <2> QED
    BY <2>1, <2>2
<1>4. ASSUME NEW c, NEW i \in Visible(g), NEW s \in Visible(g), c = CombinedParameter(g, i, s)
      PROVE /\ ImageOf(c, args) = IF i \in Params(g) THEN args[ParamIndex(g, i)] ELSE i
            /\ CombinedSamplerOf(c, args) = IF s \in Params(g) THEN args[ParamIndex(g, s)] ELSE s
  BY <1>4 DEF CombinedParameter, ImageOf, CombinedSamplerOf
<1> QED
  BY <1>3, <1>4 DEF MeansTheSame

LEMMA NeedsAreVisible ==
  ASSUME shader \in Shaders, KeysInv, NEW f \in Functions, NEW n \in DOMAIN Ops(f),
         NEW x \in Needs(f, n)
  PROVE x[1] \in Visible(f) /\ x[2] \in Visible(f)
<1>1. CASE Ops(f)[n].op # "call"
  BY <1>1, InstructionFacts DEF Needs
<1>2. CASE Ops(f)[n].op = "call"
  <2> DEFINE g == Ops(f)[n].callee
             args == Ops(f)[n].args
  <2>1. PICK c \in combined_parameters[g] : x = <<ImageOf(c, args), CombinedSamplerOf(c, args)>>
    BY <1>2 DEF Needs
  <2>2. g \in Functions
    BY <1>2, InstructionFacts
  <2>3. PICK i \in Visible(g), s \in Visible(g) : c = CombinedParameter(g, i, s)
    BY <2>2 DEF KeysInv
  <2>4. ImageOf(c, args) \in Visible(f) /\ CombinedSamplerOf(c, args) \in Visible(f)
    BY <1>2, <2>3, ArgumentsAreVisible
  <2> QED
    BY <2>1, <2>4
<1> QED
  BY <1>1, <1>2

-----------------------------------------------------------------------------
(* The frames follow the calls. *)

LEMMA FrameFacts ==
  ASSUME StackIsASequence, NEW k \in 1 .. Len(stack)
  PROVE stack[k].fn \in Functions /\ stack[k].next \in Nat \ {0} /\ Len(stack) \in Nat
<1>1. PICK R, C : stack \in Seq([fn : Functions, next : Nat \ {0}, remap : R, combined : C])
  BY DEF StackIsASequence
<1> DEFINE FrameSet == [fn : Functions, next : Nat \ {0}, remap : R, combined : C]
<1>2. \A F \in FrameSet : F.fn \in Functions /\ F.next \in Nat \ {0}
  OBVIOUS
<1>3. stack \in Seq(FrameSet)
  BY <1>1
<1> HIDE DEF FrameSet
<1> QED
  BY <1>2, <1>3

LEMMA TopFacts ==
  ASSUME TableInv, StackIsASequence, StackInv
  PROVE /\ Len(stack) \in Nat \ {0} /\ Top = stack[Len(stack)]
        /\ Top.fn \in Functions /\ Top.next \in Nat \ {0}
        /\ Top.next <= Len(Ops(Top.fn)) + 1
        /\ Len(Ops(Top.fn)) \in Nat /\ DOMAIN Ops(Top.fn) = 1 .. Len(Ops(Top.fn))
<1>1. Len(stack) \in Nat
  BY DEF StackIsASequence
<1>2. Len(stack) > 0
  BY DEF StackInv
<1>3. Top = stack[Len(stack)] /\ Len(stack) \in 1 .. Len(stack)
  BY <1>1, <1>2 DEF Top
<1>4. Top.fn \in Functions /\ Top.next \in Nat \ {0}
  BY <1>3, FrameFacts
<1>5. Top.next <= Len(Ops(Top.fn)) + 1
  BY <1>3 DEF StackInv
<1> QED
  BY <1>1, <1>2, <1>3, <1>4, <1>5, ShaderFacts DEF TableInv

LEMMA AdvanceStack ==
  ASSUME TableInv, StackIsASequence, StackInv, shader' = shader,
         Top.next <= Len(Ops(Top.fn)), Advance
  PROVE StackIsASequence' /\ StackInv'
<1>1. /\ Len(stack) \in Nat \ {0} /\ Top = stack[Len(stack)]
      /\ Top.next \in Nat /\ Len(Ops(Top.fn)) \in Nat
  BY TopFacts
<1>2. /\ StackIsASequence'
      /\ Len(stack') = Len(stack)
      /\ \A k \in 1 .. Len(stack) : k # Len(stack) => stack'[k] = stack[k]
      /\ \A k \in 1 .. Len(stack) : stack'[k].fn = stack[k].fn
      /\ stack'[Len(stack)].next = Top.next + 1
  BY <1>1, AdvanceFacts
<1>3. \A f : Ops(f)' = Ops(f)
  BY DEF Ops
<1>6. ASSUME NEW k \in 1 .. Len(stack)
      PROVE stack'[k].next <= Len(Ops(stack'[k].fn)) + 1
  <2>1. CASE k = Len(stack)
    BY <1>1, <1>2, <2>1
  <2>2. CASE k # Len(stack)
    BY <1>2, <2>2 DEF StackInv
  <2> QED
    BY <2>1, <2>2
<1>7. ASSUME NEW k \in 1 .. Len(stack), k < Len(stack)
      PROVE /\ stack'[k].next <= Len(Ops(stack'[k].fn))
            /\ CallOf(k)'.op = "call" /\ CallOf(k)'.callee = stack'[k + 1].fn
  <2>1. k # Len(stack) /\ k + 1 \in 1 .. Len(stack)
    BY <1>1, <1>7
  <2>2. stack'[k] = stack[k] /\ stack'[k + 1].fn = stack[k + 1].fn
    BY <1>2, <2>1
  <2>3. CallOf(k)' = CallOf(k)
    BY <1>3, <2>2 DEF CallOf
  <2> QED
    BY <1>7, <2>2, <2>3 DEF StackInv
<1>8. stack'[1].fn = Main /\ \A k \in 1 .. Len(stack) : k > 1 => Rank[stack'[k].fn] < Rank[Main]
  BY <1>1, <1>2 DEF StackInv
<1> QED
  BY <1>1, <1>2, <1>3, <1>6, <1>7, <1>8 DEF StackInv

LEMMA PushStack ==
  ASSUME TableInv, StackIsASequence, StackInv, shader' = shader,
         Top.next <= Len(Ops(Top.fn)), Op.op = "call",
         NEW r, NEW c, Push(Frame(Op.callee, r, c))
  PROVE StackIsASequence' /\ StackInv'
<1>1. /\ Len(stack) \in Nat \ {0} /\ Top = stack[Len(stack)]
      /\ Top.fn \in Functions /\ Top.next \in Nat \ {0}
      /\ Len(Ops(Top.fn)) \in Nat
  BY TopFacts
<1>2. Top.next \in DOMAIN Ops(Top.fn) /\ Op = Ops(Top.fn)[Top.next]
  BY TopFacts DEF Op
<1>3. Op.callee \in Functions /\ Rank[Op.callee] < Rank[Top.fn]
  BY <1>1, <1>2, InstructionFacts DEF TableInv
<1>4. /\ StackIsASequence'
      /\ Len(stack') = Len(stack) + 1
      /\ \A k \in 1 .. Len(stack) : stack'[k] = stack[k]
      /\ stack'[Len(stack')] = Frame(Op.callee, r, c)
  BY <1>3, PushFacts
<1>5. \A f : Ops(f)' = Ops(f)
  BY DEF Ops
<1>6. stack'[Len(stack) + 1].fn = Op.callee /\ stack'[Len(stack) + 1].next = 1
  BY <1>1, <1>4 DEF Frame
<1>7. ASSUME NEW k \in 1 .. Len(stack) + 1
      PROVE stack'[k].next <= Len(Ops(stack'[k].fn)) + 1
  <2>1. Len(Ops(Op.callee)) \in Nat
    BY <1>3, ShaderFacts DEF TableInv
  <2>2. CASE k = Len(stack) + 1
    BY <1>6, <2>1, <2>2
  <2>3. CASE k \in 1 .. Len(stack)
    BY <1>4, <2>3 DEF StackInv
  <2> QED
    BY <1>1, <2>2, <2>3
<1>8. ASSUME NEW k \in 1 .. Len(stack)
      PROVE /\ stack'[k].next <= Len(Ops(stack'[k].fn))
            /\ CallOf(k)'.op = "call" /\ CallOf(k)'.callee = stack'[k + 1].fn
  <2>1. CallOf(k)' = CallOf(k) /\ stack'[k] = stack[k]
    BY <1>4, <1>5 DEF CallOf
  <2>2. CASE k = Len(stack)
    <3>1. CallOf(k) = Op /\ stack[k] = Top
      BY <1>1, <1>2, <2>2 DEF CallOf
    <3> QED
      BY <1>6, <2>1, <2>2, <3>1
  <2>3. CASE k # Len(stack)
    <3>1. k < Len(stack) /\ k + 1 \in 1 .. Len(stack)
      BY <1>1, <2>3
    <3> QED
      BY <1>4, <2>1, <3>1 DEF StackInv
  <2> QED
    BY <2>2, <2>3
<1>9. ASSUME NEW k \in 1 .. Len(stack) + 1, k > 1
      PROVE Rank[stack'[k].fn] < Rank[Main]
  <2>1. Rank[Op.callee] \in Nat /\ Rank[Top.fn] \in Nat /\ Rank[Main] \in Nat
    BY <1>1, <1>3, MainAssumption, ShaderFacts DEF TableInv
  <2>2. Top.fn = Main \/ Rank[Top.fn] < Rank[Main]
    BY <1>1 DEF StackInv
  <2>3. CASE k = Len(stack) + 1
    BY <1>3, <1>6, <2>1, <2>2, <2>3
  <2>4. CASE k \in 1 .. Len(stack)
    BY <1>4, <1>9, <2>4 DEF StackInv
  <2> QED
    BY <1>1, <2>3, <2>4
<1>10. stack'[1].fn = Main
  BY <1>1, <1>4 DEF StackInv
<1> QED
  BY <1>1, <1>4, <1>5, <1>7, <1>8, <1>9, <1>10 DEF StackInv

LEMMA ReturnStack ==
  ASSUME TableInv, StackIsASequence, StackInv, shader' = shader, Len(stack) > 1, Return
  PROVE StackIsASequence' /\ StackInv'
<1>1. /\ StackIsASequence'
      /\ Len(stack') = Len(stack) - 1 /\ Len(stack) \in Nat
      /\ \A k \in 1 .. Len(stack') : k # Len(stack') => stack'[k] = stack[k]
      /\ \A k \in 1 .. Len(stack') : stack'[k].fn = stack[k].fn
      /\ stack'[Len(stack')].next = Caller.next + 1
  BY ReturnFacts
<1>2. \A f : Ops(f)' = Ops(f)
  BY DEF Ops
<1>3. /\ Caller.next <= Len(Ops(Caller.fn)) /\ Caller.next \in Nat
      /\ Len(Ops(Caller.fn)) \in Nat /\ Caller = stack[Len(stack')]
      /\ Len(stack') \in 1 .. Len(stack)
  <2>1. Len(stack') \in 1 .. Len(stack) /\ Len(stack') < Len(stack) /\ Caller = stack[Len(stack')]
    BY <1>1 DEF Caller
  <2>2. Caller.fn \in Functions /\ Caller.next \in Nat
    BY <2>1, FrameFacts
  <2> QED
    BY <2>1, <2>2, ShaderFacts DEF StackInv, TableInv
<1>4. ASSUME NEW k \in 1 .. Len(stack')
      PROVE stack'[k].next <= Len(Ops(stack'[k].fn)) + 1
  <2>1. k \in 1 .. Len(stack)
    BY <1>1
  <2>2. CASE k = Len(stack')
    BY <1>1, <1>3, <2>2
  <2>3. CASE k # Len(stack')
    BY <1>1, <2>1, <2>3 DEF StackInv
  <2> QED
    BY <2>2, <2>3
<1>5. ASSUME NEW k \in 1 .. Len(stack'), k < Len(stack')
      PROVE /\ stack'[k].next <= Len(Ops(stack'[k].fn))
            /\ CallOf(k)'.op = "call" /\ CallOf(k)'.callee = stack'[k + 1].fn
  <2>1. k \in 1 .. Len(stack) /\ k < Len(stack) /\ k + 1 \in 1 .. Len(stack')
    BY <1>1, <1>5
  <2>2. stack'[k] = stack[k] /\ stack'[k + 1].fn = stack[k + 1].fn
    BY <1>1, <1>5, <2>1
  <2>3. CallOf(k)' = CallOf(k)
    BY <1>2, <2>2 DEF CallOf
  <2> QED
    BY <2>1, <2>2, <2>3 DEF StackInv
<1>6. \A k \in 1 .. Len(stack') : k \in 1 .. Len(stack) /\ stack'[k].fn = stack[k].fn
  BY <1>1
<1>7. Len(stack') > 0 /\ stack'[1].fn = Main
  BY <1>1 DEF StackInv
<1>8. \A k \in 1 .. Len(stack') : k > 1 => Rank[stack'[k].fn] < Rank[Main]
  BY <1>6 DEF StackInv
<1> QED
  BY <1>1, <1>2, <1>4, <1>5, <1>7, <1>8 DEF StackInv

LEMMA StartStack ==
  ASSUME TableInv, shader' = shader, NEW s, Start(s)
  PROVE StackIsASequence' /\ StackInv'
<1>1. /\ StackIsASequence' /\ Len(stack') = 1 /\ stack'[1] = Frame(Main, Empty, Empty)
  BY StartFacts
<1>2. Len(Ops(Main)) \in Nat /\ Ops(Main)' = Ops(Main)
  BY MainAssumption, ShaderFacts DEF TableInv, Ops
<1> QED
  BY <1>1, <1>2 DEF StackInv, Frame

LEMMA CallerFacts ==
  ASSUME TableInv, StackIsASequence, StackInv, Len(stack) > 1
  PROVE /\ Len(stack) - 1 \in 1 .. Len(stack) /\ Caller = stack[Len(stack) - 1]
        /\ Caller.fn \in Functions /\ Caller.next \in DOMAIN Ops(Caller.fn)
        /\ Ops(Caller.fn)[Caller.next] = CallOf(Len(stack) - 1)
        /\ Ops(Caller.fn)[Caller.next].op = "call"
        /\ Ops(Caller.fn)[Caller.next].callee = Top.fn
        /\ Caller.fn # Top.fn /\ Top.fn # Main
        /\ Len(stack) > 2 => Caller.fn # Main
<1>1. Len(stack) \in Nat /\ Top = stack[Len(stack)] /\ Top.fn \in Functions
  BY TopFacts
<1>2. Len(stack) - 1 \in 1 .. Len(stack) /\ Caller = stack[Len(stack) - 1]
  BY <1>1 DEF Caller
<1>3. Caller.fn \in Functions /\ Caller.next \in Nat \ {0}
  BY <1>2, FrameFacts
<1>4. /\ Caller.next <= Len(Ops(Caller.fn))
      /\ CallOf(Len(stack) - 1).op = "call" /\ CallOf(Len(stack) - 1).callee = Top.fn
  BY <1>1, <1>2 DEF StackInv
<1>5. Caller.next \in DOMAIN Ops(Caller.fn)
  BY <1>3, <1>4, ShaderFacts DEF TableInv
<1>6. Ops(Caller.fn)[Caller.next] = CallOf(Len(stack) - 1)
  BY <1>2 DEF CallOf
<1>7. Rank[Top.fn] < Rank[Caller.fn]
  BY <1>3, <1>4, <1>5, <1>6, InstructionFacts DEF TableInv
<1>8. Rank[Top.fn] < Rank[Main] /\ (Len(stack) > 2 => Rank[Caller.fn] < Rank[Main])
  BY <1>1, <1>2 DEF StackInv
<1>9. Rank[Top.fn] \in Nat /\ Rank[Caller.fn] \in Nat /\ Rank[Main] \in Nat
  BY <1>1, <1>3, MainAssumption, ShaderFacts DEF TableInv
<1> QED
  BY <1>2, <1>3, <1>4, <1>5, <1>6, <1>7, <1>8, <1>9

LEMMA NextStageFacts ==
  ASSUME NextStage
  PROVE \/ stage = "dummy" /\ Start("combine")
        \/ stage = "combine" /\ Start("dref")
        \/ stage = "dref" /\ Start("usage")
        \/ stage = "usage" /\ Start("usage again")
        \/ stage = "usage again" /\ Start("run")
        \/ stage = "run" /\ Start("end")
<1>1. PICK n \in DOMAIN Stages : Stages[n] = stage /\ Start(Stages[n + 1])
  BY DEF NextStage
<1>2. DOMAIN Stages = 1 .. 7
  BY DEF Stages
<1>3. /\ Stages[1] = "dummy" /\ Stages[2] = "combine" /\ Stages[3] = "dref"
      /\ Stages[4] = "usage" /\ Stages[5] = "usage again" /\ Stages[6] = "run"
      /\ Stages[7] = "end"
  BY DEF Stages
<1>4. stage # "end"
  BY DEF NextStage
<1>5. n \in 1 .. 7
  BY <1>1, <1>2
<1>6. n # 7
  BY <1>1, <1>3, <1>4
<1>7. n = 1 \/ n = 2 \/ n = 3 \/ n = 4 \/ n = 5 \/ n = 6
  BY <1>5, <1>6
<1>8. 1 + 1 = 2 /\ 2 + 1 = 3 /\ 3 + 1 = 4 /\ 4 + 1 = 5 /\ 5 + 1 = 6 /\ 6 + 1 = 7
  OBVIOUS
<1>9. ASSUME NEW m, n = m, NEW s, Stages[m] = s, NEW l, m + 1 = l, NEW t, Stages[l] = t
      PROVE stage = s /\ Start(t)
  BY <1>1, <1>9 DEF Start
<1> HIDE DEF Stages
<1> QED
  BY <1>3, <1>7, <1>8, <1>9

LEMMA TableAndStackStep ==
  ASSUME TableInv, StackIsASequence, StackInv, Next
  PROVE TableInv' /\ StackIsASequence' /\ StackInv'
<1>1. shader' = shader
  BY DEF Next, FindDummy, Combine, CombineCall, CombineReturn, FindDref, MarkComparisons,
         UsageCall, Sample, RunCall, Call, FunctionReturn, NextStage
<1>2. ASSUME Advance, Top.next <= Len(Ops(Top.fn))
      PROVE StackIsASequence' /\ StackInv'
  BY <1>1, <1>2, AdvanceStack
<1>3. ASSUME UNCHANGED stack
      PROVE StackIsASequence' /\ StackInv'
  BY <1>1, <1>3 DEF StackIsASequence, StackInv, CallOf, Ops
<1>4. TableInv'
  <2>1. stage' \in StageSet
    <3>1. ASSUME NextStage PROVE stage' \in StageSet
      BY <3>1, NextStageFacts DEF Start, StageSet
    <3>2. ASSUME ~NextStage PROVE stage' \in StageSet
      BY <3>2 DEF Next, FindDummy, Combine, CombineCall, CombineReturn, FindDref, MarkComparisons,
         UsageCall, Sample, RunCall, Call, FunctionReturn, TableInv, Start, StageSet
    <3> QED
      BY <3>1, <3>2
  <2>2. dummy_sampler' \in BOOLEAN
    BY DEF Next, FindDummy, Combine, CombineCall, CombineReturn, FindDref, MarkComparisons,
         UsageCall, Sample, RunCall, Call, FunctionReturn, NextStage, TableInv
  <2>3. /\ combined_parameters' = [f \in Functions |-> combined_parameters'[f]]
        /\ do_combined_parameters' \in [Functions -> BOOLEAN]
    <3>1. CASE Combine
      BY <3>1 DEF Combine, TableInv, combining
    <3>2. CASE CombineReturn
      BY <3>2 DEF CombineReturn, TableInv
    <3>3. CASE ~Combine /\ ~CombineReturn
      BY <3>3 DEF Next, FindDummy, CombineCall, FindDref, MarkComparisons,
         UsageCall, Sample, RunCall, Call, FunctionReturn, NextStage, TableInv, combining
    <3> QED
      BY <3>1, <3>2, <3>3
  <2> QED
    BY <1>1, <2>1, <2>2, <2>3 DEF TableInv
<1>5. StackIsASequence' /\ StackInv'
  <2>1. CASE FindDummy
    BY <1>1, <1>2, <2>1, StartStack DEF FindDummy, At
  <2>2. CASE Combine
    BY <1>2, <1>3, <2>2 DEF Combine, At
  <2>3. CASE CombineCall
    BY <1>1, <2>3, PushStack DEF CombineCall, At
  <2>4. CASE CombineReturn
    BY <1>1, <2>4, ReturnStack DEF CombineReturn
  <2>5. CASE FindDref
    BY <1>2, <2>5 DEF FindDref, At
  <2>6. CASE MarkComparisons
    BY <1>2, <2>6 DEF MarkComparisons, At
  <2>7. CASE UsageCall
    BY <1>1, <2>7, PushStack DEF UsageCall, At
  <2>8. CASE Sample
    BY <1>2, <1>3, <2>8 DEF Sample, At
  <2>9. CASE RunCall
    BY <1>1, <1>3, <2>9, PushStack DEF RunCall, At
  <2>10. CASE Call
    BY <1>1, <2>10, PushStack DEF Call, At
  <2>11. CASE FunctionReturn
    BY <1>1, <2>11, ReturnStack DEF FunctionReturn
  <2>12. CASE NextStage
    BY <1>1, <2>12, StartStack DEF NextStage
  <2> QED
    BY <2>1, <2>2, <2>3, <2>4, <2>5, <2>6, <2>7, <2>8, <2>9, <2>10, <2>11, <2>12 DEF Next
<1> QED
  BY <1>4, <1>5

-----------------------------------------------------------------------------
(* The tables only grow, and those of a function which is done stay. *)

TablesGrow ==
    /\ shader' = shader
    /\ combined_image_samplers \subseteq combined_image_samplers'
    /\ \A f \in Functions :
          /\ combined_parameters[f] \subseteq combined_parameters'[f]
          /\ ~do_combined_parameters[f] =>
                ~do_combined_parameters'[f] /\ combined_parameters'[f] = combined_parameters[f]

LEMMA CombineGrows ==
  ASSUME TableInv, StackIsASequence, StackInv, Combine
  PROVE TablesGrow
  BY DEF TablesGrow, Combine, combining, TableInv

LEMMA ReturnGrows ==
  ASSUME TableInv, StackIsASequence, StackInv, CombineReturn
  PROVE TablesGrow
  BY CallerFacts, TopFacts DEF TablesGrow, CombineReturn, TableInv

LEMMA OthersGrow ==
  ASSUME UNCHANGED <<shader, combining>>
  PROVE TablesGrow
  BY DEF TablesGrow, combining

LEMMA GrowingKeeps ==
  ASSUME TableInv, TablesGrow, NEW f \in Functions, NEW n \in DOMAIN Ops(f)
  PROVE /\ Ops(f)' = Ops(f)
        /\ Needs(f, n) \subseteq Needs(f, n)'
        /\ Completed(f, n) => Completed(f, n)' /\ Needs(f, n)' = Needs(f, n)
<1>1. Ops(f)' = Ops(f) /\ \A g : Params(g)' = Params(g)
  BY DEF TablesGrow, Ops, Params
<1>2. Ops(f)[n].op = "call" => Ops(f)[n].callee \in Functions
  BY InstructionFacts DEF TableInv
<1>3. Needs(f, n) \subseteq Needs(f, n)'
  BY <1>1, <1>2 DEF Needs, TablesGrow
<1>4. ASSUME Completed(f, n)
      PROVE Completed(f, n)' /\ Needs(f, n)' = Needs(f, n)
  <2>1. Ops(f)[n].op = "call" =>
          /\ ~do_combined_parameters'[Ops(f)[n].callee]
          /\ combined_parameters'[Ops(f)[n].callee] = combined_parameters[Ops(f)[n].callee]
    BY <1>2, <1>4 DEF Completed, TablesGrow
  <2>2. Needs(f, n)' = Needs(f, n)
    BY <1>1, <2>1 DEF Needs
  <2>3. ASSUME NEW x \in Needs(f, n) PROVE Available(f, x[1], x[2])'
    <3>1. Available(f, x[1], x[2])
      BY <1>4 DEF Completed
    <3>2. CombinedParameter(f, x[1], x[2])' = CombinedParameter(f, x[1], x[2])
      BY DEF CombinedParameter, ParamIndex, Params, TablesGrow
    <3> QED
      BY <1>1, <3>1, <3>2 DEF Available, IsLocal, TablesGrow
  <2> QED
    BY <1>1, <2>1, <2>2, <2>3 DEF Completed
<1> QED
  BY <1>1, <1>3, <1>4

LEMMA GrowingKeepsListed ==
  ASSUME TableInv, TablesGrow, NEW F, F.fn \in Functions, NEW n \in DOMAIN Ops(F.fn),
         Completed(F.fn, n), Listed(F, n),
         NEW G, G.fn = F.fn, G.remap = F.remap
  PROVE Completed(G.fn, n)' /\ Listed(G, n)'
<1>1. Completed(F.fn, n)' /\ Needs(F.fn, n)' = Needs(F.fn, n)
  BY GrowingKeeps
<1>2. \A id : Value(G, id) = Value(F, id)
  BY DEF Value
<1> QED
  BY <1>1, <1>2 DEF Listed, TablesGrow

-----------------------------------------------------------------------------
(* Every combined parameter is needed. *)

LEMMA KeysStep ==
  ASSUME TableInv, StackIsASequence, StackInv, KeysInv, Next
  PROVE KeysInv'
<1> DEFINE Needed(f, c) ==
             \E n \in DOMAIN Ops(f) : \E x \in Needs(f, n) :
                 /\ x[1] \in Visible(f) /\ x[2] \in Visible(f)
                 /\ IsLocal(f, x[1], x[2])
                 /\ c = CombinedParameter(f, x[1], x[2])
<1>1. ASSUME TablesGrow, NEW f \in Functions, NEW c, Needed(f, c)
      PROVE Needed(f, c)'
  <2>0. PICK n \in DOMAIN Ops(f) : \E x \in Needs(f, n) :
                 /\ x[1] \in Visible(f) /\ x[2] \in Visible(f)
                 /\ IsLocal(f, x[1], x[2])
                 /\ c = CombinedParameter(f, x[1], x[2])
    BY <1>1
  <2>1. PICK x \in Needs(f, n) :
                 /\ x[1] \in Visible(f) /\ x[2] \in Visible(f)
                 /\ IsLocal(f, x[1], x[2])
                 /\ c = CombinedParameter(f, x[1], x[2])
    BY <2>0
  <2>2. n \in DOMAIN Ops(f)' /\ x \in Needs(f, n)'
    BY <1>1, GrowingKeeps
  <2>3. /\ (x[1] \in Visible(f))' /\ (x[2] \in Visible(f))'
        /\ IsLocal(f, x[1], x[2])' /\ (c = CombinedParameter(f, x[1], x[2]))'
    <3>1. Params(f)' = Params(f) /\ \A p : ParamIndex(f, p)' = ParamIndex(f, p)
      BY <1>1 DEF Params, ParamIndex, TablesGrow
    <3>2. CombinedParameter(f, x[1], x[2])' = CombinedParameter(f, x[1], x[2])
      BY <3>1 DEF CombinedParameter
    <3> QED
      BY <2>1, <3>1, <3>2 DEF Visible, IsLocal
  <2> QED
    BY <2>2, <2>3
<1>2. ASSUME UNCHANGED <<shader, combining>> PROVE KeysInv'
  <2>1. TablesGrow
    BY <1>2, OthersGrow
  <2>2. combined_parameters' = combined_parameters
    BY <1>2 DEF combining
  <2>3. \A f \in Functions : \A c \in combined_parameters[f] : Needed(f, c)
    BY DEF KeysInv
  <2>4. \A f \in Functions : \A c \in combined_parameters[f] : Needed(f, c)'
    BY <1>1, <2>1, <2>3
  <2> QED
    BY <2>2, <2>4 DEF KeysInv
<1>3. ASSUME Combine PROVE KeysInv'
  <2>1. TablesGrow
    BY <1>3, CombineGrows
  <2>2. UNCHANGED combining \/
          /\ combined_parameters' =
                  IF Len(stack) > 1 /\ do_combined_parameters[Top.fn]
                  THEN [combined_parameters EXCEPT ![Top.fn] =
                          @ \cup register_combined_image_sampler(Top.fn, Op.image, SamplerOf(Op))]
                  ELSE combined_parameters
          /\ Op.op # "call" /\ Top.next <= Len(Ops(Top.fn))
    BY <1>3 DEF Combine, At
  <2>3. CASE UNCHANGED combining
    BY <1>2, <1>3, <2>3 DEF Combine
  <2>4. CASE ~UNCHANGED combining
    <3>1. Top.next \in DOMAIN Ops(Top.fn) /\ Op = Ops(Top.fn)[Top.next] /\ Top.fn \in Functions
      BY <2>2, <2>4, TopFacts DEF Op
    <3>2. Op.image \in Visible(Top.fn) /\ SamplerOf(Op) \in Visible(Top.fn)
      BY <2>2, <2>4, <3>1, InstructionFacts DEF TableInv
    <3>3. <<Op.image, SamplerOf(Op)>> \in Needs(Top.fn, Top.next)
      BY <2>2, <2>4, <3>1 DEF Needs
    <3>4. \A c \in register_combined_image_sampler(Top.fn, Op.image, SamplerOf(Op)) : Needed(Top.fn, c)
      <4> DEFINE x == <<Op.image, SamplerOf(Op)>>
      <4>1. x[1] = Op.image /\ x[2] = SamplerOf(Op)
        OBVIOUS
      <4> HIDE DEF x
      <4>2. x \in Needs(Top.fn, Top.next)
        BY <3>3 DEF x
      <4> QED
        BY <3>1, <3>2, <4>1, <4>2 DEF register_combined_image_sampler, IsLocal
    <3>5. \A f \in Functions : \A c \in combined_parameters'[f] : Needed(f, c)
      BY <2>2, <2>4, <3>1, <3>4 DEF KeysInv, TableInv
    <3>6. \A f \in Functions : \A c \in combined_parameters'[f] : Needed(f, c)'
      BY <1>1, <2>1, <3>5
    <3>7. combined_parameters'[Main] = {}
      <4>1. Len(stack) > 1 => Top.fn # Main
        BY CallerFacts
      <4>2. combined_parameters'[Main] = combined_parameters[Main]
        BY <2>2, <2>4, <4>1, MainAssumption DEF TableInv
      <4>3. combined_parameters[Main] = {}
        BY DEF KeysInv
      <4> QED
        BY <4>2, <4>3
    <3> QED
      BY <3>6, <3>7 DEF KeysInv
  <2> QED
    BY <2>3, <2>4
<1>4. ASSUME CombineReturn PROVE KeysInv'
  <2> DEFINE args == Ops(Caller.fn)[Caller.next].args
  <2>1. TablesGrow
    BY <1>4, ReturnGrows
  <2>2. Len(stack) > 1 /\ combined_parameters' =
          IF Len(stack) > 2 /\ do_combined_parameters[Caller.fn]
          THEN [combined_parameters EXCEPT ![Caller.fn] = @ \cup Propagated(Caller.fn, Top.fn, args)]
          ELSE combined_parameters
    BY <1>4 DEF CombineReturn
  <2>3. /\ Caller.fn \in Functions /\ Caller.next \in DOMAIN Ops(Caller.fn)
        /\ Ops(Caller.fn)[Caller.next].op = "call"
        /\ Ops(Caller.fn)[Caller.next].callee = Top.fn
        /\ Len(stack) > 2 => Caller.fn # Main
    BY <2>2, CallerFacts
  <2>4. ASSUME NEW c \in Propagated(Caller.fn, Top.fn, args) PROVE Needed(Caller.fn, c)
    <3>1. PICK d \in combined_parameters[Top.fn] :
             c \in register_combined_image_sampler(Caller.fn, ImageOf(d, args), CombinedSamplerOf(d, args))
      BY <2>4 DEF Propagated
    <3> DEFINE x == <<ImageOf(d, args), CombinedSamplerOf(d, args)>>
    <3>2. x \in Needs(Caller.fn, Caller.next)
      BY <2>3 DEF Needs
    <3>3. x[1] = ImageOf(d, args) /\ x[2] = CombinedSamplerOf(d, args)
      OBVIOUS
    <3> HIDE DEF x
    <3>4. x[1] \in Visible(Caller.fn) /\ x[2] \in Visible(Caller.fn)
      BY <2>3, <3>2, NeedsAreVisible DEF TableInv
    <3>5. IsLocal(Caller.fn, x[1], x[2]) /\ c = CombinedParameter(Caller.fn, x[1], x[2])
      BY <3>1, <3>3 DEF register_combined_image_sampler, IsLocal
    <3> QED
      BY <2>3, <3>2, <3>4, <3>5
  <2> HIDE DEF args
  <2>5. \A f \in Functions : \A c \in combined_parameters'[f] : Needed(f, c)
    BY <2>2, <2>3, <2>4 DEF KeysInv, TableInv
  <2>6. \A f \in Functions : \A c \in combined_parameters'[f] : Needed(f, c)'
    BY <1>1, <2>1, <2>5
  <2>7. combined_parameters'[Main] = {}
    <3>1. Len(stack) > 2 => combined_parameters'[Main] = combined_parameters[Main]
      BY <2>2, <2>3, MainAssumption DEF TableInv
    <3>2. ~(Len(stack) > 2) => combined_parameters' = combined_parameters
      BY <2>2
    <3>3. combined_parameters[Main] = {}
      BY DEF KeysInv
    <3> QED
      BY <3>1, <3>2, <3>3
  <2> QED
    BY <2>6, <2>7 DEF KeysInv
<1>5. CASE ~Combine /\ ~CombineReturn
  BY <1>2, <1>5 DEF Next, FindDummy, CombineCall, FindDref, MarkComparisons,
         UsageCall, Sample, RunCall, Call, FunctionReturn, NextStage
<1> QED
  BY <1>3, <1>4, <1>5

-----------------------------------------------------------------------------
(* Parameters stand for what was passed. *)

LEMMA RemapKept ==
  ASSUME TableInv, StackIsASequence, StackInv, RemapInv, shader' = shader,
         stage \in {"combine", "run"}, Len(stack') \in Nat, Len(stack') <= Len(stack),
         \A k \in 1 .. Len(stack') :
            /\ k # Len(stack') => stack'[k] = stack[k]
            /\ stack'[k].fn = stack[k].fn /\ stack'[k].remap = stack[k].remap
  PROVE RemapInv'
<1> SUFFICES ASSUME NEW k \in 1 .. Len(stack')
             PROVE (/\ DOMAIN stack[k].remap = Params(stack[k].fn)
                    /\ k > 1 => \A p \in Params(stack[k].fn) :
                          stack[k].remap[p] =
                             Value(stack[k - 1], CallOf(k - 1).args[ParamIndex(stack[k].fn, p)]))'
  BY DEF RemapInv
<1>1. Len(stack) \in Nat /\ k \in 1 .. Len(stack)
  BY TopFacts
<1>2. \A f, p : Params(f)' = Params(f) /\ ParamIndex(f, p)' = ParamIndex(f, p)
  BY DEF Params, ParamIndex
<1>3. ASSUME k > 1
      PROVE stack'[k - 1] = stack[k - 1] /\ CallOf(k - 1)' = CallOf(k - 1)
  <2>1. k - 1 \in 1 .. Len(stack') /\ k - 1 # Len(stack')
    BY <1>3
  <2>2. stack'[k - 1] = stack[k - 1]
    BY <2>1
  <2> QED
    BY <2>2 DEF CallOf, Ops
<1>4. stack'[k].fn = stack[k].fn /\ stack'[k].remap = stack[k].remap
  OBVIOUS
<1>5. /\ DOMAIN stack[k].remap = Params(stack[k].fn)
      /\ k > 1 => \A p \in Params(stack[k].fn) :
              stack[k].remap[p] =
                  Value(stack[k - 1], CallOf(k - 1).args[ParamIndex(stack[k].fn, p)])
  BY <1>1 DEF RemapInv
<1>6. k > 1 => \A id : Value(stack[k - 1], id)' = Value(stack[k - 1], id)
  BY <1>3 DEF Value
<1>7. (DOMAIN stack[k].remap = Params(stack[k].fn))'
  BY <1>4, <1>5 DEF Params
<1>8. ASSUME k > 1, NEW p \in Params(stack[k].fn)
      PROVE (stack[k].remap[p] =
               Value(stack[k - 1], CallOf(k - 1).args[ParamIndex(stack[k].fn, p)]))'
  <2>1. (CallOf(k - 1).args[ParamIndex(stack[k].fn, p)])' = CallOf(k - 1).args[ParamIndex(stack[k].fn, p)]
    BY <1>2, <1>3, <1>4, <1>8
  <2> QED
    BY <1>4, <1>5, <1>6, <1>8, <2>1
<1>9. Params(stack'[k].fn) = Params(stack[k].fn) /\ (k > 1)' = (k > 1)
  BY <1>4
<1>10. \A p : (p \in Params(stack[k].fn))' => p \in Params(stack[k].fn)
  BY <1>4 DEF Params
<1>11. k > 1 => (\A p \in Params(stack[k].fn) :
                    stack[k].remap[p] =
                       Value(stack[k - 1], CallOf(k - 1).args[ParamIndex(stack[k].fn, p)]))'
  BY <1>8, <1>10
<1> QED
  BY <1>7, <1>11

LEMMA RemapPushed ==
  ASSUME TableInv, StackIsASequence, StackInv, RemapInv, shader' = shader,
         stage \in {"combine", "run"},
         Top.next <= Len(Ops(Top.fn)), Op.op = "call",
         NEW r, NEW c, Push(Frame(Op.callee, r, c)),
         DOMAIN r = Params(Op.callee),
         \A p \in Params(Op.callee) : r[p] = Value(Top, Op.args[ParamIndex(Op.callee, p)])
  PROVE RemapInv'
<1>1. Len(stack) \in Nat \ {0} /\ Top = stack[Len(stack)]
        /\ Top.next \in DOMAIN Ops(Top.fn) /\ Op = Ops(Top.fn)[Top.next] /\ Top.fn \in Functions
  BY TopFacts DEF Op
<1>2. Op.callee \in Functions
  BY <1>1, InstructionFacts DEF TableInv
<1>3. /\ Len(stack') = Len(stack) + 1
      /\ \A k \in 1 .. Len(stack) : stack'[k] = stack[k]
      /\ stack'[Len(stack')] = Frame(Op.callee, r, c)
  BY <1>2, PushFacts
<1>4. \A f, p : Params(f)' = Params(f) /\ ParamIndex(f, p)' = ParamIndex(f, p)
  BY DEF Params, ParamIndex
<1>5. \A k \in 1 .. Len(stack) : /\ CallOf(k)' = CallOf(k)
                                /\ \A id : Value(stack[k], id)' = Value(stack[k], id)
  BY <1>3 DEF CallOf, Ops, Value
<1> SUFFICES ASSUME NEW k \in 1 .. Len(stack) + 1
             PROVE (/\ DOMAIN stack[k].remap = Params(stack[k].fn)
                    /\ k > 1 => \A p \in Params(stack[k].fn) :
                          stack[k].remap[p] =
                             Value(stack[k - 1], CallOf(k - 1).args[ParamIndex(stack[k].fn, p)]))'
  BY <1>3 DEF RemapInv
<1>6. CASE k = Len(stack) + 1
  <2>1. stack'[k].fn = Op.callee /\ stack'[k].remap = r
    BY <1>3, <1>6 DEF Frame
  <2>2. k - 1 \in 1 .. Len(stack) /\ k - 1 = Len(stack)
    BY <1>1, <1>6
  <2>3. CallOf(k - 1) = Op /\ stack[k - 1] = Top
    BY <1>1, <2>2 DEF CallOf
  <2>4. CallOf(k - 1)' = Op /\ \A id : Value(stack[k - 1], id)' = Value(Top, id)
    BY <1>5, <2>2, <2>3
  <2>5. ASSUME NEW p \in Params(Op.callee)
        PROVE stack'[k].remap[p] =
                 Value(stack[k - 1], CallOf(k - 1).args[ParamIndex(stack[k].fn, p)])'
    <3>1. (CallOf(k - 1).args[ParamIndex(stack[k].fn, p)])' = Op.args[ParamIndex(Op.callee, p)]
      BY <1>4, <2>1, <2>4
    <3> QED
      BY <2>1, <2>4, <2>5, <3>1
  <2> QED
    BY <1>4, <2>1, <2>5
<1>7. CASE k \in 1 .. Len(stack)
  <2>1. stack'[k] = stack[k]
    BY <1>3, <1>7
  <2>2. /\ DOMAIN stack[k].remap = Params(stack[k].fn)
        /\ k > 1 => \A p \in Params(stack[k].fn) :
              stack[k].remap[p] =
                  Value(stack[k - 1], CallOf(k - 1).args[ParamIndex(stack[k].fn, p)])
    BY <1>7 DEF RemapInv
  <2>3. k > 1 => k - 1 \in 1 .. Len(stack)
    BY <1>7
  <2>4. ASSUME k > 1, NEW p \in Params(stack[k].fn)
        PROVE stack'[k].remap[p] =
                 Value(stack[k - 1], CallOf(k - 1).args[ParamIndex(stack[k].fn, p)])'
    <3>1. (CallOf(k - 1).args[ParamIndex(stack[k].fn, p)])' = CallOf(k - 1).args[ParamIndex(stack[k].fn, p)]
      BY <1>4, <1>5, <2>1, <2>3, <2>4
    <3> QED
      BY <1>5, <2>1, <2>2, <2>3, <2>4, <3>1
  <2> QED
    BY <1>4, <2>1, <2>2, <2>4
<1> QED
  BY <1>1, <1>6, <1>7

LEMMA RemapStep ==
  ASSUME TableInv, StackIsASequence, StackInv, RemapInv, Next
  PROVE RemapInv'
<1>1. shader' = shader
  BY DEF Next, FindDummy, Combine, CombineCall, CombineReturn, FindDref, MarkComparisons,
         UsageCall, Sample, RunCall, Call, FunctionReturn, NextStage
<1>2. ASSUME NEW s, Start(s) PROVE RemapInv'
  <2>1. Len(stack') = 1 /\ stack'[1] = Frame(Main, Empty, Empty)
    BY <1>2, StartFacts
  <2>2. Params(Main)' = {}
    BY <1>1, ShaderFacts DEF TableInv, Params
  <2>3. stack'[1].fn = Main /\ DOMAIN stack'[1].remap = {}
    BY <2>1 DEF Frame, Empty
  <2>4. (DOMAIN stack[1].remap = Params(stack[1].fn))'
    BY <2>2, <2>3
  <2>5. \A k \in 1 .. Len(stack') : k = 1 /\ ~(k > 1)
    BY <2>1
  <2> QED
    BY <2>4, <2>5 DEF RemapInv
<1>3. ASSUME Advance, stage \in {"combine", "run"} PROVE RemapInv'
  <2>1. Len(stack) \in Nat /\ Len(stack) > 0
    BY TopFacts
  <2> QED
    BY <1>1, <1>3, <2>1, AdvanceFacts, RemapKept
<1>4. ASSUME Return, Len(stack) > 1, stage \in {"combine", "run"} PROVE RemapInv'
  <2>1. Len(stack) \in Nat
    BY TopFacts
  <2>2. /\ Len(stack') \in Nat /\ Len(stack') <= Len(stack)
        /\ \A k \in 1 .. Len(stack') :
              /\ k # Len(stack') => stack'[k] = stack[k]
              /\ stack'[k].fn = stack[k].fn /\ stack'[k].remap = stack[k].remap
    BY <1>4, <2>1, ReturnFacts
  <2> QED
    BY <1>1, <1>4, <2>2, RemapKept
<1>5. ASSUME stage' \notin {"combine", "run"} PROVE RemapInv'
  BY <1>5 DEF RemapInv
<1>6. CASE FindDummy
  BY <1>2, <1>5, <1>6 DEF FindDummy
<1>7. CASE Combine
  BY <1>3, <1>5, <1>7 DEF Combine
<1>8. CASE CombineCall
  <2> DEFINE r == push_remap_parameters(Op.callee, Op.args)
  <2>1. /\ stage = "combine" /\ Op.op = "call" /\ Top.next <= Len(Ops(Top.fn))
        /\ Push(Frame(Op.callee, r, Empty))
    BY <1>8 DEF CombineCall, At
  <2>2. /\ DOMAIN r = Params(Op.callee)
        /\ \A p \in Params(Op.callee) : r[p] = Value(Top, Op.args[ParamIndex(Op.callee, p)])
    BY DEF push_remap_parameters, remap_parameter, Value
  <2> HIDE DEF r
  <2> QED
    BY <1>1, <2>1, <2>2, RemapPushed
<1>9. CASE CombineReturn
  BY <1>4, <1>9 DEF CombineReturn
<1>10. CASE Sample
  BY <1>3, <1>5, <1>10 DEF Sample
<1>11. CASE RunCall
  <2> DEFINE r == Passed(Op.callee, Op.args)
  <2>1. CASE stage' = "thrown"
    BY <1>5, <2>1
  <2>2. CASE stage' # "thrown"
    <3>1. /\ stage = "run" /\ Op.op = "call" /\ Top.next <= Len(Ops(Top.fn))
          /\ \E c : Push(Frame(Op.callee, r, c))
      BY <1>11, <2>2 DEF RunCall, At
    <3>2. PICK c : Push(Frame(Op.callee, r, c))
      BY <3>1
    <3>3. DOMAIN Top.remap = Params(Top.fn)
      BY <3>1, TopFacts DEF RemapInv
    <3>4. /\ DOMAIN r = Params(Op.callee)
          /\ \A p \in Params(Op.callee) : r[p] = Value(Top, Op.args[ParamIndex(Op.callee, p)])
      BY <3>3 DEF Passed, Value
    <3> HIDE DEF r
    <3> QED
      BY <1>1, <3>1, <3>2, <3>4, RemapPushed
  <2> QED
    BY <2>1, <2>2
<1>12. CASE FunctionReturn
  BY <1>4, <1>5, <1>12 DEF FunctionReturn
<1>13. CASE NextStage
  BY <1>2, <1>13 DEF NextStage
<1>14. CASE FindDref \/ MarkComparisons \/ UsageCall \/ Call
  BY <1>5, <1>14 DEF FindDref, MarkComparisons, UsageCall, Call
<1> QED
  BY <1>6, <1>7, <1>8, <1>9, <1>10, <1>11, <1>12, <1>13, <1>14 DEF Next

-----------------------------------------------------------------------------
(* What was followed while combining is complete. *)

LEMMA FirstIsIn ==
  ASSUME NEW m \in Nat \ {0}
  PROVE 1 \in 1 .. m
  OBVIOUS

LEMMA BeyondEnd ==
  ASSUME NEW m \in Nat, NEW l \in Nat, m > l, NEW n \in 1 .. l
  PROVE n < m
  OBVIOUS

LEMMA StepGrows ==
  ASSUME TableInv, StackIsASequence, StackInv, Next
  PROVE TablesGrow
<1>1. CASE Combine
  BY <1>1, CombineGrows
<1>2. CASE CombineReturn
  BY <1>2, ReturnGrows
<1>3. CASE ~Combine /\ ~CombineReturn
  BY <1>3, OthersGrow DEF Next, FindDummy, CombineCall, FindDref, MarkComparisons,
         UsageCall, Sample, RunCall, Call, FunctionReturn, NextStage
<1> QED
  BY <1>1, <1>2, <1>3

LEMMA InstructionCompleted ==
  ASSUME TableInv, StackIsASequence, StackInv, DoneInv, RemapInv, Combine, stage' = "combine",
         NEW G, G.fn = Top.fn, G.remap = Top.remap, NEW n, n = Top.next
  PROVE Completed(G.fn, n)' /\ Listed(G, n)'
<1> PICK f, i, s : f = Top.fn /\ i = Op.image /\ s = SamplerOf(Op)
  OBVIOUS
<1>1. /\ stage = "combine" /\ Op.op # "call" /\ n <= Len(Ops(f)) /\ shader' = shader
      /\ combined_parameters' =
            IF Len(stack) > 1 /\ do_combined_parameters[f]
            THEN [combined_parameters EXCEPT ![f] = @ \cup register_combined_image_sampler(f, i, s)]
            ELSE combined_parameters
      /\ combined_image_samplers' = combined_image_samplers
            \cup {<<remap_parameter(i), remap_parameter(s)>>}
  BY DEF Combine, At
<1>2. f \in Functions /\ n \in DOMAIN Ops(f) /\ Op = Ops(f)[n]
        /\ Len(stack) \in Nat \ {0} /\ Top = stack[Len(stack)]
  BY <1>1, TopFacts DEF Op
<1>3. TablesGrow
  BY CombineGrows
<1>4. Ops(f)' = Ops(f) /\ \A g : Params(g)' = Params(g) /\ \A id : ParamIndex(g, id)' = ParamIndex(g, id)
  BY <1>1 DEF Ops, Params, ParamIndex
<1>5. DOMAIN Top.remap = Params(f)
  BY <1>1, <1>2 DEF RemapInv
<1>6. Needs(f, n)' = {<<i, s>>}
  BY <1>1, <1>2, <1>4 DEF Needs
<1>7. <<Value(Top, i), Value(Top, s)>> \in combined_image_samplers'
  BY <1>1 DEF remap_parameter, Value
<1>8. Available(f, i, s)'
  <2>1. CASE ~IsLocal(f, i, s)
    <3>1. Value(Top, i) = i /\ Value(Top, s) = s
      BY <1>5, <2>1 DEF IsLocal, Value
    <3> QED
      BY <1>4, <1>7, <2>1, <3>1 DEF Available, IsLocal
  <2>2. CASE IsLocal(f, i, s) /\ do_combined_parameters[f]
    <3>1. Len(stack) > 1
      <4>1. f # Main
        BY <2>2, ShaderFacts DEF IsLocal, TableInv
      <4> QED
        BY <1>2, <4>1 DEF StackInv
    <3>2. register_combined_image_sampler(f, i, s) = {CombinedParameter(f, i, s)}
      BY <2>2 DEF register_combined_image_sampler, IsLocal
    <3>3. CombinedParameter(f, i, s) \in combined_parameters'[f]
      BY <1>1, <1>2, <2>2, <3>1, <3>2 DEF TableInv
    <3>4. CombinedParameter(f, i, s)' = CombinedParameter(f, i, s)
      BY <1>4 DEF CombinedParameter
    <3> QED
      BY <1>4, <2>2, <3>3, <3>4 DEF Available, IsLocal
  <2>3. CASE ~do_combined_parameters[f]
    <3>1. Completed(f, n)
      BY <1>2, <2>3 DEF DoneInv
    <3>2. Completed(f, n)'
      BY <1>2, <1>3, <3>1, GrowingKeeps
    <3>3. <<i, s>> \in Needs(f, n)'
      BY <1>6
    <3>4. \A x : x = <<i, s>> => x[1] = i /\ x[2] = s
      OBVIOUS
    <3> QED
      BY <3>2, <3>3, <3>4 DEF Completed
  <2> QED
    BY <2>1, <2>2, <2>3
<1>9. Completed(f, n)'
  BY <1>1, <1>2, <1>4, <1>6, <1>8 DEF Completed
<1>10. Listed(G, n)'
  <2>1. Value(G, i) = Value(Top, i) /\ Value(G, s) = Value(Top, s)
    BY DEF Value
  <2> QED
    BY <1>6, <1>7, <2>1 DEF Listed
<1> QED
  BY <1>9, <1>10

(***************************************************************************)
(* When a callee returns, all it needs was listed for this call, so that   *)
(* the caller has what it must pass.                                       *)
(***************************************************************************)
LEMMA CallCompleted ==
  ASSUME TableInv, StackIsASequence, StackInv, KeysInv, DoneInv, RemapInv, CombineInv,
         CombineReturn,
         NEW G, G.fn = Caller.fn, G.remap = Caller.remap, NEW n, n = Caller.next
  PROVE Completed(G.fn, n)' /\ Listed(G, n)'
<1>0. Len(stack) # 2 => Len(stack) > 2
  <2>1. Len(stack) \in Nat /\ Len(stack) > 1
    BY TopFacts DEF CombineReturn
  <2>2. \A m \in Nat : m > 1 /\ m # 2 => m > 2
    OBVIOUS
  <2> QED
    BY <2>1, <2>2
<1> PICK f, g, args, F, H : /\ f = Caller.fn /\ g = Top.fn
                            /\ args = Ops(Caller.fn)[Caller.next].args
                            /\ F = Caller /\ H = Top
  OBVIOUS
<1>1. /\ stage = "combine" /\ Len(stack) > 1 /\ H.next > Len(Ops(g)) /\ shader' = shader
      /\ do_combined_parameters' = [do_combined_parameters EXCEPT ![g] = FALSE]
      /\ combined_parameters' =
            IF Len(stack) > 2 /\ do_combined_parameters[f]
            THEN [combined_parameters EXCEPT ![f] = @ \cup Propagated(f, g, args)]
            ELSE combined_parameters
      /\ UNCHANGED combined_image_samplers
  BY DEF CombineReturn, AtEnd
<1>2. /\ f \in Functions /\ n \in DOMAIN Ops(f)
      /\ Ops(f)[n].op = "call" /\ Ops(f)[n].callee = g /\ f # g
      /\ Len(stack) > 2 => f # Main
      /\ CallOf(Len(stack) - 1) = Ops(f)[n]
  BY <1>1, CallerFacts
<1>3. /\ g \in Functions /\ Len(Ops(g)) \in Nat /\ DOMAIN Ops(g) = 1 .. Len(Ops(g))
      /\ Len(stack) \in Nat /\ H = stack[Len(stack)] /\ F = stack[Len(stack) - 1] /\ H.next \in Nat
  BY <1>1, TopFacts, CallerFacts
<1>4. TablesGrow
  BY ReturnGrows
<1>5. Ops(f)' = Ops(f) /\ \A h : Params(h)' = Params(h) /\ \A id : ParamIndex(h, id)' = ParamIndex(h, id)
  BY <1>1 DEF Ops, Params, ParamIndex
<1>6. /\ DOMAIN F.remap = Params(f) /\ DOMAIN H.remap = Params(g)
      /\ \A p \in Params(g) : H.remap[p] = Value(F, args[ParamIndex(g, p)])
  BY <1>1, <1>2, <1>3 DEF RemapInv
<1>7. ~do_combined_parameters'[g] /\ combined_parameters'[g] = combined_parameters[g]
  BY <1>1, <1>2, <1>3 DEF TableInv
<1>8. Needs(f, n)' = Needs(f, n)
  BY <1>2, <1>5, <1>7 DEF Needs
<1>9. ASSUME NEW x \in Needs(f, n)
      PROVE /\ <<Value(F, x[1]), Value(F, x[2])>> \in combined_image_samplers'
            /\ Available(f, x[1], x[2])'
  <2>1. PICK c \in combined_parameters[g] : x = <<ImageOf(c, args), CombinedSamplerOf(c, args)>>
    BY <1>2 DEF Needs
  <2>2. PICK m \in DOMAIN Ops(g) : \E y \in Needs(g, m) :
           /\ y[1] \in Visible(g) /\ y[2] \in Visible(g)
           /\ c = CombinedParameter(g, y[1], y[2])
    BY <1>3 DEF KeysInv
  <2>3. PICK y \in Needs(g, m) : /\ y[1] \in Visible(g) /\ y[2] \in Visible(g)
                                 /\ c = CombinedParameter(g, y[1], y[2])
    BY <2>2
  <2>4. Listed(H, m)
    <3>1. m < H.next
      BY <1>1, <1>3
    <3> QED
      BY <1>1, <1>3, <3>1 DEF CombineInv
  <2>5. <<Value(H, y[1]), Value(H, y[2])>> \in combined_image_samplers
    BY <2>4 DEF Listed
  <2>6. PICK i, s : i = ImageOf(c, args) /\ s = CombinedSamplerOf(c, args)
    OBVIOUS
  <2>7. Value(H, y[1]) = Value(F, i) /\ Value(H, y[2]) = Value(F, s)
    <3>1. shader \in Shaders /\ g = Ops(f)[n].callee /\ args = Ops(f)[n].args
      BY <1>2 DEF TableInv
    <3>2. PICK y1, y2 : y1 = y[1] /\ y2 = y[2]
      OBVIOUS
    <3>3. y1 \in Visible(g) /\ y2 \in Visible(g) /\ c = CombinedParameter(g, y1, y2)
      BY <2>3, <3>2
    <3>4. Passes(F, f, H, g, args)
      BY <1>6 DEF Passes
    <3>5. MeansTheSame(F, H, g, args)
      BY <1>2, <1>3, <3>1, <3>4, CallResolves
    <3>6. /\ Value(H, y1) = Value(F, ImageOf(c, args))
          /\ Value(H, y2) = Value(F, CombinedSamplerOf(c, args))
      BY <3>3, <3>5 DEF MeansTheSame
    <3> QED
      BY <2>6, <3>2, <3>6
  <2>8. x[1] = i /\ x[2] = s
    BY <2>1, <2>6
  <2>9. <<Value(F, i), Value(F, s)>> \in combined_image_samplers'
    BY <1>1, <2>5, <2>7
  <2>10. Available(f, i, s)'
    <3>1. CASE ~IsLocal(f, i, s)
      <4>1. Value(F, i) = i /\ Value(F, s) = s
        BY <1>6, <3>1 DEF IsLocal, Value
      <4> QED
        BY <1>5, <2>9, <3>1, <4>1 DEF Available, IsLocal
    <3>2. CASE IsLocal(f, i, s) /\ do_combined_parameters[f]
      <4>1. Len(stack) > 2
        <5>1. f # Main
          BY <3>2, ShaderFacts DEF IsLocal, TableInv
        <5>2. Len(stack) = 2 => F = stack[1]
          BY <1>3
        <5>3. Len(stack) = 2 => f = Main
          BY <5>2 DEF StackInv
        <5>4. Len(stack) # 2
          BY <5>1, <5>3
        <5> QED
          BY <1>0, <5>4
      <4>2. register_combined_image_sampler(f, i, s) = {CombinedParameter(f, i, s)}
        BY <3>2 DEF register_combined_image_sampler, IsLocal
      <4>3. CombinedParameter(f, i, s) \in Propagated(f, g, args)
        BY <2>1, <2>6, <4>2 DEF Propagated
      <4>4. CombinedParameter(f, i, s) \in combined_parameters'[f]
        BY <1>1, <1>2, <3>2, <4>1, <4>3 DEF TableInv
      <4>5. CombinedParameter(f, i, s)' = CombinedParameter(f, i, s)
        BY <1>5 DEF CombinedParameter
      <4> QED
        BY <1>5, <3>2, <4>4, <4>5 DEF Available, IsLocal
    <3>3. CASE ~do_combined_parameters[f]
      <4>1. Completed(f, n)
        BY <1>2, <3>3 DEF DoneInv
      <4>2. Completed(f, n)'
        BY <1>2, <1>4, <4>1, GrowingKeeps
      <4> QED
        BY <1>8, <2>8, <4>2 DEF Completed
    <3> QED
      BY <3>1, <3>2, <3>3
  <2> QED
    BY <2>8, <2>9, <2>10
<1>10. Completed(f, n)'
  BY <1>2, <1>5, <1>7, <1>8, <1>9 DEF Completed
<1>11. \A id : Value(G, id) = Value(F, id)
  BY DEF Value
<1>12. Listed(G, n)'
  BY <1>8, <1>9, <1>11 DEF Listed
<1> QED
  BY <1>10, <1>12

LEMMA CombineStep ==
  ASSUME TableInv, StackIsASequence, StackInv, KeysInv, DoneInv, RemapInv, CombineInv, Next
  PROVE CombineInv'
<1>1. TablesGrow /\ shader' = shader /\ \A f : Ops(f)' = Ops(f)
  BY StepGrows DEF TablesGrow, Ops
<1> SUFFICES ASSUME stage' = "combine",
                    NEW k \in 1 .. Len(stack'), NEW G, G = stack'[k],
                    NEW n \in DOMAIN Ops(G.fn), n < G.next
             PROVE Completed(G.fn, n)' /\ Listed(G, n)'
  BY <1>1 DEF CombineInv
<1>2. ASSUME stage = "combine", NEW j \in 1 .. Len(stack),
             G.fn = stack[j].fn, G.remap = stack[j].remap, n < stack[j].next
      PROVE Completed(G.fn, n)' /\ Listed(G, n)'
  <2> PICK F : F = stack[j]
    OBVIOUS
  <2>1. F.fn \in Functions
    BY FrameFacts
  <2>2. Completed(F.fn, n) /\ Listed(F, n) /\ G.fn = F.fn /\ G.remap = F.remap
    BY <1>2 DEF CombineInv
  <2> QED
    BY <1>1, <1>2, <2>1, <2>2, GrowingKeepsListed
<1>3. ASSUME NEW s, Start(s) PROVE FALSE
  <2>1. Len(stack') = 1 /\ stack'[1] = Frame(Main, Empty, Empty)
    BY <1>3, StartFacts
  <2>2. k = 1
    BY <2>1
  <2>3. G.next = 1 /\ G.fn = Main
    BY <2>1, <2>2 DEF Frame
  <2>4. n \in Nat \ {0}
    BY <2>3, ShaderFacts, MainAssumption DEF TableInv
  <2> QED
    BY <2>3, <2>4
<1>4. CASE Combine
  <2>1. stage = "combine" /\ Advance
    BY <1>4 DEF Combine
  <2>2. Len(stack) \in Nat \ {0} /\ Top = stack[Len(stack)] /\ Top.next \in Nat
        /\ Top.fn \in Functions
    BY TopFacts
  <2>3. /\ Len(stack') = Len(stack)
        /\ \A j \in 1 .. Len(stack) : j # Len(stack) => stack'[j] = stack[j]
        /\ \A j \in 1 .. Len(stack) :
              stack'[j].fn = stack[j].fn /\ stack'[j].remap = stack[j].remap
        /\ stack'[Len(stack)].next = Top.next + 1
    BY <2>1, <2>2, AdvanceFacts
  <2>4. k \in 1 .. Len(stack) /\ G.fn = stack[k].fn /\ G.remap = stack[k].remap
    BY <2>3
  <2>5. CASE n < stack[k].next
    BY <1>2, <2>1, <2>4, <2>5
  <2>6. CASE ~(n < stack[k].next)
    <3>1. k = Len(stack)
      BY <2>3, <2>4, <2>6
    <3>2. G.fn = Top.fn /\ G.remap = Top.remap /\ G.next = Top.next + 1
      BY <2>2, <2>3, <2>4, <3>1
    <3>3. n \in Nat
      BY <2>2, <3>2, ShaderFacts DEF TableInv
    <3>4. n = Top.next
      BY <2>2, <2>6, <3>1, <3>2, <3>3
    <3> QED
      BY <1>4, <3>2, <3>4, InstructionCompleted
  <2> QED
    BY <2>5, <2>6
<1>5. CASE CombineCall
  <2>1. /\ stage = "combine" /\ Op.op = "call" /\ Top.next <= Len(Ops(Top.fn))
        /\ Push(Frame(Op.callee, push_remap_parameters(Op.callee, Op.args), Empty))
    BY <1>5 DEF CombineCall, At
  <2>2. Op.callee \in Functions /\ Len(stack) \in Nat
    <3>1. Top.fn \in Functions /\ Top.next \in DOMAIN Ops(Top.fn) /\ Len(stack) \in Nat
      BY <2>1, TopFacts
    <3> QED
      BY <2>1, <3>1, InstructionFacts DEF TableInv, Op
  <2>3. /\ Len(stack') = Len(stack) + 1
        /\ \A j \in 1 .. Len(stack) : stack'[j] = stack[j]
        /\ stack'[Len(stack')].next = 1 /\ stack'[Len(stack')].fn = Op.callee
    <3>1. Frame(Op.callee, push_remap_parameters(Op.callee, Op.args), Empty).next = 1
          /\ Frame(Op.callee, push_remap_parameters(Op.callee, Op.args), Empty).fn = Op.callee
      BY DEF Frame
    <3> QED
      BY <2>1, <2>2, <3>1, PushFacts
  <2>4. CASE k \in 1 .. Len(stack)
    BY <1>2, <2>1, <2>3, <2>4
  <2>5. CASE k \notin 1 .. Len(stack)
    <3>1. k = Len(stack')
      BY <2>2, <2>3, <2>5
    <3>2. G.next = 1 /\ G.fn = Op.callee
      BY <2>3, <3>1
    <3>3. n \in Nat \ {0}
      BY <2>2, <3>2, ShaderFacts DEF TableInv
    <3> QED
      BY <3>2, <3>3
  <2> QED
    BY <2>4, <2>5
<1>6. CASE CombineReturn
  <2>1. stage = "combine" /\ Return /\ Len(stack) > 1
    BY <1>6 DEF CombineReturn
  <2>2. /\ Len(stack) \in Nat /\ Len(stack) - 1 \in 1 .. Len(stack)
        /\ Caller = stack[Len(stack) - 1] /\ Caller.fn \in Functions /\ Caller.next \in Nat
    <3>1. Len(stack) - 1 \in 1 .. Len(stack) /\ Caller = stack[Len(stack) - 1]
      BY <2>1, CallerFacts
    <3> QED
      BY <3>1, FrameFacts
  <2>3. /\ Len(stack') = Len(stack) - 1
        /\ \A j \in 1 .. Len(stack') : j # Len(stack') => stack'[j] = stack[j]
        /\ \A j \in 1 .. Len(stack') :
              stack'[j].fn = stack[j].fn /\ stack'[j].remap = stack[j].remap
        /\ stack'[Len(stack')].next = Caller.next + 1
    BY <2>1, ReturnFacts
  <2>4. k \in 1 .. Len(stack) /\ G.fn = stack[k].fn /\ G.remap = stack[k].remap
    BY <2>2, <2>3
  <2>5. CASE n < stack[k].next
    BY <1>2, <2>1, <2>4, <2>5
  <2>6. CASE ~(n < stack[k].next)
    <3>1. k = Len(stack) - 1
      BY <2>3, <2>4, <2>6
    <3>2. G.fn = Caller.fn /\ G.remap = Caller.remap /\ G.next = Caller.next + 1
      BY <2>2, <2>3, <2>4, <3>1
    <3>3. n \in Nat
      BY <2>2, <3>2, ShaderFacts DEF TableInv
    <3>4. n = Caller.next
      BY <2>2, <2>6, <3>1, <3>2, <3>3
    <3> QED
      BY <1>6, <3>2, <3>4, CallCompleted
  <2> QED
    BY <2>5, <2>6
<1>7. CASE FindDummy \/ NextStage
  <2>1. stage = "dummy" \/ NextStage
    BY <1>7 DEF FindDummy
  <2>2. \E s : Start(s)
    BY <1>7 DEF FindDummy, NextStage
  <2> QED
    BY <1>3, <2>2
<1>8. CASE FindDref \/ MarkComparisons \/ UsageCall \/ Call \/ Sample \/ RunCall \/ FunctionReturn
  BY <1>8 DEF FindDref, MarkComparisons, UsageCall, Call, Sample, RunCall, FunctionReturn
<1> QED
  BY <1>4, <1>5, <1>6, <1>7, <1>8 DEF Next

LEMMA DoneStep ==
  ASSUME TableInv, StackIsASequence, StackInv, DoneInv, CombineInv, Next
  PROVE DoneInv'
<1>1. TablesGrow /\ \A f : Ops(f)' = Ops(f)
  BY StepGrows DEF TablesGrow, Ops
<1> SUFFICES ASSUME NEW f \in Functions, ~do_combined_parameters'[f], NEW n \in DOMAIN Ops(f)
             PROVE Completed(f, n)'
  BY <1>1 DEF DoneInv
<1>2. CASE ~do_combined_parameters[f]
  BY <1>1, <1>2, GrowingKeeps DEF DoneInv
<1>3. CASE do_combined_parameters[f]
  <2>1. CombineReturn
    BY <1>3 DEF Next, FindDummy, Combine, CombineCall, FindDref, MarkComparisons,
         UsageCall, Sample, RunCall, Call, FunctionReturn, NextStage, combining
  <2>2. stage = "combine" /\ AtEnd
        /\ do_combined_parameters' = [do_combined_parameters EXCEPT ![Top.fn] = FALSE]
    BY <2>1 DEF CombineReturn
  <2>3. f = Top.fn
    BY <1>3, <2>2 DEF TableInv
  <2>4. Len(stack) \in 1 .. Len(stack) /\ Top = stack[Len(stack)] /\ n < Top.next
    BY <2>2, <2>3, TopFacts DEF AtEnd
  <2>5. Completed(f, n)
    BY <2>2, <2>3, <2>4 DEF CombineInv
  <2> QED
    BY <1>1, <2>5, GrowingKeeps
<1> QED
  BY <1>2, <1>3

LEMMA MainStep ==
  ASSUME TableInv, StackIsASequence, StackInv, CombineInv, MainInv, Next
  PROVE MainInv'
<1>1. TablesGrow /\ \A f : Ops(f)' = Ops(f)
  BY StepGrows DEF TablesGrow, Ops
<1> SUFFICES ASSUME stage' \in {"dref", "usage", "usage again", "run", "end"},
                    NEW n \in DOMAIN Ops(Main)
             PROVE Completed(Main, n)'
  BY <1>1 DEF MainInv
<1>2. CASE stage \in {"dref", "usage", "usage again", "run", "end"}
  BY <1>1, <1>2, GrowingKeeps, MainAssumption DEF MainInv
<1>3. CASE stage \notin {"dref", "usage", "usage again", "run", "end"}
  <2>1. NextStage
    BY <1>3 DEF Next, FindDummy, Combine, CombineCall, CombineReturn, FindDref,
         MarkComparisons, UsageCall, Sample, RunCall, Call, FunctionReturn, Start
  <2>2. stage = "combine" /\ Len(stack) = 1 /\ AtEnd
    <3>1. stage' # "combine"
      OBVIOUS
    <3> QED
      BY <1>3, <2>1, <3>1, NextStageFacts DEF NextStage, Start
  <2>3. Top = stack[1] /\ Top.fn = Main /\ 1 \in 1 .. Len(stack) /\ n < stack[1].next
    <3>1. Top = stack[1] /\ Top.fn = Main
      BY <2>2, TopFacts DEF StackInv
    <3>2. n \in 1 .. Len(Ops(Main)) /\ Len(Ops(Main)) \in Nat /\ Top.next \in Nat
      BY <3>1, TopFacts
    <3>3. Top.next > Len(Ops(Main))
      BY <2>2, <3>1 DEF AtEnd
    <3>4. 1 \in 1 .. Len(stack)
      BY TopFacts, FirstIsIn
    <3>5. n < Top.next
      BY <3>2, <3>3, BeyondEnd
    <3> QED
      BY <3>1, <3>4, <3>5
  <2>4. Completed(Main, n)
    BY <2>2, <2>3 DEF CombineInv, StackInv
  <2> QED
    BY <1>1, <2>4, GrowingKeeps, MainAssumption
<1> QED
  BY <1>2, <1>3

-----------------------------------------------------------------------------
(* The shader which was written runs. *)

\* In a run, what the next instruction needs is there.
LEMMA NextIsCompleted ==
  ASSUME TableInv, StackIsASequence, StackInv, DoneInv, MainInv, RunInv,
         stage = "run", Top.next <= Len(Ops(Top.fn))
  PROVE Completed(Top.fn, Top.next)
<1> PICK f, n : f = Top.fn /\ n = Top.next
  OBVIOUS
<1>1. /\ f \in Functions /\ n \in DOMAIN Ops(f) /\ Top = stack[Len(stack)]
      /\ Len(stack) \in Nat \ {0}
  BY TopFacts
<1>2. CASE f = Main
  BY <1>1, <1>2 DEF MainInv
<1>3. CASE f # Main
  <2>1. Len(stack) > 1
    BY <1>1, <1>3 DEF StackInv
  <2>2. Len(stack) \in 1 .. Len(stack)
    BY <1>1
  <2>3. ~do_combined_parameters[f]
    BY <1>1, <2>1, <2>2 DEF RunInv
  <2> QED
    BY <1>1, <2>3 DEF DoneInv
<1> QED
  BY <1>2, <1>3

\* A mapping which is there is found, and what is found is what was asked for.
LEMMA FoundIsRight ==
  ASSUME TableInv, StackIsASequence, StackInv, RemapInv, RunInv, stage = "run",
         NEW i \in Visible(Top.fn), NEW s \in Visible(Top.fn)
  PROVE /\ IsMapped(i, s) <=> Available(Top.fn, i, s)
        /\ IsMapped(i, s) => to_combined_image_sampler(i, s) = <<Value(Top, i), Value(Top, s)>>
<1>1. /\ Len(stack) \in 1 .. Len(stack) /\ Top = stack[Len(stack)]
  BY TopFacts
<1>2. DOMAIN Top.remap = Params(Top.fn)
  BY <1>1 DEF RemapInv
<1>3. FromParameters(i, s) <=> IsLocal(Top.fn, i, s)
  BY DEF FromParameters, IsLocal
<1>4. FindCombined(i, s) = IF CombinedParameter(Top.fn, i, s) \in combined_parameters[Top.fn]
                           THEN {CombinedParameter(Top.fn, i, s)} ELSE {}
  BY DEF FindCombined
<1>5. IsMapped(i, s) <=> Available(Top.fn, i, s)
  BY <1>3, <1>4 DEF IsMapped, Available
<1>6. ASSUME IsMapped(i, s)
      PROVE to_combined_image_sampler(i, s) = <<Value(Top, i), Value(Top, s)>>
  <2>1. CASE FromParameters(i, s)
    <3>1. PICK c : c = CombinedParameter(Top.fn, i, s)
      OBVIOUS
    <3>2. c \in combined_parameters[Top.fn] /\ FindCombined(i, s) = {c}
      BY <1>4, <1>6, <2>1, <3>1 DEF IsMapped
    <3>3. (CHOOSE d \in FindCombined(i, s) : TRUE) = c
      BY <3>2
    <3>4. CombinedIsRight(Top)
      BY <1>1 DEF RunInv
    <3>5. Top.combined[c] = <<Value(Top, i), Value(Top, s)>>
      BY <3>1, <3>2, <3>4 DEF CombinedIsRight
    <3> QED
      BY <2>1, <3>3, <3>5 DEF to_combined_image_sampler
  <2>2. CASE ~FromParameters(i, s)
    <3>1. Value(Top, i) = i /\ Value(Top, s) = s
      BY <1>2, <2>2 DEF Value, FromParameters
    <3> QED
      BY <2>2, <3>1 DEF to_combined_image_sampler
  <2> QED
    BY <2>1, <2>2
<1> QED
  BY <1>5, <1>6

\* What a call passes for a combined parameter is what the parameter means in the callee.
LEMMA PassedIsRight ==
  ASSUME TableInv, StackIsASequence, StackInv, KeysInv, RemapInv, RunInv, stage = "run",
         Top.next <= Len(Ops(Top.fn)), Op.op = "call",
         NEW g, g = Op.callee, NEW args, args = Op.args,
         NEW G, G.fn = g, G.remap = Passed(g, args),
         NEW c \in combined_parameters[g],
         IsMapped(ImageOf(c, args), CombinedSamplerOf(c, args)),
         NEW i \in Visible(g), NEW s \in Visible(g), c = CombinedParameter(g, i, s)
  PROVE to_combined_image_sampler(ImageOf(c, args), CombinedSamplerOf(c, args))
           = <<Value(G, i), Value(G, s)>>
<1> PICK f, n : f = Top.fn /\ n = Top.next
  OBVIOUS
<1>1. /\ f \in Functions /\ n \in DOMAIN Ops(f) /\ Op = Ops(f)[n]
      /\ Len(stack) \in 1 .. Len(stack) /\ Top = stack[Len(stack)]
  BY TopFacts DEF Op
<1>2. DOMAIN Top.remap = Params(f)
  BY <1>1 DEF RemapInv
<1>3. Passes(Top, f, G, g, args)
  BY <1>2 DEF Passed, Value, Passes
<1>4. /\ ImageOf(c, args) \in Visible(f) /\ CombinedSamplerOf(c, args) \in Visible(f)
      /\ Value(G, i) = Value(Top, ImageOf(c, args))
      /\ Value(G, s) = Value(Top, CombinedSamplerOf(c, args))
  <2>1. /\ shader \in Shaders /\ f \in Functions /\ n \in DOMAIN Ops(f) /\ Ops(f)[n].op = "call"
        /\ g = Ops(f)[n].callee /\ args = Ops(f)[n].args
    BY <1>1 DEF TableInv
  <2>2. ImageOf(c, args) \in Visible(f) /\ CombinedSamplerOf(c, args) \in Visible(f)
    BY <2>1, ArgumentsAreVisible
  <2>3. MeansTheSame(Top, G, g, args)
    BY <1>1, <1>3, <2>1, CallResolves, InstructionFacts
  <2> QED
    BY <2>2, <2>3 DEF MeansTheSame
<1> QED
  BY <1>4, FoundIsRight

\* A sampling in the run.
LEMMA SampleFacts ==
  ASSUME TableInv, StackIsASequence, StackInv, KeysInv, DoneInv, RemapInv, MainInv, RunInv,
         stage = "run", At({"sample", "fetch"})
  PROVE /\ IsMapped(Op.image, SamplerOf(Op))
        /\ to_combined_image_sampler(Op.image, SamplerOf(Op)) = Pair(Op.image, SamplerOf(Op))
<1> PICK f, n, i, s : f = Top.fn /\ n = Top.next /\ i = Op.image /\ s = SamplerOf(Op)
  OBVIOUS
<1>1. /\ f \in Functions /\ n \in DOMAIN Ops(f) /\ Op = Ops(f)[n] /\ Op.op # "call"
      /\ Len(stack) \in 1 .. Len(stack) /\ Top = stack[Len(stack)]
  BY TopFacts DEF At, Op
<1>2. i \in Visible(f) /\ s \in Visible(f)
  BY <1>1, InstructionFacts DEF TableInv
<1>3. Completed(f, n)
  BY NextIsCompleted DEF At
<1>4. Needs(f, n) = {<<i, s>>}
  BY <1>1 DEF Needs
<1>5. Available(f, i, s)
  <2>1. \A x : x = <<i, s>> => x[1] = i /\ x[2] = s
    OBVIOUS
  <2> QED
    BY <1>3, <1>4, <2>1 DEF Completed
<1>6. DOMAIN Top.remap = Params(f)
  BY <1>1 DEF RemapInv
<1>7. Pair(i, s) = <<Value(Top, i), Value(Top, s)>>
  BY <1>6 DEF Pair, Value
<1> QED
  BY <1>2, <1>5, <1>7, FoundIsRight

\* A call in the run.
LEMMA CallFacts ==
  ASSUME TableInv, StackIsASequence, StackInv, KeysInv, DoneInv, RemapInv, MainInv, RunInv,
         stage = "run", At({"call"}), NEW g, g = Op.callee, NEW args, args = Op.args
  PROVE /\ g \in Functions /\ ~do_combined_parameters[g]
        /\ \A c \in combined_parameters[g] : IsMapped(ImageOf(c, args), CombinedSamplerOf(c, args))
<1> PICK f, n : f = Top.fn /\ n = Top.next
  OBVIOUS
<1>1. /\ f \in Functions /\ n \in DOMAIN Ops(f) /\ Op = Ops(f)[n] /\ Op.op = "call"
  BY TopFacts DEF At, Op
<1>2. Completed(f, n)
  BY NextIsCompleted DEF At
<1>3. g \in Functions /\ ~do_combined_parameters[g]
  BY <1>1, <1>2, InstructionFacts DEF TableInv, Completed
<1>4. ASSUME NEW c \in combined_parameters[g]
      PROVE IsMapped(ImageOf(c, args), CombinedSamplerOf(c, args))
  <2> PICK i, s : i = ImageOf(c, args) /\ s = CombinedSamplerOf(c, args)
    OBVIOUS
  <2> PICK x : x = <<i, s>>
    OBVIOUS
  <2>1. x \in Needs(f, n) /\ x[1] = i /\ x[2] = s
    BY <1>1 DEF Needs
  <2>2. i \in Visible(f) /\ s \in Visible(f)
    BY <1>1, <2>1, NeedsAreVisible DEF TableInv
  <2>3. Available(f, i, s)
    BY <1>2, <2>1 DEF Completed
  <2> QED
    BY <2>2, <2>3, FoundIsRight
<1> QED
  BY <1>3, <1>4

LEMMA RunStep ==
  ASSUME TableInv, StackIsASequence, StackInv, KeysInv, DoneInv, RemapInv, MainInv, RunInv, Next
  PROVE RunInv'
<1>1. TablesGrow
  BY StepGrows
<1>2. /\ shader' = shader /\ \A f : Params(f)' = Params(f)
      /\ \A f, id : ParamIndex(f, id)' = ParamIndex(f, id)
      /\ \A f : Visible(f)' = Visible(f)
      /\ \A f, i, s : CombinedParameter(f, i, s)' = CombinedParameter(f, i, s)
  BY <1>1 DEF TablesGrow, Params, ParamIndex, Visible, CombinedParameter
<1> SUFFICES ASSUME stage' = "run", NEW k \in 1 .. Len(stack'), NEW G, G = stack'[k]
             PROVE (k > 1 => ~do_combined_parameters'[G.fn]) /\ CombinedIsRight(G)'
  BY DEF RunInv
<1>3. ASSUME stage = "run", combined_parameters' = combined_parameters,
             do_combined_parameters' = do_combined_parameters,
             NEW j \in 1 .. Len(stack), j = k,
             G.fn = stack[j].fn, G.remap = stack[j].remap, G.combined = stack[j].combined
      PROVE (k > 1 => ~do_combined_parameters'[G.fn]) /\ CombinedIsRight(G)'
  <2> PICK F : F = stack[j]
    OBVIOUS
  <2>1. (j > 1 => ~do_combined_parameters[F.fn]) /\ CombinedIsRight(F)
    BY <1>3 DEF RunInv
  <2>2. \A id : Value(G, id) = Value(F, id)
    BY <1>3 DEF Value
  <2> QED
    BY <1>2, <1>3, <2>1, <2>2 DEF CombinedIsRight
<1>4. CASE Sample
  <2>1. stage = "run" /\ Advance /\ UNCHANGED combining
    BY <1>4 DEF Sample
  <2>2. Len(stack') = Len(stack) /\ k \in 1 .. Len(stack)
        /\ G.fn = stack[k].fn /\ G.remap = stack[k].remap /\ G.combined = stack[k].combined
    BY <2>1, TopFacts, AdvanceFacts
  <2> QED
    BY <1>3, <2>1, <2>2 DEF combining
<1>5. CASE FunctionReturn
  <2>1. Return /\ UNCHANGED combining /\ Len(stack) > 1 /\ stage = "run"
    BY <1>5 DEF FunctionReturn
  <2>2. Len(stack') = Len(stack) - 1 /\ Len(stack) \in Nat
        /\ G.fn = stack[k].fn /\ G.remap = stack[k].remap /\ G.combined = stack[k].combined
    BY <2>1, ReturnFacts
  <2>3. k \in 1 .. Len(stack)
    BY <2>2
  <2> QED
    BY <1>3, <2>1, <2>2, <2>3 DEF combining
<1>6. CASE NextStage
  <2>1. \E s : Start(s)
    BY <1>6 DEF NextStage
  <2>2. Len(stack') = 1 /\ stack'[1] = Frame(Main, Empty, Empty)
    BY <2>1, StartFacts
  <2>3. k = 1
    BY <2>2
  <2>4. G.fn = Main
    BY <2>2, <2>3 DEF Frame
  <2>5. combined_parameters' = combined_parameters
    BY <1>6 DEF NextStage, combining
  <2>6. CombinedIsRight(G)'
    BY <2>4, <2>5 DEF CombinedIsRight, KeysInv
  <2> QED
    BY <2>3, <2>6
<1>7. CASE RunCall
  <2> PICK g, args : g = Op.callee /\ args = Op.args
    OBVIOUS
  <2> PICK combined : combined = [c \in combined_parameters[g] |->
                         to_combined_image_sampler(ImageOf(c, args), CombinedSamplerOf(c, args))]
    OBVIOUS
  <2>1. stage = "run" /\ At({"call"}) /\ UNCHANGED combining
    BY <1>7 DEF RunCall
  <2>2. /\ g \in Functions /\ ~do_combined_parameters[g]
        /\ \A c \in combined_parameters[g] : IsMapped(ImageOf(c, args), CombinedSamplerOf(c, args))
    BY <2>1, CallFacts
  <2>3. Push(Frame(g, Passed(g, args), combined))
    BY <1>7, <2>2 DEF RunCall
  <2>4. /\ Len(stack') = Len(stack) + 1 /\ Len(stack) \in Nat
        /\ \A j \in 1 .. Len(stack) : stack'[j] = stack[j]
        /\ stack'[Len(stack')] = Frame(g, Passed(g, args), combined)
    BY <2>2, <2>3, PushFacts
  <2>5. CASE k \in 1 .. Len(stack)
    BY <1>3, <2>1, <2>4, <2>5 DEF combining
  <2>6. CASE k \notin 1 .. Len(stack)
    <3>1. k = Len(stack')
      BY <2>4, <2>6
    <3>2. G.fn = g /\ G.remap = Passed(g, args) /\ G.combined = combined
      BY <2>4, <3>1 DEF Frame
    <3>3. combined_parameters' = combined_parameters /\ do_combined_parameters' = do_combined_parameters
      BY <2>1 DEF combining
    <3>4. ASSUME NEW c \in combined_parameters[g], NEW i \in Visible(g), NEW s \in Visible(g),
                 c = CombinedParameter(g, i, s)
          PROVE combined[c] = <<Value(G, i), Value(G, s)>>
      <4>1. IsMapped(ImageOf(c, args), CombinedSamplerOf(c, args))
        BY <2>2
      <4>2. Top.next <= Len(Ops(Top.fn)) /\ Op.op = "call"
        BY <2>1 DEF At
      <4> QED
        BY <2>1, <3>2, <3>4, <4>1, <4>2, PassedIsRight
    <3>5. CombinedIsRight(G)'
      <4>1. \A id : Value(G, id)' = Value(G, id)
        BY DEF Value
      <4>2. \A c \in combined_parameters[g] : \A i, s \in Visible(g) :
                c = CombinedParameter(g, i, s) => combined[c] = <<Value(G, i), Value(G, s)>>
        BY <3>4
      <4>3. ASSUME NEW c \in combined_parameters'[G.fn],
                   NEW i \in Visible(G.fn)', NEW s \in Visible(G.fn)',
                   c = CombinedParameter(G.fn, i, s)'
            PROVE G.combined[c] = <<Value(G, i), Value(G, s)>>'
        <5>1. c \in combined_parameters[g] /\ i \in Visible(g) /\ s \in Visible(g)
                /\ c = CombinedParameter(g, i, s)
          BY <1>2, <3>2, <3>3, <4>3
        <5>2. combined[c] = <<Value(G, i), Value(G, s)>>
          BY <4>2, <5>1
        <5> QED
          BY <3>2, <4>1, <5>2
      <4> QED
        BY <4>3 DEF CombinedIsRight
    <3> QED
      BY <2>2, <3>2, <3>3, <3>5
  <2> QED
    BY <2>5, <2>6
<1>8. CASE FindDummy \/ Combine \/ CombineCall \/ CombineReturn \/ FindDref
             \/ MarkComparisons \/ UsageCall \/ Call
  BY <1>8 DEF FindDummy, Combine, CombineCall, CombineReturn, FindDref, MarkComparisons,
         UsageCall, Call, Start
<1> QED
  BY <1>4, <1>5, <1>6, <1>7, <1>8 DEF Next

LEMMA RightPairStep ==
  ASSUME TableInv, StackIsASequence, StackInv, KeysInv, DoneInv, RemapInv, MainInv, RunInv,
         SamplesTheRightPair, Next
  PROVE SamplesTheRightPair'
<1>1. CASE Sample
  <2>1. stage = "run" /\ At({"sample", "fetch"})
    BY <1>1 DEF Sample
  <2>2. to_combined_image_sampler(Op.image, SamplerOf(Op)) = Pair(Op.image, SamplerOf(Op))
    BY <2>1, SampleFacts
  <2> QED
    BY <1>1, <2>2 DEF Sample, SamplesTheRightPair
<1>2. CASE ~Sample
  <2>1. sampled' = sampled
    BY <1>2 DEF Next, FindDummy, Combine, CombineCall, CombineReturn, FindDref,
         MarkComparisons, UsageCall, RunCall, Call, FunctionReturn, NextStage, execution
  <2> QED
    BY <2>1 DEF SamplesTheRightPair
<1> QED
  BY <1>1, <1>2

-----------------------------------------------------------------------------
(* Without a dummy sampler no image is used without a sampler. *)

LEMMA CleanInstructions ==
  ASSUME NEW f, IsClean(f), NEW n \in DOMAIN Ops(f)
  PROVE IsCleanOp(f, n)
<1>1. PICK S \in SUBSET Functions : f \in S /\ IsClosed(S)
  BY DEF IsClean
<1>2. Ops(f)[n].op # "fetch" /\ (Ops(f)[n].op = "call" => Ops(f)[n].callee \in S)
  BY <1>1 DEF IsClosed
<1> QED
  BY <1>1, <1>2 DEF IsCleanOp, IsClean

LEMMA CleanFunctions ==
  ASSUME NEW f \in Functions, \A n \in DOMAIN Ops(f) : IsCleanOp(f, n)
  PROVE IsClean(f)
<1> DEFINE S == {f} \cup {g \in Functions : IsClean(g)}
<1>1. S \in SUBSET Functions /\ f \in S
  OBVIOUS
<1>2. ASSUME NEW g \in S, NEW n \in DOMAIN Ops(g) PROVE IsCleanOp(g, n)
  BY <1>2, CleanInstructions
<1>3. \A g : IsClean(g) => g \in S
  BY DEF IsClean
<1> HIDE DEF S
<1>4. IsClosed(S)
  BY <1>2, <1>3 DEF IsClosed, IsCleanOp
<1> QED
  BY <1>1, <1>4 DEF IsClean

LEMMA DummyStep ==
  ASSUME TableInv, StackIsASequence, StackInv, DummyInv, Next
  PROVE DummyInv'
<1>1. /\ shader' = shader /\ (\A f : Ops(f)' = Ops(f)) /\ (\A f : IsClean(f)' = IsClean(f))
      /\ \A f, n : IsCleanOp(f, n)' = IsCleanOp(f, n)
  <2>1. shader' = shader
    BY StepGrows DEF TablesGrow
  <2>2. \A f : Ops(f)' = Ops(f)
    BY <2>1 DEF Ops
  <2>3. \A S : IsClosed(S)' = IsClosed(S)
    BY <2>2 DEF IsClosed
  <2>4. \A f : IsClean(f)' = IsClean(f)
    BY <2>3 DEF IsClean
  <2> QED
    BY <2>1, <2>2, <2>4 DEF IsCleanOp
<1>2. /\ Len(stack) \in 1 .. Len(stack) /\ Len(stack) \in Nat \ {0} /\ Top = stack[Len(stack)]
      /\ Top.fn \in Functions /\ Top.next \in Nat /\ Len(Ops(Top.fn)) \in Nat
      /\ DOMAIN Ops(Top.fn) = 1 .. Len(Ops(Top.fn))
  BY TopFacts
<1> DEFINE Followed(F) == \A n \in DOMAIN Ops(F.fn) : n < F.next => IsCleanOp(F.fn, n)
\* What to show in each traversal
<1>3. ASSUME stage' = "dummy", ~dummy_sampler', \A k \in 1 .. Len(stack') : Followed(stack'[k])
      PROVE DummyInv'
  BY <1>1, <1>3 DEF DummyInv
<1>4. ASSUME stage' # "dummy",
             ~dummy_sampler' => IsClean(Main) /\ \A k \in 1 .. Len(stack') : IsClean(stack'[k].fn)
      PROVE DummyInv'
  BY <1>1, <1>4 DEF DummyInv
<1>5. ASSUME NEW s, Start(s), s # "dummy", ~dummy_sampler' => IsClean(Main)
      PROVE DummyInv'
  <2>1. Len(stack') = 1 /\ stack'[1] = Frame(Main, Empty, Empty) /\ stage' = s
    BY <1>5, StartFacts
  <2>2. \A k \in 1 .. Len(stack') : k = 1
    BY <2>1
  <2>3. stack'[1].fn = Main
    BY <2>1 DEF Frame
  <2> QED
    BY <1>4, <1>5, <2>1, <2>2, <2>3
\* The first traversal
<1>6. ASSUME stage = "dummy"
      PROVE ~dummy_sampler /\ \A k \in 1 .. Len(stack) : Followed(stack[k])
  BY <1>6 DEF DummyInv
<1> HIDE DEF Followed
<1>7. ASSUME NEW F, NEW H, Followed(F), H.fn = F.fn, H.next = F.next + 1, IsCleanOp(F.fn, F.next),
             F.fn \in Functions, F.next \in Nat
      PROVE Followed(H)
  <2>1. DOMAIN Ops(F.fn) \subseteq Nat
    BY <1>7, ShaderFacts DEF TableInv
  <2>2. \A n \in Nat : n < F.next + 1 => n < F.next \/ n = F.next
    BY <1>7
  <2> QED
    BY <1>7, <2>1, <2>2 DEF Followed
<1>8. CASE FindDummy
  <2>1. stage = "dummy" /\ At({"sample", "fetch"}) /\ dummy_sampler' = (Op.op = "fetch")
        /\ (IF Op.op = "fetch" THEN Start("combine") ELSE Advance /\ UNCHANGED stage)
    BY <1>8 DEF FindDummy
  <2>2. CASE Op.op = "fetch"
    BY <1>5, <2>1, <2>2
  <2>3. CASE Op.op # "fetch"
    <3>1. Advance /\ stage' = "dummy" /\ ~dummy_sampler'
      BY <2>1, <2>3
    <3>2. /\ Len(stack') = Len(stack)
          /\ \A k \in 1 .. Len(stack) : k # Len(stack) => stack'[k] = stack[k]
          /\ stack'[Len(stack)].fn = Top.fn /\ stack'[Len(stack)].next = Top.next + 1
      BY <1>2, <3>1, AdvanceFacts
    <3>3. IsCleanOp(Top.fn, Top.next)
      BY <2>1, <2>3 DEF At, Op, IsCleanOp
    <3>4. Followed(stack'[Len(stack)])
      BY <1>2, <1>6, <1>7, <2>1, <3>2, <3>3
    <3>5. \A k \in 1 .. Len(stack') : Followed(stack'[k])
      BY <1>6, <2>1, <3>2, <3>4
    <3> QED
      BY <1>3, <3>1, <3>5
  <2> QED
    BY <2>2, <2>3
<1>9. ASSUME NEW r, NEW c, stage' = stage, dummy_sampler' = dummy_sampler,
             At({"call"}), Push(Frame(Op.callee, r, c))
      PROVE DummyInv'
  <2> PICK H : H = Frame(Op.callee, r, c)
    OBVIOUS
  <2>1. Op.callee \in Functions /\ Op.op = "call" /\ Op = Ops(Top.fn)[Top.next]
        /\ Top.next \in DOMAIN Ops(Top.fn)
    <3>1. Top.next \in DOMAIN Ops(Top.fn) /\ Op.op = "call"
      BY <1>9, TopFacts DEF At
    <3> QED
      BY <1>2, <3>1, InstructionFacts DEF Op, TableInv
  <2>2. /\ Len(stack') = Len(stack) + 1
        /\ \A k \in 1 .. Len(stack) : stack'[k] = stack[k]
        /\ stack'[Len(stack')] = H
    BY <1>9, <2>1, PushFacts
  <2>3. H.fn = Op.callee /\ H.next = 1
    BY DEF Frame
  <2>4. \A k \in 1 .. Len(stack') : k \in 1 .. Len(stack) \/ k = Len(stack')
    BY <1>2, <2>2
  <2>5. CASE stage = "dummy"
    <3>1. Followed(H)
      <4>1. DOMAIN Ops(H.fn) \subseteq Nat \ {0}
        BY <2>1, <2>3, ShaderFacts DEF TableInv
      <4>2. \A n \in Nat \ {0} : ~(n < 1)
        OBVIOUS
      <4> QED
        BY <2>3, <4>1, <4>2 DEF Followed
    <3> QED
      BY <1>3, <1>6, <1>9, <2>2, <2>4, <2>5, <3>1
  <2>6. CASE stage # "dummy"
    <3>1. ~dummy_sampler => IsClean(Main) /\ \A k \in 1 .. Len(stack) : IsClean(stack[k].fn)
      BY <2>6 DEF DummyInv
    <3>2. ~dummy_sampler => IsClean(H.fn)
      <4>1. ~dummy_sampler => IsClean(Top.fn)
        BY <1>2, <3>1
      <4> QED
        BY <2>1, <2>3, <4>1, CleanInstructions DEF IsCleanOp
    <3> QED
      BY <1>4, <1>9, <2>2, <2>4, <2>6, <3>1, <3>2
  <2> QED
    BY <2>5, <2>6
<1>10. ASSUME stage' = stage, dummy_sampler' = dummy_sampler, stage # "dummy",
              \A k \in 1 .. Len(stack') : k \in 1 .. Len(stack) /\ stack'[k].fn = stack[k].fn
       PROVE DummyInv'
  BY <1>4, <1>10 DEF DummyInv
<1>11. ASSUME Advance, stage' = stage, dummy_sampler' = dummy_sampler, stage # "dummy"
       PROVE DummyInv'
  BY <1>2, <1>10, <1>11, AdvanceFacts
<1>12. ASSUME Return, Len(stack) > 1, AtEnd, stage' = stage, dummy_sampler' = dummy_sampler
       PROVE DummyInv'
  <2>1. /\ Len(stack') = Len(stack) - 1
        /\ \A k \in 1 .. Len(stack') : k # Len(stack') => stack'[k] = stack[k]
        /\ \A k \in 1 .. Len(stack') : stack'[k].fn = stack[k].fn
        /\ stack'[Len(stack')].next = Caller.next + 1
    BY <1>12, ReturnFacts
  <2>2. \A k \in 1 .. Len(stack') : k \in 1 .. Len(stack)
    BY <1>2, <2>1
  <2>3. CASE stage # "dummy"
    BY <1>10, <1>12, <2>1, <2>2, <2>3
  <2>4. CASE stage = "dummy"
    <3>1. IsClean(Top.fn)
      <4>1. \A n \in DOMAIN Ops(Top.fn) : n < Top.next
        BY <1>2, <1>12, BeyondEnd DEF AtEnd
      <4>2. Followed(Top)
        BY <1>2, <1>6, <2>4
      <4> QED
        BY <1>2, <4>1, <4>2, CleanFunctions DEF Followed
    <3>2. /\ Caller = stack[Len(stack) - 1] /\ Len(stack) - 1 \in 1 .. Len(stack)
          /\ Caller.fn \in Functions /\ Caller.next \in DOMAIN Ops(Caller.fn)
          /\ Ops(Caller.fn)[Caller.next].op = "call"
          /\ Ops(Caller.fn)[Caller.next].callee = Top.fn
      BY <1>12, CallerFacts
    <3>3. Caller.next \in Nat
      BY <3>2, FrameFacts
    <3>4. IsCleanOp(Caller.fn, Caller.next)
      BY <3>1, <3>2 DEF IsCleanOp
    <3>5. stack'[Len(stack')].fn = Caller.fn /\ Len(stack') \in 1 .. Len(stack')
      <4>1. Len(stack') \in Nat \ {0}
        BY <1>2, <1>12, <2>1
      <4>2. Len(stack') \in 1 .. Len(stack')
        BY <4>1
      <4> QED
        BY <2>1, <3>2, <4>2
    <3>6. Followed(stack'[Len(stack')])
      BY <1>6, <1>7, <2>1, <2>4, <3>2, <3>3, <3>4, <3>5
    <3> QED
      BY <1>3, <1>6, <1>12, <2>1, <2>2, <2>4, <3>6
  <2> QED
    BY <2>3, <2>4
<1>13. CASE NextStage
  <2>2. dummy_sampler' = dummy_sampler /\ Len(stack) = 1 /\ AtEnd
    BY <1>13 DEF NextStage
  <2>3. ASSUME ~dummy_sampler PROVE IsClean(Main)
    <3>1. CASE stage # "dummy"
      BY <2>3, <3>1 DEF DummyInv
    <3>2. CASE stage = "dummy"
      <4>1. \A n \in DOMAIN Ops(Top.fn) : n < Top.next
        BY <1>2, <2>2, BeyondEnd DEF AtEnd
      <4>2. Followed(Top)
        BY <1>2, <1>6, <3>2
      <4>3. Top.fn = Main
        BY <1>2, <2>2 DEF StackInv
      <4> QED
        BY <1>2, <4>1, <4>2, <4>3, CleanFunctions DEF Followed
    <3> QED
      BY <3>1, <3>2
  <2>4. \A s : Start(s) /\ s # "dummy" => DummyInv'
    BY <1>5, <2>2, <2>3
  <2> QED
    BY <1>13, <2>4, NextStageFacts
<1>14. ASSUME UNCHANGED <<stack, dummy_sampler>>, stage' # "dummy", stage # "dummy"
       PROVE DummyInv'
  BY <1>4, <1>14 DEF DummyInv
<1>15. CASE Combine
  BY <1>11, <1>14, <1>15 DEF Combine
<1>16. CASE CombineCall
  BY <1>9, <1>16 DEF CombineCall
<1>17. CASE CombineReturn
  BY <1>12, <1>17 DEF CombineReturn
<1>18. CASE FindDref \/ MarkComparisons
  BY <1>11, <1>18 DEF FindDref, MarkComparisons
<1>19. CASE UsageCall \/ Call
  BY <1>9, <1>19 DEF UsageCall, Call
<1>20. CASE Sample
  BY <1>11, <1>14, <1>20 DEF Sample
<1>21. CASE RunCall
  BY <1>9, <1>14, <1>21 DEF RunCall
<1>22. CASE FunctionReturn
  BY <1>12, <1>22 DEF FunctionReturn
<1> QED
  BY <1>8, <1>13, <1>15, <1>16, <1>17, <1>18, <1>19, <1>20, <1>21, <1>22 DEF Next

LEMMA NeverThrowsStep ==
  ASSUME TableInv, StackIsASequence, StackInv, KeysInv, DoneInv, RemapInv, MainInv, RunInv,
         DummyInv, NeverThrows, Next
  PROVE NeverThrows'
<1>1. ASSUME stage # "dummy", At({"sample", "fetch"}), Op.op = "fetch" PROVE dummy_sampler
  <2>1. /\ Len(stack) \in 1 .. Len(stack) /\ Top = stack[Len(stack)]
        /\ Top.next \in DOMAIN Ops(Top.fn) /\ Op = Ops(Top.fn)[Top.next]
    BY <1>1, TopFacts DEF At, Op
  <2>2. ~dummy_sampler => IsClean(Top.fn)
    BY <1>1, <2>1 DEF DummyInv
  <2> QED
    BY <1>1, <2>1, <2>2, CleanInstructions DEF IsCleanOp
<1>2. CASE Combine
  BY <1>1, <1>2 DEF Combine, NeverThrows
<1>3. CASE Sample
  <2>1. stage = "run" /\ At({"sample", "fetch"})
    BY <1>3 DEF Sample
  <2>2. IsMapped(Op.image, SamplerOf(Op)) /\ (Op.op = "fetch" => dummy_sampler)
    BY <1>1, <2>1, SampleFacts
  <2> QED
    BY <1>3, <2>2 DEF Sample, NeverThrows
<1>4. CASE RunCall
  <2>1. stage = "run" /\ At({"call"})
    BY <1>4 DEF RunCall
  <2>2. \A c \in combined_parameters[Op.callee] : IsMapped(ImageOf(c, Op.args), CombinedSamplerOf(c, Op.args))
    BY <2>1, CallFacts
  <2> QED
    BY <1>4, <2>2 DEF RunCall, NeverThrows
<1>5. CASE FindDummy \/ CombineCall \/ CombineReturn \/ FindDref \/ MarkComparisons
             \/ UsageCall \/ Call \/ FunctionReturn
  BY <1>5 DEF FindDummy, CombineCall, CombineReturn, FindDref, MarkComparisons, UsageCall,
         Call, FunctionReturn, Start, NeverThrows
<1>6. CASE NextStage
  BY <1>6, NextStageFacts DEF Start, NeverThrows
<1> QED
  BY <1>2, <1>3, <1>4, <1>5, <1>6 DEF Next

-----------------------------------------------------------------------------
LEMMA InitIInv == Init => IInv
<1> SUFFICES ASSUME Init PROVE IInv
  OBVIOUS
<1> DEFINE new == Frame(Main, Empty, Empty)
           FrameSet == [fn : Functions, next : Nat \ {0}, remap : {Empty}, combined : {Empty}]
<1>1. new \in FrameSet /\ new.fn = Main /\ new.next = 1
  BY MainAssumption DEF Frame
<1>2. stack = <<new>> /\ shader \in Shaders /\ stage = "dummy" /\ dummy_sampler = FALSE
      /\ combined_parameters = [f \in Functions |-> {}]
      /\ do_combined_parameters = [f \in Functions |-> TRUE] /\ sampled = {}
  BY DEF Init
<1> HIDE DEF new, FrameSet
<1>3. stack \in Seq(FrameSet) /\ Len(stack) = 1 /\ stack[1] = new
  BY <1>1, <1>2
<1>4. StackIsASequence
  BY <1>3 DEF StackIsASequence, FrameSet
<1>5. TableInv
  BY <1>2 DEF TableInv, StageSet
<1>6. \A k \in 1 .. Len(stack) : k = 1
  BY <1>3
<1>7. Len(Ops(Main)) \in Nat /\ DOMAIN Ops(Main) \subseteq Nat \ {0}
  BY <1>2, ShaderFacts, MainAssumption
<1>8. StackInv
  <2>1. 1 <= Len(Ops(Main)) + 1
    BY <1>7
  <2>2. \A k \in 1 .. Len(stack) : ~(k < Len(stack)) /\ ~(k > 1)
    BY <1>3
  <2> QED
    BY <1>1, <1>3, <1>6, <2>1, <2>2 DEF StackInv
<1>9. KeysInv
  BY <1>2, MainAssumption DEF KeysInv
<1>10. DoneInv
  BY <1>2 DEF DoneInv
<1>11. RemapInv /\ CombineInv /\ MainInv /\ RunInv
  BY <1>2 DEF RemapInv, CombineInv, MainInv, RunInv
<1>12. DummyInv
  <2>1. \A n \in Nat \ {0} : ~(n < 1)
    OBVIOUS
  <2> QED
    BY <1>1, <1>2, <1>3, <1>6, <1>7, <2>1 DEF DummyInv
<1>13. SamplesTheRightPair /\ NeverThrows
  BY <1>2 DEF SamplesTheRightPair, NeverThrows
<1> QED
  BY <1>4, <1>5, <1>8, <1>9, <1>10, <1>11, <1>12, <1>13 DEF IInv

LEMMA StepIInv == IInv /\ [Next]_vars => IInv'
<1> SUFFICES ASSUME IInv, [Next]_vars PROVE IInv'
  OBVIOUS
<1> USE DEF IInv
<1>1. CASE Next
  <2>1. TableInv' /\ StackIsASequence' /\ StackInv'
    BY <1>1, TableAndStackStep
  <2>2. KeysInv'
    BY <1>1, KeysStep
  <2>3. RemapInv'
    BY <1>1, RemapStep
  <2>4. CombineInv'
    BY <1>1, CombineStep
  <2>5. DoneInv'
    BY <1>1, DoneStep
  <2>6. MainInv'
    BY <1>1, MainStep
  <2>7. RunInv'
    BY <1>1, RunStep
  <2>8. SamplesTheRightPair'
    BY <1>1, RightPairStep
  <2>9. DummyInv'
    BY <1>1, DummyStep
  <2>10. NeverThrows'
    BY <1>1, NeverThrowsStep
  <2> QED
    BY <2>1, <2>2, <2>3, <2>4, <2>5, <2>6, <2>7, <2>8, <2>9, <2>10
<1>2. CASE UNCHANGED vars
  <2>1. /\ shader' = shader /\ stage' = stage /\ stack' = stack
        /\ dummy_sampler' = dummy_sampler /\ combined_parameters' = combined_parameters
        /\ do_combined_parameters' = do_combined_parameters
        /\ combined_image_samplers' = combined_image_samplers /\ sampled' = sampled
    BY <1>2 DEF vars, combining, execution
  <2> USE <2>1
  <2>2. TableInv' /\ StackIsASequence' /\ SamplesTheRightPair' /\ NeverThrows'
    BY DEF TableInv, StackIsASequence, SamplesTheRightPair, NeverThrows
  <2>3. /\ \A f : Ops(f)' = Ops(f) /\ Params(f)' = Params(f)
        /\ \A f, id : ParamIndex(f, id)' = ParamIndex(f, id)
    BY DEF Ops, Params, ParamIndex
  <2>4. \A k : CallOf(k)' = CallOf(k)
    BY <2>3 DEF CallOf
  <2>5. StackInv'
    BY <2>3, <2>4 DEF StackInv
  <2>6. /\ \A f : Visible(f)' = Visible(f)
        /\ \A f, i, s : IsLocal(f, i, s)' = IsLocal(f, i, s)
        /\ \A f, i, s : CombinedParameter(f, i, s)' = CombinedParameter(f, i, s)
        /\ \A f, n : Needs(f, n)' = Needs(f, n)
        /\ \A F, id : Value(F, id)' = Value(F, id)
    BY <2>3 DEF Visible, IsLocal, CombinedParameter, Needs, Value
  <2>7. KeysInv'
    BY <2>3, <2>6 DEF KeysInv
  <2>8. \A f, n : Completed(f, n)' = Completed(f, n)
    <3>1. \A f, i, s : Available(f, i, s)' = Available(f, i, s)
      BY <2>6 DEF Available
    <3> QED
      BY <2>3, <2>6, <3>1 DEF Completed
  <2>9. DoneInv' /\ MainInv'
    BY <2>3, <2>8 DEF DoneInv, MainInv
  <2>10. RemapInv'
    BY <2>3, <2>4, <2>6 DEF RemapInv
  <2>11. CombineInv'
    <3>1. \A F, n : Listed(F, n)' = Listed(F, n)
      BY <2>6 DEF Listed
    <3> QED
      BY <2>3, <2>8, <3>1 DEF CombineInv
  <2>12. RunInv'
    <3>1. \A F : CombinedIsRight(F)' = CombinedIsRight(F)
      BY <2>6 DEF CombinedIsRight
    <3> QED
      BY <3>1 DEF RunInv
  <2>13. DummyInv'
    <3>1. \A S : IsClosed(S)' = IsClosed(S)
      BY <2>3 DEF IsClosed
    <3>2. \A f : IsClean(f)' = IsClean(f)
      BY <3>1 DEF IsClean
    <3>3. \A f, n : IsCleanOp(f, n)' = IsCleanOp(f, n)
      BY <2>3, <3>2 DEF IsCleanOp
    <3> QED
      BY <2>3, <3>2, <3>3 DEF DummyInv
  <2> QED
    BY <2>2, <2>5, <2>7, <2>9, <2>10, <2>11, <2>12, <2>13
<1> QED
  BY <1>1, <1>2

(***************************************************************************)
(* The inductive invariant: combined parameters are needed somewhere       *)
(* (KeysInv), a function which was processed has all it needs (DoneInv),   *)
(* and what was followed is listed for the globals of the call             *)
(* (CombineInv).                                                           *)
(***************************************************************************)
THEOREM InductiveInvariant == Spec => []IInv
<1>1. Init => IInv
  BY InitIInv
<1>2. IInv /\ [Next]_vars => IInv'
  BY StepIInv
<1> QED
  BY <1>1, <1>2, PTL DEF Spec

(***************************************************************************)
(* For every shader, whatever its calls, the mapping for a combined        *)
(* sampler is found wherever the text needs it, and the dummy sampler      *)
(* where an image is fetched.                                              *)
(***************************************************************************)
THEOREM LookupsSucceed == Spec => []NeverThrows
<1>1. IInv => NeverThrows
  BY DEF IInv
<1> QED
  BY <1>1, InductiveInvariant, PTL

(***************************************************************************)
(* For every shader, on every path of calls, the combined sampler which    *)
(* the text samples is the pair of image and sampler which SPIR-V samples. *)
(***************************************************************************)
THEOREM PairsAreRight == Spec => []SamplesTheRightPair
<1>1. IInv => SamplesTheRightPair
  BY DEF IInv
<1> QED
  BY <1>1, InductiveInvariant, PTL

-----------------------------------------------------------------------------
(***************************************************************************)
(* What the traversals find.  Both theorems are stated of the contexts in  *)
(* which functions are executed: what the tables hold comes from some      *)
(* context, and what happens in a context is in the tables, as every       *)
(* traversal goes through all of them.                                     *)
(***************************************************************************)

(* A function and the globals which were passed for its parameters.        *)

Context(f, r) == [fn |-> f, remap |-> r]
Contexts == UNION {{Context(f, r) : r \in [Params(f) -> Globals]} : f \in Functions}
MainContext == Context(Main, Empty)

\* What a call leads to
Entered(x, o) ==
    Context(o.callee, [p \in Params(o.callee) |-> Value(x, o.args[ParamIndex(o.callee, p)])])

OpAt(x, n) == Ops(x.fn)[n]

IsCallClosed(S) ==
    \A x \in S : \A n \in DOMAIN Ops(x.fn) : OpAt(x, n).op = "call" => Entered(x, OpAt(x, n)) \in S

\* The least set of contexts with the entry point which calls do not leave.
Executed ==
    {x \in Contexts : \A S \in SUBSET Contexts : MainContext \in S /\ IsCallClosed(S) => x \in S}

IsComparison(o) == o.op = "sample" /\ o.dref

\* What is sampled
PairAt(x, n) == <<Value(x, OpAt(x, n).image), Value(x, SamplerOf(OpAt(x, n)))>>

IsExecutedPair(c) ==
    \E x \in Executed : \E n \in DOMAIN Ops(x.fn) : OpAt(x, n).op # "call" /\ c = PairAt(x, n)

\* The globals which are used for a comparison
Compared ==
    {g \in Globals : \E x \in Executed : \E n \in DOMAIN Ops(x.fn) :
        IsComparison(OpAt(x, n)) /\ (g = PairAt(x, n)[1] \/ g = PairAt(x, n)[2])}

\* They, and the parameters they are passed for
ComparedIds ==
    Compared \cup {p \in Parameters : \E x \in Executed : p \in Params(x.fn) /\ Value(x, p) \in Compared}

LEMMA SameShader ==
  ASSUME shader' = shader
  PROVE /\ \A f : Ops(f)' = Ops(f) /\ Params(f)' = Params(f)
        /\ \A f, id : ParamIndex(f, id)' = ParamIndex(f, id)
        /\ Contexts' = Contexts /\ Executed' = Executed /\ Compared' = Compared
        /\ ComparedIds' = ComparedIds
        /\ \A x, o : Entered(x, o)' = Entered(x, o)
        /\ \A x, n : OpAt(x, n)' = OpAt(x, n) /\ PairAt(x, n)' = PairAt(x, n)
        /\ \A c : IsExecutedPair(c)' = IsExecutedPair(c)
<1>1. /\ \A f : Ops(f)' = Ops(f) /\ Params(f)' = Params(f)
      /\ \A f, id : ParamIndex(f, id)' = ParamIndex(f, id)
  BY DEF Ops, Params, ParamIndex
<1>2. Contexts' = Contexts
  BY <1>1 DEF Contexts
<1>3. \A x, o : Entered(x, o)' = Entered(x, o)
  BY <1>1 DEF Entered, Value, Context
<1>4. \A x, n : OpAt(x, n)' = OpAt(x, n) /\ PairAt(x, n)' = PairAt(x, n)
  BY <1>1 DEF OpAt, PairAt, Value, SamplerOf
<1>5. \A S : IsCallClosed(S)' = IsCallClosed(S)
  BY <1>1, <1>3, <1>4 DEF IsCallClosed
<1>6. Executed' = Executed
  BY <1>2, <1>5 DEF Executed, MainContext
<1>7. Compared' = Compared
  BY <1>1, <1>4, <1>6 DEF Compared
<1>8. ComparedIds' = ComparedIds
  BY <1>1, <1>6, <1>7 DEF ComparedIds, Value
<1>9. \A c : IsExecutedPair(c)' = IsExecutedPair(c)
  BY <1>1, <1>4, <1>6 DEF IsExecutedPair
<1> QED
  BY <1>1, <1>2, <1>3, <1>4, <1>6, <1>7, <1>8, <1>9

\* The operands of an instruction, without the dummy sampler.
LEMMA OperandFacts ==
  ASSUME shader \in Shaders, NEW f \in Functions, NEW n \in DOMAIN Ops(f), Ops(f)[n].op # "call"
  PROVE /\ Ops(f)[n].image \in Globals \cup Params(f)
        /\ SamplerOf(Ops(f)[n]) \in Globals \cup Params(f) \cup {Dummy}
        /\ Ops(f)[n].op = "sample" =>
              /\ Ops(f)[n].sampler \in Globals \cup Params(f)
              /\ SamplerOf(Ops(f)[n]) = Ops(f)[n].sampler
              /\ Ops(f)[n].dref \in BOOLEAN
<1> DEFINE o == Ops(f)[n]
<1>1. IsShader(shader)
  BY ShaderAssumption
<1>2. o \in Instruction
  <2>1. shader[f].ops \in Seq(Instruction)
    BY <1>1 DEF IsShader, Body
  <2> HIDE DEF o
  <2>2. o = shader[f].ops[n] /\ n \in DOMAIN shader[f].ops
    BY DEF o, Ops
  <2> QED
    BY <2>1, <2>2
<1>3. o.op \in {"sample", "fetch"} /\ (o.op = "sample" => o.dref \in BOOLEAN)
  BY <1>2 DEF Instruction
<1>4. /\ o.image \in Globals \cup Params(f)
      /\ o.op = "sample" => o.sampler \in Globals \cup Params(f)
  BY <1>1, <1>3 DEF IsShader, Ops, Params
<1> QED
  BY <1>3, <1>4 DEF SamplerOf

LEMMA ContextFacts ==
  ASSUME shader \in Shaders, NEW x \in Contexts
  PROVE /\ x.fn \in Functions /\ x.remap \in [Params(x.fn) -> Globals]
        /\ x = Context(x.fn, x.remap)
        /\ \A id \in Globals \cup Params(x.fn) : Value(x, id) \in Globals
        /\ \A id \in Globals \cup {Dummy} : Value(x, id) = id
<1>1. PICK f \in Functions : \E r \in [Params(f) -> Globals] : x = Context(f, r)
  BY DEF Contexts
<1>2. PICK r \in [Params(f) -> Globals] : x = Context(f, r)
  BY <1>1
<1>3. x.fn = f /\ x.remap = r
  BY <1>2 DEF Context
<1>4. \A id \in Globals \cup {Dummy} : id \notin Params(f)
  BY IdAssumption, ShaderFacts
<1> QED
  BY <1>2, <1>3, <1>4 DEF Value

LEMMA EnteredFacts ==
  ASSUME shader \in Shaders, NEW x \in Contexts, NEW n \in DOMAIN Ops(x.fn), OpAt(x, n).op = "call"
  PROVE /\ Entered(x, OpAt(x, n)) \in Contexts
        /\ Entered(x, OpAt(x, n)).fn = OpAt(x, n).callee
        /\ OpAt(x, n).callee \in Functions
        /\ \A p \in Params(OpAt(x, n).callee) :
              /\ OpAt(x, n).args[ParamIndex(OpAt(x, n).callee, p)] \in Globals \cup Params(x.fn)
              /\ Value(Entered(x, OpAt(x, n)), p)
                    = Value(x, OpAt(x, n).args[ParamIndex(OpAt(x, n).callee, p)])
<1> DEFINE g == OpAt(x, n).callee
           r == [p \in Params(g) |-> Value(x, OpAt(x, n).args[ParamIndex(g, p)])]
<1>1. x.fn \in Functions
  BY ContextFacts
<1>2. g \in Functions /\ \A p \in Params(g) : OpAt(x, n).args[ParamIndex(g, p)] \in Globals \cup Params(x.fn)
  BY <1>1, InstructionFacts DEF OpAt
<1>3. r \in [Params(g) -> Globals]
  BY <1>2, ContextFacts
<1>4. Entered(x, OpAt(x, n)) = Context(g, r)
  BY DEF Entered
<1>5. Context(g, r) \in Contexts
  <2> HIDE DEF g, r
  <2>1. Context(g, r) \in {Context(g, q) : q \in [Params(g) -> Globals]}
    BY <1>3
  <2> QED
    BY <1>2, <2>1 DEF Contexts
<1>6. Context(g, r).fn = g /\ Context(g, r).remap = r
  BY DEF Context
<1> QED
  BY <1>2, <1>4, <1>5, <1>6 DEF Value

\* The set of executed contexts is the least of those it is defined by.
LEMMA ExecutedFacts ==
  ASSUME shader \in Shaders
  PROVE /\ Executed \subseteq Contexts /\ MainContext \in Executed /\ MainContext.fn = Main
        /\ IsCallClosed(Executed)
        /\ \A S \in SUBSET Contexts : MainContext \in S /\ IsCallClosed(S) => Executed \subseteq S
<1>1. MainContext \in Contexts /\ MainContext.fn = Main
  <2>1. Params(Main) = {}
    BY ShaderFacts
  <2>2. Empty \in [Params(Main) -> Globals]
    BY <2>1 DEF Empty
  <2> QED
    BY <2>2, MainAssumption DEF Contexts, MainContext, Context
<1>2. ASSUME NEW x \in Executed, NEW n \in DOMAIN Ops(x.fn), OpAt(x, n).op = "call"
      PROVE Entered(x, OpAt(x, n)) \in Executed
  <2>1. Entered(x, OpAt(x, n)) \in Contexts
    BY <1>2, EnteredFacts DEF Executed
  <2>2. ASSUME NEW S \in SUBSET Contexts, MainContext \in S, IsCallClosed(S)
        PROVE Entered(x, OpAt(x, n)) \in S
    <3>1. x \in S
      BY <2>2 DEF Executed
    <3> QED
      BY <1>2, <2>2, <3>1 DEF IsCallClosed
  <2> QED
    BY <2>1, <2>2 DEF Executed
<1>3. IsCallClosed(Executed)
  BY <1>2 DEF IsCallClosed
<1> QED
  BY <1>1, <1>3 DEF Executed

\* Every executed context but the first was entered from one.
LEMMA ExecutedCalls ==
  ASSUME shader \in Shaders, NEW x \in Executed, x # MainContext
  PROVE \E y \in Executed : \E n \in DOMAIN Ops(y.fn) :
           OpAt(y, n).op = "call" /\ x = Entered(y, OpAt(y, n))
<1> DEFINE IsEntered(z) == \E y \in Executed : \E n \in DOMAIN Ops(y.fn) :
                              OpAt(y, n).op = "call" /\ z = Entered(y, OpAt(y, n))
           S == {z \in Executed : z = MainContext \/ IsEntered(z)}
<1>1. S \in SUBSET Contexts /\ MainContext \in S
  BY ExecutedFacts
<1>2. ASSUME NEW z \in S, NEW n \in DOMAIN Ops(z.fn), OpAt(z, n).op = "call"
      PROVE Entered(z, OpAt(z, n)) \in S
  <2>1. Entered(z, OpAt(z, n)) \in Executed
    BY <1>2, ExecutedFacts DEF IsCallClosed
  <2>2. IsEntered(Entered(z, OpAt(z, n)))
    BY <1>2
  <2> QED
    BY <2>1, <2>2
<1> HIDE DEF IsEntered
<1>3. IsCallClosed(S)
  <2> HIDE DEF S
  <2> QED
    BY <1>2 DEF IsCallClosed
<1>4. x \in S
  <2> HIDE DEF S
  <2> QED
    BY <1>1, <1>3, ExecutedFacts
<1> QED
  BY <1>4 DEF IsEntered

-----------------------------------------------------------------------------
(* The contexts of the calls on the stack. *)

IsPath(rs) ==
    /\ rs \in [1 .. Len(stack) -> Executed]
    /\ rs[1] = MainContext
    /\ \A k \in 1 .. Len(stack) : rs[k].fn = stack[k].fn
    /\ \A k \in 1 .. Len(stack) : k < Len(stack) => rs[k + 1] = Entered(rs[k], CallOf(k))

\* The call in frame k leads to an executed context of the function in the next frame.
LEMMA CallOnStack ==
  ASSUME TableInv, StackIsASequence, StackInv, NEW k \in 1 .. Len(stack), k < Len(stack),
         NEW x \in Executed, x.fn = stack[k].fn
  PROVE /\ k + 1 \in 1 .. Len(stack)
        /\ stack[k].next \in DOMAIN Ops(x.fn) /\ CallOf(k) = OpAt(x, stack[k].next)
        /\ OpAt(x, stack[k].next).op = "call"
        /\ OpAt(x, stack[k].next).callee = stack[k + 1].fn
        /\ Entered(x, CallOf(k)) \in Executed
        /\ Entered(x, CallOf(k)).fn = stack[k + 1].fn
<1>1. Len(stack) \in Nat /\ k + 1 \in 1 .. Len(stack)
  BY FrameFacts
<1>2. /\ stack[k].next <= Len(Ops(stack[k].fn))
      /\ CallOf(k).op = "call" /\ CallOf(k).callee = stack[k + 1].fn
  BY DEF StackInv
<1>3. stack[k].fn \in Functions /\ stack[k].next \in Nat \ {0}
  BY FrameFacts
<1>4. stack[k].next \in DOMAIN Ops(x.fn) /\ CallOf(k) = OpAt(x, stack[k].next)
  BY <1>2, <1>3, ShaderFacts DEF TableInv, CallOf, OpAt
<1>5. /\ Entered(x, CallOf(k)) \in Executed
      /\ Entered(x, CallOf(k)).fn = stack[k + 1].fn
  BY <1>2, <1>4, ExecutedFacts, EnteredFacts DEF IsCallClosed, TableInv
<1> QED
  BY <1>1, <1>2, <1>4, <1>5

LEMMA PathExists ==
  ASSUME TableInv, StackIsASequence, StackInv
  PROVE \E rs : IsPath(rs)
<1> DEFINE L == Len(stack)
           Fits(rs, n) ==
             /\ rs[1] = MainContext
             /\ \A k \in 1 .. n : rs[k].fn = stack[k].fn
             /\ \A k \in 1 .. n : k < n => rs[k + 1] = Entered(rs[k], CallOf(k))
           S == {n \in Nat : n + 1 <= L => \E rs \in [1 .. n + 1 -> Executed] : Fits(rs, n + 1)}
<1>0. L \in Nat \ {0}
  BY TopFacts
<1>1. 0 \in S
  <2> DEFINE rs == [k \in 1 .. 0 + 1 |-> MainContext]
  <2>1. rs \in [1 .. 0 + 1 -> Executed]
    BY ExecutedFacts DEF TableInv
  <2>2. Fits(rs, 0 + 1)
    BY ExecutedFacts DEF StackInv, TableInv
  <2> QED
    BY <2>1, <2>2
<1>2. ASSUME NEW n \in Nat, n \in S PROVE n + 1 \in S
  <2> SUFFICES ASSUME n + 1 + 1 <= L
               PROVE \E rs \in [1 .. n + 1 + 1 -> Executed] : Fits(rs, n + 1 + 1)
    OBVIOUS
  <2>1. PICK rs \in [1 .. n + 1 -> Executed] : Fits(rs, n + 1)
    BY <1>0, <1>2
  <2> DEFINE y == Entered(rs[n + 1], CallOf(n + 1))
             new == [k \in 1 .. n + 1 + 1 |-> IF k = n + 1 + 1 THEN y ELSE rs[k]]
  <2>2. n + 1 \in 1 .. L /\ n + 1 < L /\ n + 1 \in 1 .. n + 1
    BY <1>0
  <2>3. y \in Executed /\ y.fn = stack[n + 1 + 1].fn
    BY <2>1, <2>2, CallOnStack
  <2> HIDE DEF y
  <2>4. new \in [1 .. n + 1 + 1 -> Executed]
    <3>1. \A k \in 1 .. n + 1 + 1 : k # n + 1 + 1 => k \in 1 .. n + 1
      OBVIOUS
    <3> QED
      BY <2>1, <2>3, <3>1
  <2>5. new[1] = MainContext
    BY <2>1
  <2>6. \A k \in 1 .. n + 1 + 1 : new[k].fn = stack[k].fn
    <3>1. \A k \in 1 .. n + 1 + 1 : k # n + 1 + 1 => k \in 1 .. n + 1
      OBVIOUS
    <3> QED
      BY <2>1, <2>3, <3>1
  <2>7. ASSUME NEW k \in 1 .. n + 1 + 1, k < n + 1 + 1
        PROVE new[k + 1] = Entered(new[k], CallOf(k))
    <3>1. k \in 1 .. n + 1 /\ new[k] = rs[k]
      BY <2>7
    <3>2. CASE k = n + 1
      BY <3>1, <3>2 DEF y
    <3>3. CASE k # n + 1
      <4>1. k < n + 1 /\ k + 1 # n + 1 + 1 /\ k + 1 \in 1 .. n + 1 + 1
        BY <3>1, <3>3
      <4>2. new[k + 1] = rs[k + 1]
        BY <4>1
      <4> QED
        BY <2>1, <3>1, <4>1, <4>2
    <3> QED
      BY <3>2, <3>3
  <2>8. Fits(new, n + 1 + 1)
    BY <2>5, <2>6, <2>7
  <2> HIDE DEF new, Fits
  <2> QED
    BY <2>4, <2>8
<1>3. L - 1 \in S
  <2> HIDE DEF S
  <2> QED
    BY <1>0, <1>1, <1>2, SetInduction
<1>4. L - 1 + 1 = L /\ L - 1 + 1 <= L
  BY <1>0
<1>5. PICK rs \in [1 .. L -> Executed] : Fits(rs, L)
  BY <1>3, <1>4
<1> QED
  BY <1>5 DEF IsPath

\* While combining and running the frames hold these contexts.
LEMMA PathIsRemap ==
  ASSUME TableInv, StackIsASequence, StackInv, RemapInv, stage \in {"combine", "run"},
         NEW rs, IsPath(rs), NEW k \in 1 .. Len(stack)
  PROVE \A id : Value(rs[k], id) = Value(stack[k], id)
<1> DEFINE L == Len(stack)
           Agrees(j) == \A p \in Params(stack[j].fn) : rs[j].remap[p] = stack[j].remap[p]
           S == {n \in Nat : n + 1 <= L => Agrees(n + 1)}
<1>0. L \in Nat \ {0}
  BY TopFacts
<1>1. \A j \in 1 .. L : rs[j] \in Contexts /\ rs[j] \in Executed /\ rs[j].fn = stack[j].fn
  BY ExecutedFacts DEF IsPath, TableInv
<1>2. \A j \in 1 .. L : DOMAIN rs[j].remap = Params(stack[j].fn)
  BY <1>1, ContextFacts DEF TableInv
<1>3. \A j \in 1 .. L : DOMAIN stack[j].remap = Params(stack[j].fn)
  BY DEF RemapInv
<1>4. ASSUME NEW j \in 1 .. L, Agrees(j) PROVE \A id : Value(rs[j], id) = Value(stack[j], id)
  BY <1>2, <1>3, <1>4 DEF Value
<1>5. 0 \in S
  <2>1. Params(Main) = {} /\ stack[1].fn = Main
    BY ShaderFacts DEF TableInv, StackInv
  <2> QED
    BY <2>1
<1>6. ASSUME NEW n \in Nat, n \in S PROVE n + 1 \in S
  <2> SUFFICES ASSUME n + 1 + 1 <= L, NEW p \in Params(stack[n + 1 + 1].fn)
               PROVE rs[n + 1 + 1].remap[p] = stack[n + 1 + 1].remap[p]
    OBVIOUS
  <2> PICK j, m : j = n + 1 /\ m = n + 1 + 1
    OBVIOUS
  <2>1. /\ j \in 1 .. L /\ m \in 1 .. L /\ j < L /\ m = j + 1 /\ m > 1 /\ m - 1 = j
        /\ Agrees(j)
    BY <1>0, <1>6
  <2>2. /\ rs[m] = Entered(rs[j], CallOf(j)) /\ CallOf(j) = OpAt(rs[j], stack[j].next)
        /\ stack[j].next \in DOMAIN Ops(rs[j].fn)
        /\ OpAt(rs[j], stack[j].next).op = "call" /\ CallOf(j).callee = stack[m].fn
    BY <1>1, <2>1, CallOnStack DEF IsPath
  <2>3. Value(rs[m], p) = Value(rs[j], CallOf(j).args[ParamIndex(stack[m].fn, p)])
    BY <1>1, <2>1, <2>2, EnteredFacts DEF TableInv
  <2>4. stack[m].remap[p] = Value(stack[j], CallOf(j).args[ParamIndex(stack[m].fn, p)])
    BY <2>1 DEF RemapInv
  <2>5. Value(rs[m], p) = rs[m].remap[p]
    BY <1>2, <2>1 DEF Value
  <2> HIDE DEF Agrees
  <2> QED
    BY <1>4, <2>1, <2>3, <2>4, <2>5
<1>7. Agrees(k)
  <2>1. k - 1 \in Nat /\ k - 1 + 1 = k /\ k <= L
    BY <1>0
  <2>2. k - 1 \in S
    <3> HIDE DEF S
    <3> QED
      BY <1>5, <1>6, <2>1, SetInduction
  <2> HIDE DEF Agrees
  <2> QED
    BY <2>1, <2>2
<1> QED
  BY <1>4, <1>7

-----------------------------------------------------------------------------
(* What WithHierarchy computes: the least set with the operand which is    *)
(* closed under the dependencies.                                          *)

\* Operand a is passed for parameter x where it is executed.
IsDependency(x, a) ==
    \E y \in Executed : \E n \in DOMAIN Ops(y.fn) :
        /\ OpAt(y, n).op = "call" /\ x \in Params(OpAt(y, n).callee)
        /\ a = OpAt(y, n).args[ParamIndex(OpAt(y, n).callee, x)]

HierarchyInv ==
    /\ dependency_hierarchy \in [Ids -> SUBSET Operands]
    /\ \A x \in Ids : \A a \in dependency_hierarchy[x] : IsDependency(x, a)

Depending(S) == S \cup UNION {dependency_hierarchy[x] : x \in S}

IsDependencyClosed(S) == \A x \in S : dependency_hierarchy[x] \subseteq S

LEMMA HierarchySteps ==
  ASSUME dependency_hierarchy \in [Ids -> SUBSET Operands], NEW id \in Operands
  PROVE  \E reach \in [0 .. Cardinality(Functions) -> SUBSET Operands] :
           /\ reach[0] = {id}
           /\ \A n \in 1 .. Cardinality(Functions) : reach[n] = Depending(reach[n - 1])
           /\ WithHierarchy(id) = reach[Cardinality(Functions)]
<1> DEFINE N == Cardinality(Functions)
           Is(reach) == reach = [n \in 0 .. N |->
                          IF n = 0 THEN {id}
                          ELSE reach[n - 1] \cup UNION {dependency_hierarchy[x] : x \in reach[n - 1]}]
           T == SUBSET Operands
           F == [S \in T |-> Depending(S)]
<1>1. N \in Nat
  BY FunctionsAssumption, FS_CardinalityType
<1>2. Operands \subseteq Ids
  BY DEF Operands, Ids
<1>3. \A S \in T : Depending(S) \in T
  BY <1>2 DEF Depending
<1>4. PICK g \in [0 .. N -> T] : g[0] = {id} /\ \A n \in 1 .. N : g[n] = F[g[n - 1]]
  <2> DEFINE c == {id}
  <2>1. c \in T /\ IsMapOn(F, T)
    BY <1>3 DEF IsMapOn
  <2> HIDE DEF F, N, T, c
  <2>2. \E g : IsIteration(g, F, c, T, N)
    BY <1>1, <2>1, Iterates
  <2> QED
    BY <2>2 DEF c, IsIteration
<1>5. \A n \in 1 .. N : g[n] = Depending(g[n - 1])
  <2> SUFFICES ASSUME NEW n \in 1 .. N PROVE g[n] = Depending(g[n - 1])
    OBVIOUS
  <2>1. n - 1 \in 0 .. N
    BY <1>1
  <2>2. g[n - 1] \in T
    BY <1>4, <2>1
  <2> QED
    BY <1>4, <2>2
<1>6. Is(g)
  <2>1. ASSUME NEW n \in 0 .. N
        PROVE  g[n] = IF n = 0 THEN {id}
                      ELSE g[n - 1] \cup UNION {dependency_hierarchy[x] : x \in g[n - 1]}
    <3>1. CASE n = 0
      BY <3>1, <1>4
    <3>2. CASE n # 0
      <4>1. n \in 1 .. N
        BY <3>2, <1>1
      <4> QED
        BY <4>1, <3>2, <1>5 DEF Depending
    <3> QED
      BY <3>1, <3>2
  <2> QED
    BY <2>1, <1>4
<1> DEFINE r == CHOOSE reach : Is(reach)
<1>7. Is(r)
  <2> HIDE DEF Is
  <2> QED
    BY <1>6
<1>8. WithHierarchy(id) = r[N]
  BY DEF WithHierarchy
<1> HIDE DEF r, Is
<1>9. /\ DOMAIN r = 0 .. N
      /\ \A n \in 0 .. N : r[n] = IF n = 0 THEN {id}
                                  ELSE r[n - 1] \cup UNION {dependency_hierarchy[x] : x \in r[n - 1]}
  BY <1>7 DEF Is
<1>10. r[0] = {id} /\ \A n \in 1 .. N : r[n] = Depending(r[n - 1])
  BY <1>1, <1>9 DEF Depending
<1>11. \A n \in 0 .. N : r[n] \in T
  <2> DEFINE S == {n \in Nat : n <= N => r[n] \in T}
  <2>1. 0 \in S
    BY <1>10
  <2>2. ASSUME NEW n \in Nat, n \in S PROVE n + 1 \in S
    <3> SUFFICES ASSUME n + 1 <= N PROVE r[n + 1] \in T
      OBVIOUS
    <3>1. n + 1 \in 1 .. N /\ n + 1 - 1 = n /\ r[n] \in T
      BY <1>1, <2>2
    <3>2. r[n + 1] = Depending(r[n])
      BY <3>1, <1>10
    <3> QED
      BY <1>3, <3>1, <3>2
  <2> HIDE DEF S
  <2>3. Nat \subseteq S
    BY <2>1, <2>2, SetInduction
  <2> QED
    BY <2>3, <1>1 DEF S
<1>12. r = [n \in 0 .. N |-> r[n]]
  BY <1>7, <1>9 DEF Is
<1>13. r \in [0 .. N -> T]
  BY <1>11, <1>12
<1> QED
  BY <1>8, <1>10, <1>13

LEMMA HierarchyIsLeast ==
  ASSUME dependency_hierarchy \in [Ids -> SUBSET Operands], NEW id \in Operands,
         NEW S, id \in S, \A x \in S \cap Operands : dependency_hierarchy[x] \subseteq S
  PROVE  WithHierarchy(id) \subseteq S \cap Operands
<1> DEFINE N == Cardinality(Functions)
<1>1. N \in Nat
  BY FunctionsAssumption, FS_CardinalityType
<1>2. PICK reach \in [0 .. N -> SUBSET Operands] :
        /\ reach[0] = {id}
        /\ \A n \in 1 .. N : reach[n] = Depending(reach[n - 1])
        /\ WithHierarchy(id) = reach[N]
  BY HierarchySteps
<1> DEFINE T == {n \in Nat : n <= N => reach[n] \subseteq S}
<1>3. 0 \in T
  BY <1>2
<1>4. ASSUME NEW n \in Nat, n \in T PROVE n + 1 \in T
  <2> SUFFICES ASSUME n + 1 <= N PROVE reach[n + 1] \subseteq S
    OBVIOUS
  <2>1. n + 1 \in 1 .. N /\ n + 1 - 1 = n /\ reach[n] \subseteq S /\ n \in 0 .. N
    BY <1>1, <1>4
  <2>2. reach[n + 1] = Depending(reach[n]) /\ reach[n] \in SUBSET Operands
    BY <2>1, <1>2
  <2> QED
    BY <2>1, <2>2 DEF Depending
<1> HIDE DEF T
<1>5. Nat \subseteq T
  BY <1>3, <1>4, SetInduction
<1>6. N \in 0 .. N
  BY <1>1
<1> QED
  BY <1>1, <1>2, <1>5, <1>6 DEF T

\* Dependencies lead from the parameters of a function to what its callers can name.
LEMMA DependencyFacts ==
  ASSUME shader \in Shaders, NEW x, NEW a, IsDependency(x, a)
  PROVE  \E y \in Executed : \E n \in DOMAIN Ops(y.fn) : \E g \in Functions :
           /\ OpAt(y, n).op = "call" /\ g = OpAt(y, n).callee /\ x \in Params(g)
           /\ a = OpAt(y, n).args[ParamIndex(g, x)]
           /\ a \in Globals \cup Params(y.fn)
           /\ y.fn \in Functions /\ Rank[g] < Rank[y.fn]
<1>1. PICK y \in Executed : \E n \in DOMAIN Ops(y.fn) :
         /\ OpAt(y, n).op = "call" /\ x \in Params(OpAt(y, n).callee)
         /\ a = OpAt(y, n).args[ParamIndex(OpAt(y, n).callee, x)]
  BY DEF IsDependency
<1>2. PICK n \in DOMAIN Ops(y.fn) :
         /\ OpAt(y, n).op = "call" /\ x \in Params(OpAt(y, n).callee)
         /\ a = OpAt(y, n).args[ParamIndex(OpAt(y, n).callee, x)]
  BY <1>1
<1>3. y.fn \in Functions
  BY ExecutedFacts, ContextFacts
<1>4. /\ OpAt(y, n).callee \in Functions /\ Rank[OpAt(y, n).callee] < Rank[y.fn]
      /\ a \in Globals \cup Params(y.fn)
  BY <1>2, <1>3, InstructionFacts DEF OpAt
<1> QED
  BY <1>2, <1>3, <1>4

LEMMA OneOwner ==
  ASSUME shader \in Shaders, NEW f \in Functions, NEW g \in Functions,
         NEW p \in Params(f), p \in Params(g)
  PROVE  f = g
<1>1. IsShader(shader)
  BY ShaderAssumption
<1> QED
  BY <1>1 DEF IsShader, Params

\* A chain of dependencies passes each function once, so that the iteration ends.
LEMMA HierarchyIsClosed ==
  ASSUME shader \in Shaders, HierarchyInv, NEW id \in Operands
  PROVE  id \in WithHierarchy(id) /\ IsDependencyClosed(WithHierarchy(id))
<1> DEFINE N == Cardinality(Functions)
           Below(f) == {g \in Functions : Rank[g] <= Rank[f]}
           Level(f) == Cardinality(Below(f))
<1>1. N \in Nat
  BY FunctionsAssumption, FS_CardinalityType
<1>2. PICK reach \in [0 .. N -> SUBSET Operands] :
        /\ reach[0] = {id}
        /\ \A n \in 1 .. N : reach[n] = Depending(reach[n - 1])
        /\ WithHierarchy(id) = reach[N]
  BY HierarchySteps DEF HierarchyInv
<1>3. \A f \in Functions : Rank[f] \in Nat
  BY ShaderFacts
<1>4. ASSUME NEW f \in Functions
      PROVE IsFiniteSet(Below(f)) /\ Level(f) \in Nat /\ Level(f) >= 1 /\ Level(f) <= N
  <2>1. IsFiniteSet(Below(f)) /\ Level(f) <= N
    BY FunctionsAssumption, FS_Subset
  <2>2. Level(f) \in Nat
    BY <2>1, FS_CardinalityType
  <2>3. f \in Below(f)
    BY <1>3
  <2>4. Level(f) # 0
    BY <2>1, <2>3, FS_EmptySet
  <2> QED
    BY <2>1, <2>2, <2>4
<1>5. ASSUME NEW f \in Functions, NEW g \in Functions, Rank[g] < Rank[f]
      PROVE Level(g) + 1 <= Level(f)
  <2>1. f \notin Below(g) /\ Below(g) \cup {f} \subseteq Below(f)
    BY <1>3, <1>5
  <2>2. Cardinality(Below(g) \cup {f}) = Level(g) + 1
    BY <1>4, <2>1, FS_AddElement
  <2>3. Cardinality(Below(g) \cup {f}) <= Level(f)
    BY <1>4, <2>1, FS_Subset
  <2> QED
    BY <2>2, <2>3
<1> HIDE DEF Level
<1>6. \A n \in 1 .. N : n - 1 \in 0 .. N /\ n \in 0 .. N /\ reach[n - 1] \subseteq reach[n]
  BY <1>1, <1>2 DEF Depending
<1>7. \A m \in 0 .. N : reach[m] \subseteq reach[N]
  <2> DEFINE S == {d \in Nat : d <= N => reach[N - d] \subseteq reach[N]}
  <2>1. 0 \in S
    BY <1>1
  <2>2. ASSUME NEW d \in Nat, d \in S PROVE d + 1 \in S
    <3> SUFFICES ASSUME d + 1 <= N PROVE reach[N - (d + 1)] \subseteq reach[N]
      OBVIOUS
    <3>1. N - d \in 1 .. N /\ N - d - 1 = N - (d + 1)
      BY <1>1
    <3>2. reach[N - d] \subseteq reach[N]
      BY <1>1, <2>2
    <3> QED
      BY <1>6, <3>1, <3>2
  <2> HIDE DEF S
  <2>3. Nat \subseteq S
    BY <2>1, <2>2, SetInduction
  <2> SUFFICES ASSUME NEW m \in 0 .. N PROVE reach[m] \subseteq reach[N]
    OBVIOUS
  <2>4. N - m \in Nat /\ N - m <= N /\ N - (N - m) = m
    BY <1>1
  <2> QED
    BY <2>3, <2>4 DEF S
<1> DEFINE IsEarly(z, f) == \E m \in 0 .. N : m + 1 <= Level(f) /\ z \in reach[m]
           S == {n \in Nat : n <= N => \A z \in reach[n] : \A f \in Functions :
                                          z \in Params(f) => IsEarly(z, f)}
<1>8. 0 \in S
  <2> SUFFICES ASSUME NEW z \in reach[0], NEW f \in Functions, z \in Params(f)
               PROVE IsEarly(z, f)
    OBVIOUS
  <2>1. Level(f) \in Nat /\ Level(f) >= 1
    BY <1>4
  <2>2. 0 \in 0 .. N /\ 0 + 1 <= Level(f)
    <3> HIDE DEF N
    <3> QED
      BY <1>1, <2>1
  <2> QED
    BY <2>2
<1>9. ASSUME NEW n \in Nat, n \in S PROVE n + 1 \in S
  <2> SUFFICES ASSUME n + 1 <= N,
                      NEW z \in reach[n + 1], NEW f \in Functions, z \in Params(f)
               PROVE IsEarly(z, f)
    OBVIOUS
  <2>1. n + 1 \in 1 .. N /\ n + 1 - 1 = n /\ n \in 0 .. N /\ n <= N
    BY <1>1
  <2>2. reach[n + 1] = Depending(reach[n])
    BY <1>2, <2>1
  <2>3. CASE z \in reach[n]
    BY <1>9, <2>1, <2>3
  <2>4. CASE z \notin reach[n]
    <3>1. PICK y \in reach[n] : z \in dependency_hierarchy[y]
      BY <2>2, <2>4 DEF Depending
    <3>2. y \in Ids
      BY <1>2, <2>1 DEF Operands, Ids
    <3>3. PICK x \in Executed, g \in Functions :
             /\ y \in Params(g) /\ z \in Globals \cup Params(x.fn)
             /\ x.fn \in Functions /\ Rank[g] < Rank[x.fn]
      BY <3>1, <3>2, DependencyFacts DEF HierarchyInv
    <3>4. z \notin Globals
      BY ShaderFacts, IdAssumption
    <3>5. x.fn = f
      BY <3>3, <3>4, OneOwner
    <3>6. PICK m \in 0 .. N : m + 1 <= Level(g) /\ y \in reach[m]
      BY <1>9, <2>1, <3>3
    <3>7. Level(g) + 1 <= Level(f) /\ Level(f) <= N /\ Level(f) \in Nat /\ Level(g) \in Nat
      BY <1>4, <1>5, <3>3, <3>5
    <3>8. m + 1 \in 1 .. N /\ m + 1 - 1 = m /\ m + 1 \in 0 .. N /\ m + 1 + 1 <= Level(f)
      BY <1>1, <3>6, <3>7
    <3>9. z \in reach[m + 1]
      BY <1>2, <3>1, <3>6, <3>8 DEF Depending
    <3> QED
      BY <3>8, <3>9
  <2> QED
    BY <2>3, <2>4
<1>10. N \in S
  <2> HIDE DEF S
  <2> QED
    BY <1>1, <1>8, <1>9, SetInduction
<1>11. ASSUME NEW z \in reach[N], NEW a \in dependency_hierarchy[z] PROVE a \in reach[N]
  <2>1. z \in Ids
    BY <1>1, <1>2 DEF Operands, Ids
  <2>2. PICK g \in Functions : z \in Params(g)
    BY <1>11, <2>1, DependencyFacts DEF HierarchyInv
  <2>3. PICK m \in 0 .. N : m + 1 <= Level(g) /\ z \in reach[m]
    BY <1>1, <1>10, <2>2
  <2>4. m + 1 \in 1 .. N /\ m + 1 - 1 = m /\ m + 1 \in 0 .. N
    <3>1. Level(g) \in Nat /\ Level(g) <= N
      BY <1>4
    <3> HIDE DEF N
    <3> QED
      BY <1>1, <2>3, <3>1
  <2>5. a \in reach[m + 1]
    BY <1>2, <1>11, <2>3, <2>4 DEF Depending
  <2> QED
    BY <1>7, <2>4, <2>5
<1>12. 0 \in 0 .. N
  BY <1>1
<1> QED
  BY <1>2, <1>7, <1>11, <1>12 DEF IsDependencyClosed

-----------------------------------------------------------------------------
(* What a traversal leaves behind. *)

(* What each traversal does at an instruction of a context is in the tables. *)

CombineDone(x, n) == OpAt(x, n).op # "call" => PairAt(x, n) \in combined_image_samplers

DrefDone(x, n) == IsComparison(OpAt(x, n)) => <<x.fn, n>> \in dref_combined_samplers

\* The first traversal of the uses marks what is compared,
MarkDone(x, n) ==
    IsComparison(OpAt(x, n)) => PairAt(x, n)[1] \in comparison_ids /\ PairAt(x, n)[2] \in comparison_ids

\* the second whatever that is passed for.
PassDone(x, n) ==
    OpAt(x, n).op = "call" =>
        \A p \in Params(OpAt(x, n).callee) :
            Value(Entered(x, OpAt(x, n)), p) \in Compared => p \in comparison_ids

RunDone(x, n) ==
    IF OpAt(x, n).op = "call"
    THEN \A p \in Params(OpAt(x, n).callee) : <<p, Value(Entered(x, OpAt(x, n)), p)>> \in bound
    ELSE \E t \in sampled : t.spirv = PairAt(x, n) /\ t.dref = IsComparison(OpAt(x, n))

Done(s, x, n) ==
    /\ s = "combine" => CombineDone(x, n)
    /\ s = "dref" => DrefDone(x, n)
    /\ s = "usage" => MarkDone(x, n)
    /\ s = "usage again" => PassDone(x, n)
    /\ s = "run" => RunDone(x, n)

\* The same for all a call leads to
IsComplete(s, K) ==
    \A x \in K : \A n \in DOMAIN Ops(x.fn) :
        Done(s, x, n) /\ (OpAt(x, n).op = "call" => Entered(x, OpAt(x, n)) \in K)
IsFinished(s, x) == \E K \in SUBSET Contexts : x \in K /\ IsComplete(s, K)

\* What was followed so far is finished, and calls are recorded before they are followed.
IsWalked(s) ==
    \A rs : IsPath(rs) => \A k \in 1 .. Len(stack) : \A n \in DOMAIN Ops(stack[k].fn) :
        /\ n < stack[k].next \/ (k < Len(stack) /\ n = stack[k].next) => Done(s, rs[k], n)
        /\ n < stack[k].next /\ OpAt(rs[k], n).op = "call" =>
              IsFinished(s, Entered(rs[k], OpAt(rs[k], n)))

UsesGrow ==
    /\ shader' = shader
    /\ combined_image_samplers \subseteq combined_image_samplers'
    /\ dref_combined_samplers \subseteq dref_combined_samplers'
    /\ comparison_ids \subseteq comparison_ids'
    /\ bound \subseteq bound' /\ sampled \subseteq sampled'

LEMMA NextUsesGrow == Next => UsesGrow
<1> SUFFICES ASSUME Next PROVE UsesGrow
  OBVIOUS
<1> QED
  BY DEF Next, FindDummy, Combine, CombineCall, CombineReturn, FindDref, MarkComparisons, UsageCall,
         Sample, RunCall, Call, FunctionReturn, NextStage, UsesGrow, combining, usage, execution

LEMMA GrowingKeepsDone ==
  ASSUME UsesGrow
  PROVE /\ \A s, x, n : Done(s, x, n) => Done(s, x, n)'
        /\ \A s, x : IsFinished(s, x) => IsFinished(s, x)'
<1>1. /\ \A f : Ops(f)' = Ops(f) /\ Params(f)' = Params(f)
      /\ \A f, id : ParamIndex(f, id)' = ParamIndex(f, id)
      /\ Contexts' = Contexts /\ Executed' = Executed /\ Compared' = Compared
      /\ \A x, o : Entered(x, o)' = Entered(x, o)
      /\ \A x, n : OpAt(x, n)' = OpAt(x, n) /\ PairAt(x, n)' = PairAt(x, n)
  BY SameShader DEF UsesGrow
<1>2. ASSUME NEW s, NEW x, NEW n, Done(s, x, n) PROVE Done(s, x, n)'
  <2> PICK o : o = OpAt(x, n)
    OBVIOUS
  <2>1. \A p, i : Value(i, p)' = Value(i, p)
    BY DEF Value
  <2>2. IsComparison(o)' <=> IsComparison(o)
    BY DEF IsComparison
  <2>3. CombineDone(x, n) => CombineDone(x, n)'
    BY <1>1 DEF CombineDone, UsesGrow
  <2>4. DrefDone(x, n) => DrefDone(x, n)'
    BY <1>1, <2>2 DEF DrefDone, UsesGrow
  <2>5. MarkDone(x, n) => MarkDone(x, n)'
    BY <1>1, <2>2 DEF MarkDone, UsesGrow
  <2>6. PassDone(x, n) => PassDone(x, n)'
    BY <1>1, <2>1 DEF PassDone, UsesGrow
  <2>7. RunDone(x, n) => RunDone(x, n)'
    BY <1>1, <2>1, <2>2 DEF RunDone, UsesGrow
  <2> QED
    BY <1>2, <2>3, <2>4, <2>5, <2>6, <2>7, Zenon DEF Done
<1>3. ASSUME NEW s, NEW K, IsComplete(s, K) PROVE IsComplete(s, K)'
  BY <1>1, <1>2, <1>3 DEF IsComplete
<1>4. ASSUME NEW s, NEW x, IsFinished(s, x) PROVE IsFinished(s, x)'
  BY <1>1, <1>3, <1>4 DEF IsFinished
<1> QED
  BY <1>2, <1>4

LEMMA AdvanceWalk ==
  ASSUME TableInv, StackIsASequence, StackInv, UsesGrow, NEW s, IsWalked(s),
         At({"sample", "fetch"}), Advance,
         \A rs, x, n : IsPath(rs) /\ x = rs[Len(stack)] /\ n = Top.next => Done(s, x, n)'
  PROVE IsWalked(s)'
<1>1. /\ \A f : Ops(f)' = Ops(f)
      /\ Executed' = Executed
      /\ \A x, o : Entered(x, o)' = Entered(x, o)
      /\ \A x, n : OpAt(x, n)' = OpAt(x, n)
  BY SameShader DEF UsesGrow
<1>2. /\ Len(stack) \in Nat \ {0} /\ Top = stack[Len(stack)] /\ Top.next \in Nat
      /\ Top.next \in DOMAIN Ops(Top.fn)
  BY TopFacts DEF At
<1>3. /\ Len(stack') = Len(stack)
      /\ \A k \in 1 .. Len(stack) : k # Len(stack) => stack'[k] = stack[k]
      /\ \A k \in 1 .. Len(stack) : stack'[k].fn = stack[k].fn
      /\ stack'[Len(stack)].next = Top.next + 1
  BY <1>2, AdvanceFacts
<1> SUFFICES ASSUME NEW rs, IsPath(rs)', NEW k \in 1 .. Len(stack), NEW n \in DOMAIN Ops(stack[k].fn)
             PROVE /\ n < stack'[k].next \/ (k < Len(stack) /\ n = stack'[k].next) => Done(s, rs[k], n)'
                   /\ n < stack'[k].next /\ OpAt(rs[k], n).op = "call" =>
                         IsFinished(s, Entered(rs[k], OpAt(rs[k], n)))'
  <2>1. \A k \in 1 .. Len(stack) : Ops(stack[k].fn)' = Ops(stack[k].fn)
    BY <1>1, <1>3
  <2> QED
    BY <1>1, <1>3, <2>1 DEF IsWalked
<1>4. IsPath(rs)
  <2>1. \A j \in 1 .. Len(stack) : j < Len(stack) => CallOf(j)' = CallOf(j)
    BY <1>1, <1>2, <1>3 DEF CallOf
  <2> QED
    BY <1>1, <1>3, <2>1 DEF IsPath
<1>5. rs[k].fn = stack[k].fn
  BY <1>4 DEF IsPath
<1>6. /\ n < stack[k].next \/ (k < Len(stack) /\ n = stack[k].next) => Done(s, rs[k], n)'
      /\ n < stack[k].next /\ OpAt(rs[k], n).op = "call" =>
            IsFinished(s, Entered(rs[k], OpAt(rs[k], n)))'
  <2> PICK y : y = Entered(rs[k], OpAt(rs[k], n))
    OBVIOUS
  <2>1. /\ n < stack[k].next \/ (k < Len(stack) /\ n = stack[k].next) => Done(s, rs[k], n)
        /\ n < stack[k].next /\ OpAt(rs[k], n).op = "call" => IsFinished(s, y)
    BY <1>4 DEF IsWalked
  <2>2. /\ n < stack[k].next \/ (k < Len(stack) /\ n = stack[k].next) => Done(s, rs[k], n)'
        /\ n < stack[k].next /\ OpAt(rs[k], n).op = "call" => IsFinished(s, y)'
    BY <2>1, GrowingKeepsDone
  <2> QED
    BY <1>1, <2>2
<1>7. CASE k # Len(stack) \/ n # Top.next
  <2>1. n \in Nat
    BY <1>2, FrameFacts, ShaderFacts DEF TableInv
  <2>2. n < stack'[k].next => n < stack[k].next
    BY <1>2, <1>3, <1>7, <2>1
  <2>3. k < Len(stack) => stack'[k].next = stack[k].next
    BY <1>3
  <2> QED
    BY <1>6, <2>2, <2>3
<1>8. CASE k = Len(stack) /\ n = Top.next
  <2>1. OpAt(rs[k], n).op # "call"
    BY <1>2, <1>5, <1>8 DEF OpAt, At, Op
  <2>2. Done(s, rs[k], n)'
    BY <1>4, <1>8
  <2> QED
    BY <2>1, <2>2
<1> QED
  BY <1>7, <1>8

LEMMA PushWalk ==
  ASSUME TableInv, StackIsASequence, StackInv, UsesGrow, NEW s, IsWalked(s),
         At({"call"}), NEW r, NEW c, Push(Frame(Op.callee, r, c)),
         \A rs, x, n : IsPath(rs) /\ x = rs[Len(stack)] /\ n = Top.next => Done(s, x, n)'
  PROVE IsWalked(s)'
<1>1. /\ \A f : Ops(f)' = Ops(f)
      /\ Executed' = Executed
      /\ \A x, o : Entered(x, o)' = Entered(x, o)
      /\ \A x, n : OpAt(x, n)' = OpAt(x, n)
  BY SameShader DEF UsesGrow
<1> PICK L : L = Len(stack)
  OBVIOUS
<1>2. /\ L \in Nat \ {0} /\ Top = stack[L] /\ Top.next \in Nat /\ Top.fn \in Functions
      /\ Top.next \in DOMAIN Ops(Top.fn) /\ Op = Ops(Top.fn)[Top.next] /\ Op.op = "call"
  BY TopFacts DEF At, Op
<1>3. Op.callee \in Functions
  BY <1>2, InstructionFacts DEF TableInv
<1>4. /\ Len(stack') = L + 1
      /\ \A k \in 1 .. L : stack'[k] = stack[k]
      /\ stack'[L + 1] = Frame(Op.callee, r, c)
  BY <1>3, PushFacts
<1> SUFFICES ASSUME NEW rs, IsPath(rs)', NEW k \in 1 .. L + 1, NEW n \in DOMAIN Ops(stack'[k].fn)
             PROVE /\ n < stack'[k].next \/ (k < L + 1 /\ n = stack'[k].next) => Done(s, rs[k], n)'
                   /\ n < stack'[k].next /\ OpAt(rs[k], n).op = "call" =>
                         IsFinished(s, Entered(rs[k], OpAt(rs[k], n)))'
  BY <1>1, <1>4 DEF IsWalked
<1> DEFINE old == [j \in 1 .. L |-> rs[j]]
<1>5. IsPath(old)
  <2>1. \A j \in 1 .. L : j < L => CallOf(j)' = CallOf(j)
    BY <1>1, <1>2, <1>4 DEF CallOf
  <2>2. /\ rs \in [1 .. L + 1 -> Executed] /\ rs[1] = MainContext
        /\ \A j \in 1 .. L + 1 : rs[j].fn = stack'[j].fn
        /\ \A j \in 1 .. L + 1 : j < L + 1 => rs[j + 1] = Entered(rs[j], CallOf(j)')
    BY <1>1, <1>4 DEF IsPath, MainContext
  <2>3. \A j \in 1 .. L : j \in 1 .. L + 1 /\ (j < L => j < L + 1 /\ j + 1 \in 1 .. L)
    BY <1>2
  <2>4. old \in [1 .. L -> Executed] /\ old[1] = MainContext
    BY <1>2, <2>2, <2>3
  <2>5. \A j \in 1 .. L : old[j].fn = stack[j].fn
    BY <1>4, <2>2, <2>3
  <2>6. \A j \in 1 .. L : j < L => old[j + 1] = Entered(old[j], CallOf(j))
    BY <2>1, <2>2, <2>3
  <2> HIDE DEF old
  <2> QED
    BY <2>4, <2>5, <2>6 DEF IsPath
<1>6. CASE k = L + 1
  <2>1. stack'[k].next = 1 /\ stack'[k].fn \in Functions
    BY <1>3, <1>4, <1>6 DEF Frame
  <2>2. n \in Nat /\ n >= 1
    BY <1>1, <2>1, ShaderFacts DEF TableInv
  <2> QED
    BY <1>2, <1>6, <2>1, <2>2
<1>7. CASE k # L + 1
  <2>1. k \in 1 .. L /\ stack'[k] = stack[k] /\ old[k] = rs[k] /\ k < L + 1
    BY <1>2, <1>4, <1>7
  <2>2. n \in DOMAIN Ops(stack[k].fn)
    BY <1>1, <2>1
  <2> PICK x, y : x = rs[k] /\ y = Entered(x, OpAt(x, n))
    OBVIOUS
  <2>3. old[k] = x
    BY <2>1
  <2> HIDE DEF old
  <2>4. /\ n < stack[k].next \/ (k < L /\ n = stack[k].next) => Done(s, x, n)
        /\ n < stack[k].next /\ OpAt(x, n).op = "call" => IsFinished(s, y)
    BY <1>5, <2>1, <2>2, <2>3 DEF IsWalked
  <2>5. /\ n < stack[k].next \/ (k < L /\ n = stack[k].next) => Done(s, x, n)'
        /\ n < stack[k].next /\ OpAt(x, n).op = "call" => IsFinished(s, y)'
    BY <2>4, GrowingKeepsDone
  <2>6. k = L /\ n = stack[k].next => Done(s, x, n)'
    BY <1>2, <1>5, <2>3
  <2>7. k < L \/ k = L
    BY <1>2, <2>1
  <2> QED
    BY <1>1, <2>1, <2>5, <2>6, <2>7
<1> QED
  BY <1>6, <1>7

LEMMA ReturnWalk ==
  ASSUME TableInv, StackIsASequence, StackInv, UsesGrow, NEW s, IsWalked(s),
         Len(stack) > 1, AtEnd, Return
  PROVE IsWalked(s)'
<1>1. /\ \A f : Ops(f)' = Ops(f)
      /\ Executed' = Executed
      /\ \A x, o : Entered(x, o)' = Entered(x, o)
      /\ \A x, n : OpAt(x, n)' = OpAt(x, n)
  BY SameShader DEF UsesGrow
<1> PICK L : L = Len(stack)
  OBVIOUS
<1> DEFINE M == L - 1
<1>2. /\ L \in Nat \ {0} /\ Top = stack[L] /\ Top.next \in Nat /\ Top.fn \in Functions
      /\ Len(Ops(Top.fn)) \in Nat /\ DOMAIN Ops(Top.fn) = 1 .. Len(Ops(Top.fn))
      /\ Top.next > Len(Ops(Top.fn))
  BY TopFacts DEF AtEnd
<1>3. /\ M \in 1 .. L /\ M < L /\ Caller = stack[M] /\ Caller.next \in DOMAIN Ops(Caller.fn)
      /\ Ops(Caller.fn)[Caller.next] = CallOf(M) /\ Caller.next \in Nat
  BY <1>2, CallerFacts, FrameFacts
<1>4. /\ Len(stack') = M
      /\ \A k \in 1 .. M : k # M => stack'[k] = stack[k]
      /\ \A k \in 1 .. M : stack'[k].fn = stack[k].fn
      /\ stack'[M].next = Caller.next + 1
  BY ReturnFacts
<1> HIDE DEF M
<1>0. M + 1 = L /\ M \in Nat /\ M >= 1 /\ \A k \in 1 .. M : k \in 1 .. L /\ (k < M => k < L)
  BY <1>2, <1>3 DEF M
<1> SUFFICES ASSUME NEW rs, IsPath(rs)', NEW k \in 1 .. M, NEW n \in DOMAIN Ops(stack'[k].fn)
             PROVE /\ n < stack'[k].next \/ (k < M /\ n = stack'[k].next) => Done(s, rs[k], n)'
                   /\ n < stack'[k].next /\ OpAt(rs[k], n).op = "call" =>
                         IsFinished(s, Entered(rs[k], OpAt(rs[k], n)))'
  BY <1>1, <1>4 DEF IsWalked
<1> PICK z : z = Entered(rs[M], CallOf(M))
  OBVIOUS
<1> DEFINE old == [j \in 1 .. L |-> IF j = L THEN z ELSE rs[j]]
<1>5. /\ rs \in [1 .. M -> Executed] /\ rs[1] = MainContext
      /\ \A j \in 1 .. M : rs[j].fn = stack[j].fn
      /\ \A j \in 1 .. M : j < M => rs[j + 1] = Entered(rs[j], CallOf(j))
  <2>1. \A j \in 1 .. M : j < M => CallOf(j)' = CallOf(j)
    BY <1>0, <1>1, <1>4 DEF CallOf
  <2> QED
    BY <1>1, <1>4, <2>1 DEF IsPath, MainContext
<1>6. z \in Executed /\ z.fn = Top.fn
  <2>1. M + 1 \in 1 .. L /\ rs[M] \in Executed /\ rs[M].fn = stack[M].fn
    BY <1>0, <1>5
  <2> QED
    BY <1>0, <1>2, <1>3, <2>1, CallOnStack
<1>7. IsPath(old)
  <2>1. \A j \in 1 .. L : j # L => j \in 1 .. M
    BY <1>0
  <2>2. old \in [1 .. L -> Executed]
    BY <1>5, <1>6, <2>1
  <2>3. old[1] = MainContext
    BY <1>0, <1>5
  <2>4. \A j \in 1 .. L : old[j].fn = stack[j].fn
    BY <1>2, <1>5, <1>6, <2>1
  <2>5. ASSUME NEW j \in 1 .. L, j < L PROVE old[j + 1] = Entered(old[j], CallOf(j))
    <3>1. j \in 1 .. M /\ old[j] = rs[j]
      BY <2>1, <2>5
    <3>2. CASE j = M
      <4>1. j + 1 = L /\ L \in 1 .. L
        BY <1>0, <3>2
      <4> QED
        BY <3>1, <3>2, <4>1
    <3>3. CASE j # M
      <4>1. j < M /\ j + 1 \in 1 .. M /\ j + 1 # L /\ j + 1 \in 1 .. L
        BY <1>0, <3>1, <3>3
      <4> QED
        BY <1>5, <3>1, <4>1
    <3> QED
      BY <3>2, <3>3
  <2> HIDE DEF old
  <2> QED
    BY <2>2, <2>3, <2>4, <2>5 DEF IsPath
<1>8. old[L] = z /\ \A j \in 1 .. M : old[j] = rs[j]
  BY <1>0, <1>2
<1> HIDE DEF old
<1>9. IsFinished(s, z)
  <2> DEFINE K == {z} \cup {x \in Contexts : IsFinished(s, x)}
  <2>1. z \in K /\ K \in SUBSET Contexts
    BY <1>6, ExecutedFacts DEF TableInv
  <2>2. ASSUME NEW x \in K, NEW m \in DOMAIN Ops(x.fn)
        PROVE Done(s, x, m) /\ (OpAt(x, m).op = "call" => Entered(x, OpAt(x, m)) \in K)
    <3>1. CASE x = z
      <4>1. m \in DOMAIN Ops(stack[L].fn) /\ L \in 1 .. L /\ m < stack[L].next
        BY <1>2, <1>6, <2>2, <3>1
      <4>2. Done(s, x, m) /\ (OpAt(x, m).op = "call" => IsFinished(s, Entered(x, OpAt(x, m))))
        BY <1>7, <1>8, <3>1, <4>1 DEF IsWalked
      <4>3. OpAt(x, m).op = "call" => Entered(x, OpAt(x, m)) \in Contexts
        BY <2>1, <2>2, EnteredFacts DEF TableInv
      <4> QED
        BY <4>2, <4>3
    <3>2. CASE x # z
      <4>1. x \in Contexts /\ IsFinished(s, x)
        BY <2>2, <3>2
      <4>2. PICK J \in SUBSET Contexts : x \in J /\ IsComplete(s, J)
        BY <4>1 DEF IsFinished
      <4>3. Done(s, x, m) /\ (OpAt(x, m).op = "call" => Entered(x, OpAt(x, m)) \in J)
        BY <2>2, <4>2 DEF IsComplete
      <4>4. OpAt(x, m).op = "call" => IsFinished(s, Entered(x, OpAt(x, m)))
        BY <4>2, <4>3 DEF IsFinished
      <4> QED
        BY <4>2, <4>3, <4>4
    <3> QED
      BY <3>1, <3>2
  <2> HIDE DEF K
  <2>3. IsComplete(s, K)
    BY <2>2 DEF IsComplete
  <2> QED
    BY <2>1, <2>3 DEF IsFinished
<1> PICK x, y : x = rs[k] /\ y = Entered(x, OpAt(x, n))
  OBVIOUS
<1>10. n \in DOMAIN Ops(stack[k].fn) /\ k \in 1 .. L /\ old[k] = x /\ n \in Nat
  <2>1. n \in DOMAIN Ops(stack[k].fn) /\ k \in 1 .. L /\ old[k] = x
    BY <1>0, <1>1, <1>4, <1>8
  <2> QED
    BY <2>1, FrameFacts, ShaderFacts DEF TableInv
<1>11. /\ n < stack[k].next \/ (k < L /\ n = stack[k].next) => Done(s, x, n)
       /\ n < stack[k].next /\ OpAt(x, n).op = "call" => IsFinished(s, y)
  BY <1>7, <1>10 DEF IsWalked
<1>12. /\ n < stack[k].next \/ (k < L /\ n = stack[k].next) => Done(s, x, n)'
       /\ n < stack[k].next /\ OpAt(x, n).op = "call" => IsFinished(s, y)'
  BY <1>11, GrowingKeepsDone
<1>13. CASE k # M
  <2>1. stack'[k] = stack[k] /\ k < L
    BY <1>0, <1>4, <1>13
  <2> QED
    BY <1>1, <1>12, <2>1
<1>14. CASE k = M
  <2>1. n < stack'[k].next => n < stack[k].next \/ n = stack[k].next
    BY <1>3, <1>4, <1>10, <1>14
  <2>2. k < L /\ ~(k < M)
    BY <1>0, <1>14
  <2>3. n = stack[k].next => y = z
    BY <1>3, <1>5, <1>14 DEF OpAt, CallOf
  <2>4. IsFinished(s, z)'
    BY <1>9, GrowingKeepsDone
  <2>5. n = stack[k].next => IsFinished(s, y)'
    BY <2>3, <2>4
  <2> QED
    BY <1>1, <1>12, <2>1, <2>2, <2>5
<1> QED
  BY <1>13, <1>14

LEMMA StartWalk ==
  ASSUME TableInv, shader' = shader, NEW t, Start(t), NEW s
  PROVE IsWalked(s)'
<1>1. \A f : Ops(f)' = Ops(f)
  BY SameShader
<1>2. Len(stack') = 1 /\ stack'[1] = Frame(Main, Empty, Empty)
  BY StartFacts
<1>3. stack'[1].fn = Main /\ stack'[1].next = 1
  BY <1>2 DEF Frame
<1>4. \A k \in 1 .. 1 : k = 1 /\ ~(k < 1)
  OBVIOUS
<1>5. \A n \in DOMAIN Ops(Main) : ~(n < 1)
  BY MainAssumption, ShaderFacts DEF TableInv
<1>6. \A k \in 1 .. Len(stack') : \A n \in DOMAIN Ops(stack'[k].fn) :
         ~(n < stack'[k].next) /\ ~(k < Len(stack'))
  BY <1>1, <1>2, <1>3, <1>4, <1>5
<1> QED
  BY <1>1, <1>6 DEF IsWalked

\* After a traversal everything which is executed is in the tables.
LEMMA WalkFinishes ==
  ASSUME TableInv, StackIsASequence, StackInv, NEW s, IsWalked(s), Len(stack) = 1, AtEnd
  PROVE \A x \in Executed : \A n \in DOMAIN Ops(x.fn) : Done(s, x, n)
<1>1. PICK rs : IsPath(rs)
  BY PathExists
<1>2. rs[1] = MainContext /\ 1 \in 1 .. Len(stack) /\ Top = stack[1] /\ stack[1].fn = Main
  BY <1>1, TopFacts DEF IsPath, StackInv
<1> DEFINE K == {x \in Contexts : x = MainContext \/ IsFinished(s, x)}
<1>3. MainContext \in K /\ K \in SUBSET Contexts /\ MainContext.fn = Main
  BY ExecutedFacts DEF TableInv
<1>4. ASSUME NEW x \in K, NEW m \in DOMAIN Ops(x.fn)
      PROVE Done(s, x, m) /\ (OpAt(x, m).op = "call" => Entered(x, OpAt(x, m)) \in K)
  <2>1. CASE x = MainContext
    <3>1. m \in DOMAIN Ops(stack[1].fn) /\ m < stack[1].next
      <4>1. m \in DOMAIN Ops(Main)
        BY <1>3, <1>4, <2>1
      <4> QED
        BY <1>2, <4>1, TopFacts DEF AtEnd
    <3>2. Done(s, x, m) /\ (OpAt(x, m).op = "call" => IsFinished(s, Entered(x, OpAt(x, m))))
      BY <1>1, <1>2, <2>1, <3>1 DEF IsWalked
    <3>3. OpAt(x, m).op = "call" => Entered(x, OpAt(x, m)) \in Contexts
      BY <1>4, EnteredFacts DEF TableInv
    <3> QED
      BY <3>2, <3>3
  <2>2. CASE x # MainContext
    <3>1. PICK J \in SUBSET Contexts : x \in J /\ IsComplete(s, J)
      BY <1>4, <2>2 DEF IsFinished
    <3>2. Done(s, x, m) /\ (OpAt(x, m).op = "call" => Entered(x, OpAt(x, m)) \in J)
      BY <1>4, <3>1 DEF IsComplete
    <3>3. OpAt(x, m).op = "call" => IsFinished(s, Entered(x, OpAt(x, m)))
      BY <3>1, <3>2 DEF IsFinished
    <3> QED
      BY <3>1, <3>2, <3>3
  <2> QED
    BY <2>1, <2>2
<1> HIDE DEF K
<1>5. IsCallClosed(K)
  BY <1>4 DEF IsCallClosed
<1>6. Executed \subseteq K
  BY <1>3, <1>5, ExecutedFacts DEF TableInv
<1> QED
  BY <1>4, <1>6

-----------------------------------------------------------------------------
(* The inductive invariant: what the tables hold is executed. *)

PairsInv == \A c \in combined_image_samplers : IsExecutedPair(c)

DrefInv ==
    \A f, n : <<f, n>> \in dref_combined_samplers =>
        f \in Functions /\ n \in DOMAIN Ops(f) /\ IsComparison(Ops(f)[n])

MarkInv == comparison_ids \subseteq ComparedIds

SampledInv ==
    \A t \in sampled : \E x \in Executed : \E n \in DOMAIN Ops(x.fn) :
        /\ OpAt(x, n).op # "call"
        /\ t.spirv = PairAt(x, n) /\ t.dref = IsComparison(OpAt(x, n))

BoundInv ==
    \A b \in bound : \E x \in Executed : \E p \in Params(x.fn) : b = <<p, Value(x, p)>>

IsUsage == stage \in {"usage", "usage again"}

\* The parameters of the functions on the stack depend on the arguments.
PassedInv ==
    IsUsage => \A k \in 1 .. Len(stack) : k < Len(stack) =>
        \A p \in Params(stack[k + 1].fn) :
            CallOf(k).args[ParamIndex(stack[k + 1].fn, p)] \in dependency_hierarchy[p]

(* And what is executed is in the tables. *)

Traversals == {"combine", "dref", "usage", "usage again", "run"}

WalkInv == \A s \in Traversals : stage = s => IsWalked(s)

After(s) ==
    {t \in {"dref", "usage", "usage again", "run", "end"} :
        \/ s = "combine"
        \/ s = "dref" /\ t # "dref"
        \/ s = "usage" /\ t \in {"usage again", "run", "end"}
        \/ s = "usage again" /\ t \in {"run", "end"}
        \/ s = "run" /\ t = "end"}

FinishedInv ==
    \A s \in Traversals : stage \in After(s) =>
        \A x \in Executed : \A n \in DOMAIN Ops(x.fn) : Done(s, x, n)

UsesInv ==
    /\ HierarchyInv /\ PairsInv /\ DrefInv /\ MarkInv /\ SampledInv /\ BoundInv
    /\ PassedInv /\ WalkInv /\ FinishedInv

-----------------------------------------------------------------------------
\* The context of the instruction which is followed is executed.
LEMMA CurrentContext ==
  ASSUME IInv, NEW kinds, At(kinds)
  PROVE \E x \in Executed :
           /\ x.fn = Top.fn /\ x.fn \in Functions /\ Top.next \in DOMAIN Ops(x.fn)
           /\ OpAt(x, Top.next) = Op
           /\ stage \in {"combine", "run"} => \A id : Value(x, id) = Value(Top, id)
<1>1. PICK rs : IsPath(rs)
  BY PathExists DEF IInv
<1>2. Len(stack) \in 1 .. Len(stack) /\ Top = stack[Len(stack)] /\ Top.fn \in Functions
  BY TopFacts DEF IInv
<1>3. rs[Len(stack)] \in Executed /\ rs[Len(stack)].fn = Top.fn
  BY <1>1, <1>2 DEF IsPath
<1>4. Top.next \in DOMAIN Ops(Top.fn)
  BY TopFacts DEF IInv, At
<1>5. stage \in {"combine", "run"} => \A id : Value(rs[Len(stack)], id) = Value(Top, id)
  BY <1>1, <1>2, PathIsRemap DEF IInv
<1> QED
  BY <1>2, <1>3, <1>4, <1>5 DEF OpAt, Op

LEMMA PathIsCurrent ==
  ASSUME IInv, NEW kinds, At(kinds), NEW rs, IsPath(rs), NEW x, x = rs[Len(stack)],
         NEW n, n = Top.next
  PROVE /\ x \in Executed /\ x.fn = Top.fn /\ n \in DOMAIN Ops(x.fn) /\ OpAt(x, n) = Op
        /\ stage \in {"combine", "run"} => \A id : Value(x, id) = Value(Top, id)
<1>2. Len(stack) \in 1 .. Len(stack) /\ Top = stack[Len(stack)] /\ Top.fn \in Functions
  BY TopFacts DEF IInv
<1>3. x \in Executed /\ x.fn = Top.fn
  BY <1>2 DEF IsPath
<1>4. Top.next \in DOMAIN Ops(Top.fn)
  BY TopFacts DEF IInv, At
<1>5. stage \in {"combine", "run"} => \A id : Value(x, id) = Value(Top, id)
  BY <1>2, PathIsRemap DEF IInv
<1> QED
  BY <1>2, <1>3, <1>4, <1>5 DEF OpAt, Op

LEMMA PairsStep ==
  ASSUME IInv, PairsInv, Next
  PROVE PairsInv'
<1>1. \A c : IsExecutedPair(c)' = IsExecutedPair(c)
  BY NextUsesGrow, SameShader DEF UsesGrow
<1>2. CASE Combine
  <2>1. PICK x \in Executed : /\ x.fn = Top.fn /\ Top.next \in DOMAIN Ops(x.fn)
                              /\ OpAt(x, Top.next) = Op
                              /\ \A id : Value(x, id) = Value(Top, id)
    BY <1>2, CurrentContext DEF Combine
  <2>2. Op.op # "call"
    BY <1>2 DEF Combine, At
  <2>3. <<remap_parameter(Op.image), remap_parameter(SamplerOf(Op))>> = PairAt(x, Top.next)
    BY <2>1 DEF PairAt, remap_parameter, Value
  <2>4. IsExecutedPair(<<remap_parameter(Op.image), remap_parameter(SamplerOf(Op))>>)
    BY <2>1, <2>2, <2>3 DEF IsExecutedPair
  <2>5. combined_image_samplers' \subseteq combined_image_samplers
            \cup {<<remap_parameter(Op.image), remap_parameter(SamplerOf(Op))>>}
    BY <1>2 DEF Combine, combining
  <2> QED
    BY <1>1, <2>4, <2>5 DEF PairsInv
<1>3. CASE ~Combine
  <2>1. combined_image_samplers' = combined_image_samplers
    BY <1>3 DEF Next, FindDummy, CombineCall, CombineReturn, FindDref, MarkComparisons, UsageCall,
         Sample, RunCall, Call, FunctionReturn, NextStage, combining
  <2> QED
    BY <1>1, <2>1 DEF PairsInv
<1> QED
  BY <1>2, <1>3

LEMMA DrefStep ==
  ASSUME IInv, DrefInv, Next
  PROVE DrefInv'
<1>1. \A f : Ops(f)' = Ops(f)
  BY NextUsesGrow, SameShader DEF UsesGrow
<1>2. CASE FindDref
  <2>1. Top.fn \in Functions /\ Top.next \in DOMAIN Ops(Top.fn) /\ Op = Ops(Top.fn)[Top.next]
    BY <1>2, TopFacts DEF IInv, FindDref, At, Op
  <2>2. \A f, n : <<f, n>> \in dref_combined_samplers' =>
          \/ <<f, n>> \in dref_combined_samplers
          \/ f = Top.fn /\ n = Top.next /\ IsComparison(Op)
    BY <1>2 DEF FindDref, IsComparison
  <2> QED
    BY <1>1, <2>1, <2>2 DEF DrefInv, IsComparison
<1>3. CASE ~FindDref
  <2>1. dref_combined_samplers' = dref_combined_samplers
    BY <1>3 DEF Next, FindDummy, Combine, CombineCall, CombineReturn, MarkComparisons, UsageCall,
         Sample, RunCall, Call, FunctionReturn, NextStage, usage
  <2> QED
    BY <1>1, <2>1 DEF DrefInv, IsComparison
<1> QED
  BY <1>2, <1>3

LEMMA SampledStep ==
  ASSUME IInv, SampledInv, Next
  PROVE SampledInv'
<1>1. /\ \A f : Ops(f)' = Ops(f)
      /\ Executed' = Executed
      /\ \A x, n : OpAt(x, n)' = OpAt(x, n) /\ PairAt(x, n)' = PairAt(x, n)
  BY NextUsesGrow, SameShader DEF UsesGrow
<1>2. CASE Sample
  <2>1. PICK x \in Executed : /\ x.fn = Top.fn /\ Top.next \in DOMAIN Ops(x.fn)
                              /\ OpAt(x, Top.next) = Op
                              /\ \A id : Value(x, id) = Value(Top, id)
    BY <1>2, CurrentContext DEF Sample
  <2>2. Op.op # "call" /\ stage = "run"
    BY <1>2 DEF Sample, At
  <2>3. DOMAIN Top.remap = Params(Top.fn)
    BY <2>2, TopFacts DEF IInv, RemapInv
  <2>4. Pair(Op.image, SamplerOf(Op)) = PairAt(x, Top.next)
    BY <2>1, <2>3 DEF PairAt, Pair, Value
  <2>5. \A t \in sampled' : \/ t \in sampled
                            \/ /\ t.spirv = PairAt(x, Top.next)
                               /\ t.dref = IsComparison(OpAt(x, Top.next))
    BY <1>2, <2>1, <2>4 DEF Sample, IsComparison
  <2> QED
    BY <1>1, <2>1, <2>2, <2>5 DEF SampledInv, IsComparison
<1>3. CASE ~Sample
  <2>1. sampled' = sampled
    BY <1>3 DEF Next, FindDummy, Combine, CombineCall, CombineReturn, FindDref, MarkComparisons, UsageCall,
         RunCall, Call, FunctionReturn, NextStage, execution
  <2> QED
    BY <1>1, <2>1 DEF SampledInv, IsComparison
<1> QED
  BY <1>2, <1>3

LEMMA BoundStep ==
  ASSUME IInv, BoundInv, Next
  PROVE BoundInv'
<1>1. /\ \A f : Ops(f)' = Ops(f) /\ Params(f)' = Params(f)
      /\ Executed' = Executed
      /\ \A x, p : Value(x, p)' = Value(x, p)
  BY NextUsesGrow, SameShader DEF UsesGrow, Value
<1>2. CASE RunCall
  <2>1. PICK x \in Executed : /\ x.fn = Top.fn /\ Top.next \in DOMAIN Ops(x.fn)
                              /\ OpAt(x, Top.next) = Op
                              /\ \A id : Value(x, id) = Value(Top, id)
    BY <1>2, CurrentContext DEF RunCall
  <2>2. Op.op = "call" /\ stage = "run"
    BY <1>2 DEF RunCall, At
  <2>3. DOMAIN Top.remap = Params(Top.fn)
    BY <2>2, TopFacts DEF IInv, RemapInv
  <2> PICK z : z = Entered(x, Op)
    OBVIOUS
  <2>4. z \in Executed /\ z.fn = Op.callee
        /\ \A p \in Params(Op.callee) : Value(z, p) = Value(x, Op.args[ParamIndex(Op.callee, p)])
    BY <2>1, <2>2, ExecutedFacts, EnteredFacts DEF IInv, TableInv, IsCallClosed
  <2>5. \A p \in Params(Op.callee) : Passed(Op.callee, Op.args)[p] = Value(z, p)
    BY <2>1, <2>3, <2>4 DEF Passed, Value
  <2>6. bound' \subseteq bound \cup {<<p, Passed(Op.callee, Op.args)[p]>> : p \in Params(Op.callee)}
    BY <1>2 DEF RunCall
  <2> QED
    BY <1>1, <2>4, <2>5, <2>6 DEF BoundInv
<1>3. CASE ~RunCall
  <2>1. bound' = bound
    BY <1>3 DEF Next, FindDummy, Combine, CombineCall, CombineReturn, FindDref, MarkComparisons, UsageCall,
         Sample, Call, FunctionReturn, NextStage, execution
  <2> QED
    BY <1>1, <2>1 DEF BoundInv
<1> QED
  BY <1>2, <1>3

LEMMA HierarchyStep ==
  ASSUME IInv, HierarchyInv, Next
  PROVE HierarchyInv'
<1>1. \A x, a : IsDependency(x, a)' = IsDependency(x, a)
  <2>1. /\ \A f : Ops(f)' = Ops(f) /\ Params(f)' = Params(f)
        /\ \A f, id : ParamIndex(f, id)' = ParamIndex(f, id)
        /\ Executed' = Executed
        /\ \A x, n : OpAt(x, n)' = OpAt(x, n)
    BY NextUsesGrow, SameShader DEF UsesGrow
  <2> QED
    BY <2>1 DEF IsDependency
<1>2. CASE UsageCall
  <2>1. PICK x \in Executed : /\ x.fn = Top.fn /\ Top.next \in DOMAIN Ops(x.fn)
                              /\ OpAt(x, Top.next) = Op /\ x.fn \in Functions
    BY <1>2, CurrentContext DEF UsageCall
  <2>2. Op.op = "call"
    BY <1>2 DEF UsageCall, At
  <2> DEFINE a(p) == Op.args[ParamIndex(Op.callee, p)]
  <2>3. \A p \in Params(Op.callee) : a(p) \in Operands /\ IsDependency(p, a(p))
    <3>1. \A p \in Params(Op.callee) : IsDependency(p, a(p))
      BY <2>1, <2>2 DEF IsDependency
    <3>2. \A p \in Params(Op.callee) : a(p) \in Globals \cup Params(Top.fn)
      BY <2>1, <2>2, EnteredFacts, ExecutedFacts DEF IInv, TableInv
    <3>3. Params(Top.fn) \subseteq Parameters
      BY <2>1, ShaderFacts DEF IInv, TableInv
    <3> QED
      BY <3>1, <3>2, <3>3 DEF Operands
  <2>4. dependency_hierarchy' = [x1 \in Ids |-> dependency_hierarchy[x1]
                                    \cup (IF x1 \in Params(Op.callee) THEN {a(x1)} ELSE {})]
    BY <1>2 DEF UsageCall, HierarchyInv
  <2> HIDE DEF a
  <2>5. dependency_hierarchy' \in [Ids -> SUBSET Operands]
    BY <2>3, <2>4 DEF HierarchyInv
  <2>6. ASSUME NEW x1 \in Ids, NEW b \in dependency_hierarchy'[x1] PROVE IsDependency(x1, b)
    BY <2>3, <2>4, <2>6 DEF HierarchyInv
  <2> QED
    BY <1>1, <2>5, <2>6 DEF HierarchyInv
<1>3. CASE NextStage
  <2>1. dependency_hierarchy' = [x \in Ids |-> {}]
    BY <1>3 DEF NextStage, NoDependencies
  <2> QED
    BY <2>1 DEF HierarchyInv
<1>4. CASE ~UsageCall /\ ~NextStage
  <2>1. dependency_hierarchy' = dependency_hierarchy
    BY <1>4 DEF Next, FindDummy, Combine, CombineCall, CombineReturn, FindDref, MarkComparisons,
         Sample, RunCall, Call, FunctionReturn, usage
  <2> QED
    BY <1>1, <2>1 DEF HierarchyInv
<1> QED
  BY <1>2, <1>3, <1>4

(***************************************************************************)
(* Whatever an operand of a comparison can stand for is compared: in every *)
(* context which can name it, it stands for a global which is compared.    *)
(***************************************************************************)
LEMMA MarkedIsCompared ==
  ASSUME shader \in Shaders, HierarchyInv, NEW x \in Executed, NEW n \in DOMAIN Ops(x.fn),
         IsComparison(OpAt(x, n)), NEW id, id = OpAt(x, n).image \/ id = OpAt(x, n).sampler
  PROVE  WithHierarchy(id) \subseteq ComparedIds
<1> DEFINE Names(y, z) == z \in Globals \cup Params(y.fn)
           T == {z \in Operands : /\ \E y \in Executed : Names(y, z)
                                  /\ \A y \in Executed : Names(y, z) => Value(y, z) \in Compared}
<1>1. \A y \in Executed : y \in Contexts /\ y.fn \in Functions
  BY ExecutedFacts, ContextFacts
<1>2. ASSUME NEW y \in Executed, NEW z \in Globals PROVE Value(y, z) = z
  BY <1>1, ContextFacts
<1>3. ASSUME NEW y \in Executed, NEW y1 \in Executed, NEW z, Names(y, z), Names(y1, z), z \notin Globals
      PROVE y.fn = y1.fn
  BY <1>1, <1>3, OneOwner
<1>4. OpAt(x, n).op # "call" /\ OpAt(x, n).op = "sample"
  BY DEF IsComparison
<1>5. /\ OpAt(x, n).image \in Globals \cup Params(x.fn)
      /\ OpAt(x, n).sampler \in Globals \cup Params(x.fn)
      /\ SamplerOf(OpAt(x, n)) = OpAt(x, n).sampler
  BY <1>1, <1>4, OperandFacts DEF OpAt
<1>6. id \in Operands
  BY <1>1, <1>5, ShaderFacts DEF Operands
<1>7. ASSUME NEW y \in Executed, y.fn = x.fn PROVE Value(y, id) \in Compared
  <2>1. OpAt(y, n) = OpAt(x, n) /\ n \in DOMAIN Ops(y.fn)
    BY <1>7 DEF OpAt
  <2>2. Value(y, id) \in Globals
    BY <1>1, <1>5, <1>7, ContextFacts
  <2>3. Value(y, id) = PairAt(y, n)[1] \/ Value(y, id) = PairAt(y, n)[2]
    BY <1>5, <2>1 DEF PairAt
  <2> QED
    BY <2>1, <2>2, <2>3 DEF Compared
<1>8. id \in T
  <2>1. Names(x, id)
    BY <1>5
  <2>2. ASSUME NEW y \in Executed, Names(y, id) PROVE Value(y, id) \in Compared
    <3>1. CASE id \in Globals
      BY <1>2, <1>7, <3>1
    <3>2. CASE id \notin Globals
      <4>1. y.fn = x.fn
        BY <1>3, <2>1, <2>2, <3>2
      <4> QED
        BY <1>7, <4>1
    <3> QED
      BY <3>1, <3>2
  <2> QED
    BY <1>6, <2>1, <2>2
<1>9. ASSUME NEW z \in T \cap Operands, NEW a \in dependency_hierarchy[z] PROVE a \in T
  <2>1. z \in Ids /\ a \in Operands
    BY <1>9 DEF HierarchyInv, Operands, Ids
  <2>0. PICK y \in Executed : \E m \in DOMAIN Ops(y.fn) : \E g \in Functions :
           /\ OpAt(y, m).op = "call" /\ g = OpAt(y, m).callee /\ z \in Params(g)
           /\ a = OpAt(y, m).args[ParamIndex(g, z)] /\ Names(y, a)
    BY <1>9, <2>1, DependencyFacts DEF HierarchyInv
  <2>2. PICK m \in DOMAIN Ops(y.fn), g \in Functions :
           /\ OpAt(y, m).op = "call" /\ g = OpAt(y, m).callee /\ z \in Params(g)
           /\ a = OpAt(y, m).args[ParamIndex(g, z)] /\ Names(y, a)
    BY <2>0
  <2>3. ASSUME NEW w \in Executed, w.fn = y.fn PROVE Value(w, a) \in Compared
    <3>1. OpAt(w, m) = OpAt(y, m) /\ m \in DOMAIN Ops(w.fn)
      BY <2>3 DEF OpAt
    <3> PICK e : e = Entered(w, OpAt(w, m))
      OBVIOUS
    <3>2. e \in Executed /\ e.fn = g /\ Value(e, z) = Value(w, a)
      BY <1>1, <2>2, <3>1, ExecutedFacts, EnteredFacts DEF IsCallClosed
    <3>3. Names(e, z)
      BY <2>2, <3>2
    <3> QED
      BY <1>9, <3>2, <3>3
  <2>4. ASSUME NEW w \in Executed, Names(w, a) PROVE Value(w, a) \in Compared
    <3>1. CASE a \in Globals
      BY <1>2, <2>3, <3>1
    <3>2. CASE a \notin Globals
      <4>1. w.fn = y.fn
        BY <1>3, <2>2, <2>4, <3>2
      <4> QED
        BY <2>3, <4>1
    <3> QED
      BY <3>1, <3>2
  <2> QED
    BY <2>1, <2>2, <2>4
<1>10. T \subseteq ComparedIds
  <2> SUFFICES ASSUME NEW z \in T PROVE z \in ComparedIds
    OBVIOUS
  <2>1. PICK y \in Executed : Names(y, z) /\ Value(y, z) \in Compared
    OBVIOUS
  <2>2. CASE z \in Globals
    BY <1>2, <2>1, <2>2 DEF ComparedIds
  <2>3. CASE z \notin Globals
    <3>1. z \in Params(y.fn) /\ z \in Parameters
      BY <1>1, <2>1, <2>3, ShaderFacts
    <3> QED
      BY <2>1, <3>1 DEF ComparedIds
  <2> QED
    BY <2>2, <2>3
<1> HIDE DEF T
<1>11. WithHierarchy(id) \subseteq T
  BY <1>6, <1>8, <1>9, HierarchyIsLeast DEF HierarchyInv
<1> QED
  BY <1>10, <1>11

LEMMA MarkStep ==
  ASSUME IInv, HierarchyInv, DrefInv, MarkInv, Next
  PROVE MarkInv'
<1>1. ComparedIds' = ComparedIds
  BY NextUsesGrow, SameShader DEF UsesGrow
<1>2. CASE MarkComparisons
  <2>1. PICK x \in Executed : /\ x.fn = Top.fn /\ Top.next \in DOMAIN Ops(x.fn)
                              /\ OpAt(x, Top.next) = Op
    BY <1>2, CurrentContext DEF MarkComparisons
  <2>2. ASSUME <<Top.fn, Top.next>> \in dref_combined_samplers
        PROVE WithHierarchy(Op.image) \cup WithHierarchy(Op.sampler) \subseteq ComparedIds
    <3>1. IsComparison(OpAt(x, Top.next))
      BY <2>1, <2>2 DEF DrefInv, OpAt
    <3> QED
      BY <2>1, <3>1, MarkedIsCompared DEF IInv, TableInv
  <2> QED
    BY <1>1, <1>2, <2>2 DEF MarkComparisons, MarkInv
<1>3. CASE UsageCall
  <2>1. PICK x \in Executed : /\ x.fn = Top.fn /\ Top.next \in DOMAIN Ops(x.fn)
                              /\ OpAt(x, Top.next) = Op
    BY <1>3, CurrentContext DEF UsageCall
  <2> PICK n, g : n = Top.next /\ g = Op.callee
    OBVIOUS
  <2>2. Op.op = "call"
    BY <1>3 DEF UsageCall, At
  <2>3. \A y \in Executed : y \in Contexts /\ y.fn \in Functions
    BY ExecutedFacts, ContextFacts DEF IInv, TableInv
  <2>4. ASSUME NEW p \in Params(g), NEW a, a = Op.args[ParamIndex(g, p)],
               NEW y \in Executed, y.fn = x.fn, Value(y, a) \in Compared
        PROVE p \in ComparedIds
    <3>1. OpAt(y, n) = Op /\ n \in DOMAIN Ops(y.fn)
      BY <2>1, <2>4 DEF OpAt
    <3> PICK e : e = Entered(y, Op)
      OBVIOUS
    <3>2. e \in Executed /\ e.fn = g /\ g \in Functions /\ Value(e, p) = Value(y, a)
      BY <2>2, <2>3, <2>4, <3>1, ExecutedFacts, EnteredFacts DEF IInv, TableInv, IsCallClosed
    <3>3. p \in Parameters
      BY <2>4, <3>2, ShaderFacts DEF IInv, TableInv
    <3> QED
      BY <2>4, <3>2, <3>3 DEF ComparedIds
  <2>5. ASSUME NEW p \in Params(g), NEW a, a = Op.args[ParamIndex(g, p)], a \in ComparedIds
        PROVE p \in ComparedIds
    <3>1. CASE a \in Compared
      <4>1. Value(x, a) = a
        BY <2>3, <3>1, ContextFacts DEF Compared, IInv, TableInv
      <4> QED
        BY <2>4, <2>5, <3>1, <4>1
    <3>2. CASE a \notin Compared
      <4>1. PICK y \in Executed : a \in Params(y.fn) /\ Value(y, a) \in Compared
        BY <2>5, <3>2 DEF ComparedIds
      <4>2. a \in Parameters
        BY <2>5, <3>2 DEF ComparedIds
      <4>3. a \in Globals \cup Params(x.fn)
        BY <2>1, <2>2, <2>3, <2>5, EnteredFacts DEF IInv, TableInv
      <4>4. a \in Params(x.fn)
        BY <4>2, <4>3, IdAssumption
      <4>5. y.fn = x.fn
        BY <2>3, <4>1, <4>4, OneOwner DEF IInv, TableInv
      <4> QED
        BY <2>4, <2>5, <4>1, <4>5
    <3> QED
      BY <3>1, <3>2
  <2>6. comparison_ids' = comparison_ids
            \cup {p \in Params(g) : Op.args[ParamIndex(g, p)] \in comparison_ids}
    BY <1>3 DEF UsageCall
  <2> QED
    BY <1>1, <2>5, <2>6 DEF MarkInv
<1>4. CASE ~MarkComparisons /\ ~UsageCall
  <2>1. comparison_ids' = comparison_ids
    BY <1>4 DEF Next, FindDummy, Combine, CombineCall, CombineReturn, FindDref,
         Sample, RunCall, Call, FunctionReturn, NextStage, usage
  <2> QED
    BY <1>1, <2>1 DEF MarkInv
<1> QED
  BY <1>2, <1>3, <1>4

LEMMA PassedStep ==
  ASSUME IInv, HierarchyInv, PassedInv, Next
  PROVE PassedInv'
<1>1. /\ \A f : Ops(f)' = Ops(f) /\ Params(f)' = Params(f)
      /\ \A f, id : ParamIndex(f, id)' = ParamIndex(f, id)
  BY NextUsesGrow, SameShader DEF UsesGrow
<1>0. TableInv /\ StackIsASequence /\ StackInv /\ shader \in Shaders
  BY DEF IInv, TableInv
<1> SUFFICES ASSUME IsUsage' PROVE PassedInv'
  BY DEF PassedInv
<1>2. /\ Len(stack) \in Nat \ {0} /\ Top = stack[Len(stack)] /\ Len(stack) > 0
  BY <1>0, TopFacts
<1>3. CASE MarkComparisons
  <2>1. /\ IsUsage /\ Advance /\ dependency_hierarchy' = dependency_hierarchy
    BY <1>3 DEF MarkComparisons, IsUsage
  <2>2. /\ Len(stack') = Len(stack)
        /\ \A j \in 1 .. Len(stack) : j # Len(stack) => stack'[j] = stack[j]
        /\ \A j \in 1 .. Len(stack) : stack'[j].fn = stack[j].fn
    BY <1>0, <1>2, <2>1, AdvanceFacts
  <2> SUFFICES ASSUME NEW k \in 1 .. Len(stack'), k < Len(stack'), NEW p \in Params(stack'[k + 1].fn)
               PROVE (CallOf(k)').args[ParamIndex(stack'[k + 1].fn, p)] \in dependency_hierarchy'[p]
    BY <1>1 DEF PassedInv
  <2>3. k \in 1 .. Len(stack) /\ k + 1 \in 1 .. Len(stack) /\ stack'[k] = stack[k] /\ stack'[k + 1].fn = stack[k + 1].fn
    BY <1>2, <2>2
  <2>4. CallOf(k)' = CallOf(k)
    BY <1>1, <2>3 DEF CallOf
  <2> QED
    BY <2>1, <2>2, <2>3, <2>4 DEF PassedInv
<1>4. CASE FunctionReturn
  <2>1. IsUsage /\ Return /\ Len(stack) > 1 /\ dependency_hierarchy' = dependency_hierarchy
    BY <1>4 DEF FunctionReturn, usage, IsUsage
  <2>2. /\ Len(stack') = Len(stack) - 1
        /\ \A j \in 1 .. Len(stack) - 1 : j # Len(stack) - 1 => stack'[j] = stack[j]
        /\ \A j \in 1 .. Len(stack) - 1 : stack'[j].fn = stack[j].fn
    BY <1>0, <1>2, <2>1, ReturnFacts
  <2> SUFFICES ASSUME NEW k \in 1 .. Len(stack'), k < Len(stack'), NEW p \in Params(stack'[k + 1].fn)
               PROVE (CallOf(k)').args[ParamIndex(stack'[k + 1].fn, p)] \in dependency_hierarchy'[p]
    BY <1>1 DEF PassedInv
  <2>3. /\ k \in 1 .. Len(stack) /\ k < Len(stack) /\ k + 1 \in 1 .. Len(stack)
        /\ stack'[k] = stack[k] /\ stack'[k + 1].fn = stack[k + 1].fn
    BY <1>2, <2>2
  <2>4. CallOf(k)' = CallOf(k)
    BY <1>1, <2>3 DEF CallOf
  <2> QED
    BY <2>1, <2>2, <2>3, <2>4 DEF PassedInv
<1>5. CASE UsageCall
  <2>1. /\ IsUsage /\ Op.op = "call"
        /\ Push(Frame(Op.callee, Empty, Empty)) /\ At({"call"})
    BY <1>5 DEF UsageCall, At, IsUsage
  <2>2. PICK x \in Executed : /\ x.fn = Top.fn /\ Top.next \in DOMAIN Ops(x.fn)
                              /\ OpAt(x, Top.next) = Op
    BY <2>1, CurrentContext
  <2>3. Op.callee \in Functions
    BY <1>0, <2>1, <2>2, EnteredFacts, ExecutedFacts
  <2>4. /\ Len(stack') = Len(stack) + 1
        /\ \A j \in 1 .. Len(stack) : stack'[j] = stack[j]
        /\ stack'[Len(stack) + 1].fn = Op.callee
    BY <1>0, <2>1, <2>3, PushFacts DEF Frame
  <2> SUFFICES ASSUME NEW k \in 1 .. Len(stack'), k < Len(stack'), NEW p \in Params(stack'[k + 1].fn)
               PROVE (CallOf(k)').args[ParamIndex(stack'[k + 1].fn, p)] \in dependency_hierarchy'[p]
    BY <1>1 DEF PassedInv
  <2>5. p \in Ids
    <3>1. stack'[k + 1].fn \in Functions
      <4>1. k + 1 \in 1 .. Len(stack')
        BY <1>2, <2>4
      <4>3. CASE k + 1 = Len(stack) + 1
        BY <2>3, <2>4, <4>3
      <4>4. CASE k + 1 # Len(stack) + 1
        <5>1. k + 1 \in 1 .. Len(stack)
          BY <1>2, <2>4, <4>1, <4>4
        <5> QED
          BY <1>0, <2>4, <5>1, FrameFacts
      <4> QED
        BY <4>3, <4>4
    <3> QED
      BY <1>0, <3>1, ShaderFacts DEF Ids
  <2>6. dependency_hierarchy'[p] = dependency_hierarchy[p]
            \cup (IF p \in Params(Op.callee) THEN {Op.args[ParamIndex(Op.callee, p)]} ELSE {})
    <3>1. DOMAIN dependency_hierarchy = Ids
      BY DEF HierarchyInv
    <3> QED
      BY <1>5, <2>5, <3>1 DEF UsageCall
  <2>7. CASE k = Len(stack)
    <3>1. stack'[k + 1].fn = Op.callee /\ CallOf(k)' = Op
      BY <1>1, <1>2, <2>4, <2>7 DEF CallOf, Op
    <3> QED
      BY <2>6, <3>1
  <2>8. CASE k # Len(stack)
    <3>1. /\ k \in 1 .. Len(stack) /\ k < Len(stack) /\ k + 1 \in 1 .. Len(stack)
          /\ stack'[k] = stack[k] /\ stack'[k + 1].fn = stack[k + 1].fn
      BY <1>2, <2>4, <2>8
    <3>2. CallOf(k)' = CallOf(k)
      BY <1>1, <3>1 DEF CallOf
    <3> QED
      BY <2>1, <2>6, <3>1, <3>2 DEF PassedInv
  <2> QED
    BY <2>7, <2>8
<1>6. CASE NextStage
  <2>1. Len(stack') = 1
    BY <1>6, StartFacts DEF NextStage
  <2>2. \A k \in 1 .. Len(stack') : ~(k < Len(stack'))
    BY <2>1
  <2> QED
    BY <2>2 DEF PassedInv
<1>7. CASE ~MarkComparisons /\ ~FunctionReturn /\ ~UsageCall /\ ~NextStage
  <2>1. ~IsUsage'
    BY <1>7 DEF IsUsage, Next, FindDummy, Combine, CombineCall, CombineReturn, FindDref, Sample, RunCall, Call, Start
  <2> QED
    BY <2>1 DEF PassedInv
<1> QED
  BY <1>3, <1>4, <1>5, <1>6, <1>7

-----------------------------------------------------------------------------
(* Every step which stays in a traversal goes on, follows a call or        *)
(* returns from one.                                                       *)

Goes ==
    \/ At({"sample", "fetch"}) /\ Advance
    \/ At({"call"}) /\ \E r, c : Push(Frame(Op.callee, r, c))
    \/ Len(stack) > 1 /\ AtEnd /\ Return

LEMMA NextGoes ==
  ASSUME Next, stage' # "thrown"
  PROVE (stage' = stage /\ Goes) \/ Start(stage')
<1>1. CASE NextStage
  BY <1>1, NextStageFacts DEF Start
<1>2. CASE FindDummy
  BY <1>2 DEF FindDummy, Start, Goes
<1>3. CASE Combine \/ CombineCall \/ CombineReturn
  BY <1>3 DEF Combine, CombineCall, CombineReturn, Goes
<1>4. CASE FindDref \/ MarkComparisons \/ Call \/ FunctionReturn \/ UsageCall
  BY <1>4 DEF FindDref, MarkComparisons, Call, FunctionReturn, UsageCall, Goes
<1>5. CASE Sample \/ RunCall
  BY <1>5 DEF Sample, RunCall, Goes
<1> QED
  BY <1>1, <1>2, <1>3, <1>4, <1>5 DEF Next

LEMMA StageActions ==
  ASSUME Next, ~AtEnd
  PROVE /\ stage = "combine" => Combine \/ CombineCall
        /\ stage = "dref" => FindDref \/ Call
        /\ stage = "usage" => MarkComparisons \/ UsageCall
        /\ stage = "usage again" => MarkComparisons \/ UsageCall
        /\ stage = "run" => Sample \/ RunCall
<1>1. FindDummy => stage = "dummy"
  BY DEF FindDummy
<1>2. Combine \/ CombineCall => stage = "combine"
  BY DEF Combine, CombineCall
<1>3. ~CombineReturn /\ ~FunctionReturn /\ ~NextStage
  BY DEF CombineReturn, FunctionReturn, NextStage
<1>4. FindDref => stage = "dref"
  BY DEF FindDref
<1>5. MarkComparisons \/ UsageCall => stage = "usage" \/ stage = "usage again"
  BY DEF MarkComparisons, UsageCall
<1>6. Sample \/ RunCall => stage = "run"
  BY DEF Sample, RunCall
<1>7. Call => stage = "dummy" \/ stage = "dref"
  BY DEF Call
<1> QED
  BY <1>1, <1>2, <1>3, <1>4, <1>5, <1>6, <1>7, Zenon DEF Next

\* The instruction which is followed, in the context of the call.
LEMMA PathAtOp ==
  ASSUME IInv, ~AtEnd, NEW rs, IsPath(rs), NEW x, x = rs[Len(stack)], NEW n, n = Top.next
  PROVE /\ x \in Executed /\ x \in Contexts /\ x.fn = Top.fn /\ x.fn \in Functions
        /\ n \in DOMAIN Ops(x.fn) /\ OpAt(x, n) = Op /\ Op = Ops(Top.fn)[Top.next]
        /\ At({Op.op}) /\ Op.op \in {"sample", "fetch", "call"}
        /\ stage \in {"combine", "run"} => \A id : Value(x, id) = Value(Top, id)
<1>1. At({Op.op})
  BY TopFacts DEF IInv, AtEnd, At
<1>2. /\ x \in Executed /\ x.fn = Top.fn /\ n \in DOMAIN Ops(x.fn) /\ OpAt(x, n) = Op
      /\ stage \in {"combine", "run"} => \A id : Value(x, id) = Value(Top, id)
  BY <1>1, PathIsCurrent
<1>3. x \in Contexts /\ x.fn \in Functions
  BY <1>2, ExecutedFacts, ContextFacts DEF IInv, TableInv
<1>4. Op.op \in {"sample", "fetch", "call"}
  BY <1>2, <1>3, InstructionFacts DEF OpAt, IInv, TableInv
<1> QED
  BY <1>1, <1>2, <1>3, <1>4 DEF Op

LEMMA CombineIsDone ==
  ASSUME IInv, Next, ~AtEnd, stage = "combine", stage' # "thrown",
         NEW rs, IsPath(rs), NEW x, x = rs[Len(stack)], NEW n, n = Top.next
  PROVE CombineDone(x, n)'
<1>1. /\ OpAt(x, n) = Op
      /\ \A id : Value(x, id) = Value(Top, id)
  BY PathAtOp
<1>2. OpAt(x, n)' = OpAt(x, n) /\ PairAt(x, n)' = PairAt(x, n)
  BY NextUsesGrow, SameShader DEF UsesGrow
<1>3. ASSUME Op.op # "call" PROVE PairAt(x, n) \in combined_image_samplers'
  <2>1. Combine
    BY <1>3, StageActions DEF CombineCall, At
  <2>2. <<remap_parameter(Op.image), remap_parameter(SamplerOf(Op))>> = PairAt(x, n)
    BY <1>1 DEF PairAt, remap_parameter, Value
  <2> QED
    BY <2>1, <2>2 DEF Combine
<1> QED
  BY <1>1, <1>2, <1>3 DEF CombineDone

LEMMA DrefIsDone ==
  ASSUME IInv, Next, ~AtEnd, stage = "dref",
         NEW rs, IsPath(rs), NEW x, x = rs[Len(stack)], NEW n, n = Top.next
  PROVE DrefDone(x, n)'
<1>1. OpAt(x, n) = Op /\ x.fn = Top.fn
  BY PathAtOp
<1>2. OpAt(x, n)' = OpAt(x, n)
  BY NextUsesGrow, SameShader DEF UsesGrow
<1>3. ASSUME IsComparison(Op) PROVE <<x.fn, n>> \in dref_combined_samplers'
  <2>1. FindDref
    BY <1>3, StageActions DEF IsComparison, Call, At
  <2> QED
    BY <1>1, <1>3, <2>1 DEF FindDref, IsComparison
<1> QED
  BY <1>1, <1>2, <1>3 DEF DrefDone, IsComparison

\* What an operand stands for in a call is among what the dependencies lead to.
LEMMA ValueIsReached ==
  ASSUME IInv, HierarchyInv, PassedInv, IsUsage, NEW rs, IsPath(rs),
         NEW id \in Globals \cup Params(Top.fn)
  PROVE Value(rs[Len(stack)], id) \in WithHierarchy(id)
<1> PICK L, S : L = Len(stack) /\ S = WithHierarchy(id)
  OBVIOUS
<1>0. /\ TableInv /\ StackIsASequence /\ StackInv /\ shader \in Shaders
      /\ L \in Nat \ {0} /\ Top = stack[L] /\ Top.fn \in Functions
  BY TopFacts DEF IInv, TableInv
<1>1. id \in Operands
  BY <1>0, ShaderFacts DEF Operands
<1>2. id \in S /\ \A z \in S : dependency_hierarchy[z] \subseteq S
  BY <1>0, <1>1, HierarchyIsClosed DEF IsDependencyClosed
<1>3. \A k \in 1 .. L : rs[k] \in Executed /\ rs[k] \in Contexts /\ rs[k].fn = stack[k].fn
                          /\ rs[k].fn \in Functions
  BY <1>0, ExecutedFacts, ContextFacts DEF IsPath
<1>12. ASSUME NEW y \in Contexts, NEW m \in DOMAIN Ops(y.fn), OpAt(y, m).op = "call",
              NEW p \in Params(OpAt(y, m).callee)
       PROVE /\ OpAt(y, m).args[ParamIndex(OpAt(y, m).callee, p)] \in Globals \cup Params(y.fn)
             /\ Value(Entered(y, OpAt(y, m)), p)
                   = Value(y, OpAt(y, m).args[ParamIndex(OpAt(y, m).callee, p)])
  BY <1>0, <1>12, EnteredFacts
<1> DEFINE v == Value(rs[L], id)
           IsAt(k) == \E z \in S : z \in Globals \cup Params(rs[k].fn) /\ Value(rs[k], z) = v
           T == {d \in Nat : d < L => IsAt(L - d)}
<1>4. 0 \in T
  <2>1. L - 0 = L /\ L \in 1 .. L
    BY <1>0
  <2>2. IsAt(L)
    BY <1>0, <1>2, <1>3, <2>1
  <2> HIDE DEF IsAt
  <2> QED
    BY <2>1, <2>2
<1>5. ASSUME NEW d \in Nat, d \in T PROVE d + 1 \in T
  <2> SUFFICES ASSUME d + 1 < L PROVE IsAt(L - (d + 1))
    OBVIOUS
  <2> PICK k, j : k = L - d /\ j = L - (d + 1)
    OBVIOUS
  <2>1. k \in 1 .. L /\ j \in 1 .. L /\ j < L /\ k = j + 1 /\ IsAt(k)
    BY <1>0, <1>5
  <2>2. PICK z \in S : z \in Globals \cup Params(rs[k].fn) /\ Value(rs[k], z) = v
    BY <2>1
  <2>3. CASE z \in Globals
    <3>1. Value(rs[k], z) = z /\ Value(rs[j], z) = z
      BY <1>0, <1>3, <2>1, <2>3, ContextFacts
    <3> QED
      BY <2>2, <2>3, <3>1
  <2>4. CASE z \notin Globals
    <3> PICK y, m, g : y = rs[j] /\ m = stack[j].next /\ g = stack[k].fn
      OBVIOUS
    <3>1. /\ rs[k] = Entered(y, CallOf(j)) /\ CallOf(j) = OpAt(y, m) /\ m \in DOMAIN Ops(y.fn)
          /\ OpAt(y, m).op = "call" /\ OpAt(y, m).callee = g
      BY <1>0, <1>3, <2>1, CallOnStack DEF IsPath
    <3> DEFINE a == OpAt(y, m).args[ParamIndex(g, z)]
    <3>2. z \in Params(g)
      BY <1>3, <2>1, <2>2, <2>4
    <3>3. a \in Globals \cup Params(y.fn) /\ Value(rs[k], z) = Value(y, a)
      <4>1. y \in Contexts
        BY <1>3, <2>1
      <4>2. m \in DOMAIN Ops(y.fn) /\ OpAt(y, m).op = "call"
        BY <3>1
      <4>3. z \in Params(OpAt(y, m).callee)
        BY <3>1, <3>2
      <4>4. OpAt(y, m).args[ParamIndex(OpAt(y, m).callee, z)] \in Globals \cup Params(y.fn)
        BY <1>12, <4>1, <4>2, <4>3
      <4>5. Value(Entered(y, OpAt(y, m)), z)
               = Value(y, OpAt(y, m).args[ParamIndex(OpAt(y, m).callee, z)])
        BY <1>12, <4>1, <4>2, <4>3
      <4>6. Value(rs[k], z) = Value(Entered(y, OpAt(y, m)), z)
        BY <3>1
      <4>7. a = OpAt(y, m).args[ParamIndex(OpAt(y, m).callee, z)]
        BY <3>1
      <4> QED
        BY <4>4, <4>5, <4>6, <4>7
    <3>4. a \in dependency_hierarchy[z]
      BY <2>1, <3>1, <3>2 DEF PassedInv
    <3>5. a \in S
      BY <1>2, <3>4
    <3> HIDE DEF a
    <3> QED
      BY <2>2, <3>3, <3>5
  <2> QED
    BY <2>3, <2>4
<1>6. L - 1 \in T
  <2> HIDE DEF T
  <2>1. L - 1 \in Nat
    BY <1>0
  <2> QED
    BY <1>4, <1>5, <2>1, SetInduction
<1>7. L - 1 < L /\ L - (L - 1) = 1 /\ 1 \in 1 .. L
  BY <1>0
<1>8. IsAt(1)
  <2> HIDE DEF IsAt
  <2> QED
    BY <1>6, <1>7
<1>9. PICK z \in S : z \in Globals \cup Params(rs[1].fn) /\ Value(rs[1], z) = v
  BY <1>8
<1>10. Params(rs[1].fn) = {}
  BY <1>0, <1>3, <1>7, ShaderFacts DEF StackInv
<1>11. Value(rs[1], z) = z
  BY <1>0, <1>3, <1>7, <1>9, <1>10, ContextFacts
<1> QED
  BY <1>9, <1>11

LEMMA MarkIsDone ==
  ASSUME IInv, HierarchyInv, PassedInv, Next, ~AtEnd, IsUsage, MarkComparisons \/ UsageCall,
         \A y \in Executed : \A m \in DOMAIN Ops(y.fn) : DrefDone(y, m),
         NEW rs, IsPath(rs), NEW x, x = rs[Len(stack)], NEW n, n = Top.next
  PROVE MarkDone(x, n)'
<1>1. /\ OpAt(x, n) = Op /\ x.fn = Top.fn /\ x \in Executed /\ n \in DOMAIN Ops(x.fn)
      /\ x.fn \in Functions /\ shader \in Shaders
  BY PathAtOp DEF IInv, TableInv
<1>2. OpAt(x, n)' = OpAt(x, n) /\ PairAt(x, n)' = PairAt(x, n)
  BY NextUsesGrow, SameShader DEF UsesGrow
<1>3. ASSUME IsComparison(Op)
      PROVE PairAt(x, n)[1] \in comparison_ids' /\ PairAt(x, n)[2] \in comparison_ids'
  <2>1. MarkComparisons /\ Op.op = "sample"
    BY <1>3 DEF IsComparison, UsageCall, At
  <2>2. <<Top.fn, Top.next>> \in dref_combined_samplers
    BY <1>1, <1>3 DEF DrefDone
  <2>3. /\ Op.image \in Globals \cup Params(Top.fn)
        /\ Op.sampler \in Globals \cup Params(Top.fn) /\ SamplerOf(Op) = Op.sampler
    BY <1>1, <2>1, OperandFacts DEF OpAt
  <2>4. Value(x, Op.image) \in WithHierarchy(Op.image) /\ Value(x, Op.sampler) \in WithHierarchy(Op.sampler)
    BY <2>3, ValueIsReached
  <2>5. PairAt(x, n)[1] = Value(x, Op.image) /\ PairAt(x, n)[2] = Value(x, Op.sampler)
    BY <1>1, <2>3 DEF PairAt
  <2> QED
    BY <2>1, <2>2, <2>4, <2>5 DEF MarkComparisons
<1> QED
  BY <1>1, <1>2, <1>3 DEF MarkDone, IsComparison

LEMMA RunIsDone ==
  ASSUME IInv, Next, ~AtEnd, stage = "run", stage' # "thrown",
         NEW rs, IsPath(rs), NEW x, x = rs[Len(stack)], NEW n, n = Top.next
  PROVE RunDone(x, n)'
<1>1. /\ OpAt(x, n) = Op /\ x.fn = Top.fn /\ x \in Contexts /\ n \in DOMAIN Ops(x.fn)
      /\ \A id : Value(x, id) = Value(Top, id)
      /\ shader \in Shaders
  BY PathAtOp DEF IInv, TableInv
<1>2. /\ OpAt(x, n)' = OpAt(x, n) /\ PairAt(x, n)' = PairAt(x, n)
      /\ \A f : Params(f)' = Params(f)
      /\ \A y, o : Entered(y, o)' = Entered(y, o)
      /\ \A y, p : Value(y, p)' = Value(y, p)
  BY NextUsesGrow, SameShader DEF UsesGrow, Value
<1>3. DOMAIN Top.remap = Params(Top.fn)
  BY TopFacts DEF IInv, RemapInv
<1>4. CASE Op.op = "call"
  <2>1. RunCall
    BY <1>4, StageActions DEF Sample, At
  <2>2. bound' = bound \cup {<<p, Passed(Op.callee, Op.args)[p]>> : p \in Params(Op.callee)}
    BY <2>1 DEF RunCall
  <2>3. \A p \in Params(Op.callee) :
          Value(Entered(x, Op), p) = Value(x, Op.args[ParamIndex(Op.callee, p)])
    BY <1>1, <1>4, EnteredFacts
  <2>4. \A p \in Params(Op.callee) : Passed(Op.callee, Op.args)[p] = Value(Entered(x, Op), p)
    BY <1>1, <1>3, <2>3 DEF Passed, Value
  <2> QED
    BY <1>1, <1>2, <1>4, <2>2, <2>4 DEF RunDone
<1>5. CASE Op.op # "call"
  <2>1. Sample
    BY <1>5, StageActions DEF RunCall, At
  <2>2. Pair(Op.image, SamplerOf(Op)) = PairAt(x, n)
    BY <1>1, <1>3 DEF PairAt, Pair, Value
  <2>3. [spirv |-> Pair(Op.image, SamplerOf(Op)),
         emitted |-> to_combined_image_sampler(Op.image, SamplerOf(Op)),
         dref |-> IsComparison(Op)] \in sampled'
    BY <2>1 DEF Sample, IsComparison
  <2>4. \E t \in sampled' : t.spirv = PairAt(x, n) /\ t.dref = IsComparison(OpAt(x, n))
    BY <1>1, <2>2, <2>3
  <2> QED
    BY <1>1, <1>2, <1>5, <2>4 DEF RunDone, IsComparison
<1> QED
  BY <1>4, <1>5

\* A parameter is marked before the calls in its function are followed.
LEMMA PassIsDone ==
  ASSUME IInv, NEW s, IsWalked(s), \A y, m : Done(s, y, m) => PassDone(y, m),
         Next, ~AtEnd, MarkComparisons \/ UsageCall, Compared \subseteq comparison_ids,
         NEW rs, IsPath(rs), NEW x, x = rs[Len(stack)], NEW n, n = Top.next
  PROVE PassDone(x, n)'
<1>1. /\ OpAt(x, n) = Op /\ x.fn = Top.fn /\ x \in Contexts /\ x \in Executed /\ n \in DOMAIN Ops(x.fn)
      /\ x.fn \in Functions /\ shader \in Shaders /\ TableInv /\ StackIsASequence /\ StackInv
  BY PathAtOp DEF IInv, TableInv
<1>2. /\ OpAt(x, n)' = OpAt(x, n)
      /\ \A f : Params(f)' = Params(f)
      /\ \A y, o : Entered(y, o)' = Entered(y, o)
      /\ \A y, p : Value(y, p)' = Value(y, p)
      /\ Compared' = Compared
  BY NextUsesGrow, SameShader DEF UsesGrow, Value
<1>3. ASSUME Op.op = "call", NEW p \in Params(Op.callee), Value(Entered(x, Op), p) \in Compared
      PROVE p \in comparison_ids'
  <2> PICK a : a = Op.args[ParamIndex(Op.callee, p)]
    OBVIOUS
  <2>1. a \in Globals \cup Params(Top.fn) /\ Value(x, a) \in Compared
    BY <1>1, <1>3, EnteredFacts
  <2>2. UsageCall
    BY <1>3 DEF MarkComparisons, At
  <2>3. a \in comparison_ids
    <3>1. CASE a \in Globals
      <4>1. Value(x, a) = a
        BY <1>1, <3>1, ContextFacts
      <4> QED
        BY <2>1, <4>1
    <3>2. CASE a \notin Globals
      <4> PICK L, j : L = Len(stack) /\ j = Len(stack) - 1
        OBVIOUS
      <4>1. a \in Params(Top.fn)
        BY <2>1, <3>2
      <4>2. L \in Nat \ {0} /\ Top = stack[L]
        BY <1>1, TopFacts
      <4>3. L # 1
        BY <1>1, <4>1, <4>2, ShaderFacts DEF StackInv
      <4>4. j \in 1 .. L /\ j < L /\ j + 1 = L /\ L \in 1 .. L
        BY <4>2, <4>3
      <4> PICK y, m : y = rs[j] /\ m = stack[j].next
        OBVIOUS
      <4>5. y \in Executed /\ y.fn = stack[j].fn /\ x = Entered(y, CallOf(j))
        BY <4>4 DEF IsPath
      <4>6. /\ CallOf(j) = OpAt(y, m) /\ m \in DOMAIN Ops(y.fn) /\ OpAt(y, m).op = "call"
            /\ OpAt(y, m).callee = Top.fn
        BY <1>1, <4>2, <4>4, <4>5, CallOnStack
      <4>7. Done(s, y, m)
        BY <4>4, <4>5, <4>6 DEF IsWalked
      <4>8. PassDone(y, m)
        BY <4>7
      <4> QED
        BY <2>1, <4>1, <4>5, <4>6, <4>8 DEF PassDone
    <3> QED
      BY <3>1, <3>2
  <2>4. p \in {q \in Params(Op.callee) : Op.args[ParamIndex(Op.callee, q)] \in comparison_ids}
    BY <1>3, <2>3
  <2> QED
    BY <2>2, <2>4 DEF UsageCall
<1> QED
  BY <1>1, <1>2, <1>3 DEF PassDone

-----------------------------------------------------------------------------
LEMMA DoneIs ==
  /\ \A x, n : Done("combine", x, n) <=> CombineDone(x, n)
  /\ \A x, n : Done("dref", x, n) <=> DrefDone(x, n)
  /\ \A x, n : Done("usage", x, n) <=> MarkDone(x, n)
  /\ \A x, n : Done("usage again", x, n) <=> PassDone(x, n)
  /\ \A x, n : Done("run", x, n) <=> RunDone(x, n)
  BY Zenon DEF Done

LEMMA DoneIsNext ==
  /\ \A x, n : Done("combine", x, n)' <=> CombineDone(x, n)'
  /\ \A x, n : Done("dref", x, n)' <=> DrefDone(x, n)'
  /\ \A x, n : Done("usage", x, n)' <=> MarkDone(x, n)'
  /\ \A x, n : Done("usage again", x, n)' <=> PassDone(x, n)'
  /\ \A x, n : Done("run", x, n)' <=> RunDone(x, n)'
  BY Zenon DEF Done

\* A traversal goes on if what it does at the next instruction is in the tables.
LEMMA WalkGoes ==
  ASSUME IInv, Next, stage' # "thrown", NEW s, stage' = s,
         stage = s => IsWalked(s),
         stage = s /\ ~AtEnd =>
            \A rs, x, n : IsPath(rs) /\ x = rs[Len(stack)] /\ n = Top.next => Done(s, x, n)'
  PROVE IsWalked(s)'
<1>1. TableInv /\ StackIsASequence /\ StackInv /\ UsesGrow /\ shader' = shader
  BY NextUsesGrow DEF IInv, UsesGrow
<1>2. CASE Start(stage')
  <2>1. \E t : Start(t)
    <3>1. PICK t : t = stage'
      OBVIOUS
    <3> QED
      BY <1>2, <3>1 DEF Start
  <2> QED
    BY <1>1, <2>1, StartWalk
<1>3. ASSUME NEW kinds, At(kinds) PROVE ~AtEnd
  BY <1>1, <1>3, TopFacts DEF At, AtEnd
<1>4. CASE stage' = stage /\ Goes
  <2>1. stage = s /\ IsWalked(s)
    BY <1>4
  <2>2. CASE At({"sample", "fetch"}) /\ Advance
    BY <1>1, <1>3, <2>1, <2>2, AdvanceWalk
  <2>3. CASE At({"call"}) /\ \E r, c : Push(Frame(Op.callee, r, c))
    BY <1>1, <1>3, <2>1, <2>3, PushWalk
  <2>4. CASE Len(stack) > 1 /\ AtEnd /\ Return
    BY <1>1, <2>1, <2>4, ReturnWalk
  <2> QED
    BY <1>4, <2>2, <2>3, <2>4 DEF Goes
<1> QED
  BY <1>2, <1>4, NextGoes

\* All that is compared is marked by the first traversal of the uses.
LEMMA ComparedIsMarked ==
  ASSUME \A x \in Executed : \A n \in DOMAIN Ops(x.fn) : MarkDone(x, n)
  PROVE  Compared \subseteq comparison_ids
  BY DEF Compared, MarkDone

LEMMA AfterFacts ==
  /\ After("combine") = {"dref", "usage", "usage again", "run", "end"}
  /\ After("dref") = {"usage", "usage again", "run", "end"}
  /\ After("usage") = {"usage again", "run", "end"}
  /\ After("usage again") = {"run", "end"}
  /\ After("run") = {"end"}
  BY Zenon DEF After

LEMMA WalkStep ==
  ASSUME IInv, IInv', UsesInv, Next
  PROVE WalkInv'
<1>1. stage' # "thrown"
  BY DEF IInv, NeverThrows
<1>2. HierarchyInv /\ PassedInv /\ WalkInv /\ FinishedInv
  BY DEF UsesInv
<1>3. ASSUME stage' = "combine" PROVE IsWalked("combine")'
  <2>1. stage = "combine" => IsWalked("combine")
    BY <1>2, Zenon DEF WalkInv, Traversals
  <2>2. ASSUME stage = "combine", ~AtEnd, NEW rs, NEW x, NEW n, IsPath(rs), x = rs[Len(stack)], n = Top.next
        PROVE Done("combine", x, n)'
    BY <1>1, <2>2, CombineIsDone, DoneIsNext, Zenon
  <2> QED
    BY <1>1, <1>3, <2>1, <2>2, WalkGoes, Zenon
<1>4. ASSUME stage' = "dref" PROVE IsWalked("dref")'
  <2>1. stage = "dref" => IsWalked("dref")
    BY <1>2, Zenon DEF WalkInv, Traversals
  <2>2. ASSUME stage = "dref", ~AtEnd, NEW rs, NEW x, NEW n, IsPath(rs), x = rs[Len(stack)], n = Top.next
        PROVE Done("dref", x, n)'
    BY <2>2, DrefIsDone, DoneIsNext, Zenon
  <2> QED
    BY <1>1, <1>4, <2>1, <2>2, WalkGoes, Zenon
<1>5. ASSUME stage' = "usage" PROVE IsWalked("usage")'
  <2>1. stage = "usage" => IsWalked("usage")
    BY <1>2, Zenon DEF WalkInv, Traversals
  <2>2. ASSUME stage = "usage", ~AtEnd, NEW rs, NEW x, NEW n, IsPath(rs), x = rs[Len(stack)], n = Top.next
        PROVE Done("usage", x, n)'
    <3>1. IsUsage /\ (MarkComparisons \/ UsageCall)
      BY <2>2, StageActions, Zenon DEF IsUsage
    <3>2. \A y \in Executed : \A m \in DOMAIN Ops(y.fn) : DrefDone(y, m)
      <4>1. stage \in After("dref") /\ "dref" \in Traversals
        BY <2>2, AfterFacts, Zenon DEF Traversals
      <4> QED
        BY <1>2, <4>1, DoneIs, Zenon DEF FinishedInv
    <3>3. MarkDone(x, n)'
      BY <1>2, <2>2, <3>1, <3>2, MarkIsDone, Zenon
    <3> QED
      BY <3>3, DoneIsNext, Zenon
  <2> QED
    BY <1>1, <1>5, <2>1, <2>2, WalkGoes, Zenon
<1>6. ASSUME stage' = "usage again" PROVE IsWalked("usage again")'
  <2>1. stage = "usage again" => IsWalked("usage again")
    BY <1>2, Zenon DEF WalkInv, Traversals
  <2>2. ASSUME stage = "usage again", ~AtEnd, NEW rs, NEW x, NEW n, IsPath(rs), x = rs[Len(stack)],
               n = Top.next
        PROVE Done("usage again", x, n)'
    <3>1. MarkComparisons \/ UsageCall
      BY <2>2, StageActions, Zenon
    <3>2. \A y \in Executed : \A m \in DOMAIN Ops(y.fn) : MarkDone(y, m)
      <4>1. stage \in After("usage") /\ "usage" \in Traversals
        BY <2>2, AfterFacts, Zenon DEF Traversals
      <4> QED
        BY <1>2, <4>1, DoneIs, Zenon DEF FinishedInv
    <3>3. Compared \subseteq comparison_ids
      BY <3>2, ComparedIsMarked, Zenon
    <3>4. \A y, m : Done("usage again", y, m) => PassDone(y, m)
      BY DoneIs, Zenon
    <3>5. PassDone(x, n)'
      BY <2>1, <2>2, <3>1, <3>3, <3>4, PassIsDone, Zenon
    <3> QED
      BY <3>5, DoneIsNext, Zenon
  <2> QED
    BY <1>1, <1>6, <2>1, <2>2, WalkGoes, Zenon
<1>7. ASSUME stage' = "run" PROVE IsWalked("run")'
  <2>1. stage = "run" => IsWalked("run")
    BY <1>2, Zenon DEF WalkInv, Traversals
  <2>2. ASSUME stage = "run", ~AtEnd, NEW rs, NEW x, NEW n, IsPath(rs), x = rs[Len(stack)], n = Top.next
        PROVE Done("run", x, n)'
    BY <1>1, <2>2, RunIsDone, DoneIsNext, Zenon
  <2> QED
    BY <1>1, <1>7, <2>1, <2>2, WalkGoes, Zenon
<1> QED
  BY <1>3, <1>4, <1>5, <1>6, <1>7, Zenon DEF WalkInv, Traversals

LEMMA NextAfter ==
  ASSUME Next, stage' # "thrown", NEW s \in Traversals, stage' \in After(s)
  PROVE stage \in After(s) \/ (stage = s /\ Len(stack) = 1 /\ AtEnd)
<1>1. CASE NextStage
  <2>1. Len(stack) = 1 /\ AtEnd
    BY <1>1 DEF NextStage
  <2>2. \/ stage = "dummy" /\ stage' = "combine"
        \/ stage = "combine" /\ stage' = "dref"
        \/ stage = "dref" /\ stage' = "usage"
        \/ stage = "usage" /\ stage' = "usage again"
        \/ stage = "usage again" /\ stage' = "run"
        \/ stage = "run" /\ stage' = "end"
    BY <1>1, NextStageFacts, Zenon DEF Start
  <2>3. stage' # "combine"
    BY AfterFacts, Zenon DEF Traversals
  <2>4. CASE s = "combine"
    BY <2>1, <2>2, <2>3, <2>4, AfterFacts, Zenon
  <2>5. CASE s = "dref"
    BY <2>1, <2>2, <2>3, <2>5, AfterFacts, Zenon
  <2>6. CASE s = "usage"
    BY <2>1, <2>2, <2>3, <2>6, AfterFacts, Zenon
  <2>7. CASE s = "usage again"
    BY <2>1, <2>2, <2>3, <2>7, AfterFacts, Zenon
  <2>8. CASE s = "run"
    BY <2>1, <2>2, <2>3, <2>8, AfterFacts, Zenon
  <2> QED
    BY <2>4, <2>5, <2>6, <2>7, <2>8, Zenon DEF Traversals
<1>2. CASE FindDummy
  <2>1. stage' = stage \/ stage' = "combine"
    BY <1>2, Zenon DEF FindDummy, Start
  <2>2. stage' # "combine"
    BY AfterFacts, Zenon DEF Traversals
  <2> QED
    BY <2>1, <2>2, Zenon
<1>3. CASE ~NextStage /\ ~FindDummy
  <2>1. stage' = stage
    BY <1>3 DEF Next, Combine, CombineCall, CombineReturn, FindDref, MarkComparisons, UsageCall,
                Sample, RunCall, Call, FunctionReturn
  <2> QED
    BY <2>1, Zenon
<1> QED
  BY <1>1, <1>2, <1>3, Zenon

LEMMA FinishedStep ==
  ASSUME IInv, IInv', UsesInv, Next
  PROVE FinishedInv'
<1> SUFFICES ASSUME NEW s \in Traversals, stage' \in After(s), NEW x \in Executed, NEW n \in DOMAIN Ops(x.fn)
             PROVE Done(s, x, n)'
  <2>1. UsesGrow /\ shader' = shader
    BY NextUsesGrow DEF UsesGrow
  <2>2. Executed' = Executed /\ \A f : Ops(f)' = Ops(f)
    BY <2>1, SameShader
  <2> QED
    BY <2>2, Zenon DEF FinishedInv, After, Traversals
<1>1. UsesGrow /\ stage' # "thrown" /\ WalkInv /\ FinishedInv
  BY NextUsesGrow DEF IInv, NeverThrows, UsesInv
<1>2. Done(s, x, n)
  <2>1. CASE stage \in After(s)
    BY <1>1, <2>1, Zenon DEF FinishedInv
  <2>2. CASE stage = s /\ Len(stack) = 1 /\ AtEnd
    <3>1. IsWalked(s)
      BY <1>1, <2>2, Zenon DEF WalkInv
    <3>2. TableInv /\ StackIsASequence /\ StackInv
      BY DEF IInv
    <3> QED
      BY <2>2, <3>1, <3>2, WalkFinishes, Zenon
  <2> QED
    BY <1>1, <2>1, <2>2, NextAfter, Zenon
<1> QED
  BY <1>1, <1>2, GrowingKeepsDone, Zenon

LEMMA InitUsesInv == Init => UsesInv
<1> SUFFICES ASSUME Init PROVE UsesInv
  OBVIOUS
<1>1. /\ stage = "dummy" /\ combined_image_samplers = {} /\ dref_combined_samplers = {}
      /\ dependency_hierarchy = [x \in Ids |-> {}] /\ comparison_ids = {} /\ bound = {} /\ sampled = {}
  BY DEF Init, NoDependencies
<1>2. HierarchyInv
  BY <1>1 DEF HierarchyInv
<1>3. PairsInv /\ DrefInv /\ MarkInv /\ SampledInv /\ BoundInv
  BY <1>1 DEF PairsInv, DrefInv, MarkInv, SampledInv, BoundInv
<1>4. PassedInv
  BY <1>1, Zenon DEF PassedInv, IsUsage
<1>5. WalkInv /\ FinishedInv
  BY <1>1, Zenon DEF WalkInv, FinishedInv, Traversals, After
<1> QED
  BY <1>2, <1>3, <1>4, <1>5 DEF UsesInv

LEMMA StutterUsesInv ==
  ASSUME UsesInv, UNCHANGED vars
  PROVE  UsesInv'
<1>1. /\ shader' = shader /\ stage' = stage /\ stack' = stack
      /\ combined_image_samplers' = combined_image_samplers
      /\ dref_combined_samplers' = dref_combined_samplers
      /\ dependency_hierarchy' = dependency_hierarchy /\ comparison_ids' = comparison_ids
      /\ bound' = bound /\ sampled' = sampled
  BY DEF vars, combining, usage, execution
<1>2. UsesGrow
  BY <1>1 DEF UsesGrow
<1>3. /\ \A f : Ops(f)' = Ops(f) /\ Params(f)' = Params(f)
      /\ \A f, id : ParamIndex(f, id)' = ParamIndex(f, id)
      /\ Executed' = Executed /\ ComparedIds' = ComparedIds
      /\ \A x, o : Entered(x, o)' = Entered(x, o)
      /\ \A x, n : OpAt(x, n)' = OpAt(x, n) /\ PairAt(x, n)' = PairAt(x, n)
      /\ \A c : IsExecutedPair(c)' = IsExecutedPair(c)
  BY <1>1, SameShader
<1>4. /\ \A s, x, n : Done(s, x, n) => Done(s, x, n)'
      /\ \A s, x : IsFinished(s, x) => IsFinished(s, x)'
  BY <1>2, GrowingKeepsDone
<1>5. HierarchyInv'
  BY <1>1, <1>3 DEF UsesInv, HierarchyInv, IsDependency
<1>6. PairsInv' /\ MarkInv'
  BY <1>1, <1>3 DEF UsesInv, PairsInv, MarkInv
<1>7. DrefInv'
  BY <1>1, <1>3 DEF UsesInv, DrefInv, IsComparison
<1>8. SampledInv'
  BY <1>1, <1>3 DEF UsesInv, SampledInv, IsComparison
<1>9. BoundInv'
  BY <1>1, <1>3 DEF UsesInv, BoundInv, Value
<1>10. \A k : CallOf(k)' = CallOf(k)
  BY <1>1, <1>3 DEF CallOf
<1>11. PassedInv'
  BY <1>1, <1>3, <1>10, Zenon DEF UsesInv, PassedInv, IsUsage
<1>12. WalkInv'
  <2>1. \A rs : IsPath(rs)' => IsPath(rs)
    BY <1>1, <1>3, <1>10 DEF IsPath
  <2>2. \A s : IsWalked(s) => IsWalked(s)'
    BY <1>1, <1>3, <1>4, <2>1, Zenon DEF IsWalked
  <2> QED
    BY <1>1, <2>2, Zenon DEF UsesInv, WalkInv, Traversals
<1>13. FinishedInv'
  BY <1>1, <1>3, <1>4, Zenon DEF UsesInv, FinishedInv, Traversals, After
<1> QED
  BY <1>5, <1>6, <1>7, <1>8, <1>9, <1>11, <1>12, <1>13, Zenon DEF UsesInv

LEMMA StepUsesInv == IInv /\ IInv' /\ UsesInv /\ [Next]_vars => UsesInv'
<1> SUFFICES ASSUME IInv, IInv', UsesInv, [Next]_vars PROVE UsesInv'
  OBVIOUS
<1>1. CASE Next
  <2>1. HierarchyInv' /\ PairsInv' /\ DrefInv' /\ MarkInv' /\ SampledInv' /\ BoundInv' /\ PassedInv'
    BY <1>1, HierarchyStep, PairsStep, DrefStep, MarkStep, SampledStep, BoundStep, PassedStep, Zenon
       DEF UsesInv
  <2>2. WalkInv' /\ FinishedInv'
    BY <1>1, WalkStep, FinishedStep, Zenon
  <2> QED
    BY <2>1, <2>2, Zenon DEF UsesInv
<1>2. CASE UNCHANGED vars
  BY <1>2, StutterUsesInv, Zenon
<1> QED
  BY <1>1, <1>2

(***************************************************************************)
(* The inductive invariant of the tables: all they hold happens in a       *)
(* context which is executed (PairsInv, MarkInv, SampledInv, BoundInv),    *)
(* and what happens in the contexts a traversal went through is in them    *)
(* (WalkInv, FinishedInv).                                                 *)
(***************************************************************************)
THEOREM UsesInductiveInvariant == Spec => [](IInv /\ UsesInv)
<1>1. Init => UsesInv
  BY InitUsesInv
<1>2. IInv /\ IInv' /\ UsesInv /\ [Next]_vars => UsesInv'
  BY StepUsesInv
<1> QED
  BY <1>1, <1>2, InductiveInvariant, PTL DEF Spec

(***************************************************************************)
(* For every shader, the uniforms reported to the application are exactly  *)
(* the pairs of an image and a sampler which the shader samples.           *)
(***************************************************************************)
THEOREM ListsAreExact == Spec => []ListedPairsAreSampled
<1>1. ASSUME IInv, UsesInv PROVE ListedPairsAreSampled
  <2> SUFFICES ASSUME stage = "end"
               PROVE  combined_image_samplers = {s.spirv : s \in sampled}
    BY DEF ListedPairsAreSampled
  <2>1. PairsInv /\ SampledInv /\ FinishedInv
    BY <1>1 DEF UsesInv
  <2>2. \A x \in Executed : \A n \in DOMAIN Ops(x.fn) : CombineDone(x, n) /\ RunDone(x, n)
    <3>1. /\ stage \in After("combine") /\ stage \in After("run")
          /\ "combine" \in Traversals /\ "run" \in Traversals
      BY AfterFacts, Zenon DEF Traversals
    <3> QED
      BY <2>1, <3>1, DoneIs, Zenon DEF FinishedInv
  <2>3. ASSUME NEW c \in combined_image_samplers PROVE \E s \in sampled : s.spirv = c
    <3>1. PICK x \in Executed : \E n \in DOMAIN Ops(x.fn) : OpAt(x, n).op # "call" /\ c = PairAt(x, n)
      BY <2>1, <2>3 DEF PairsInv, IsExecutedPair
    <3> QED
      BY <2>2, <3>1 DEF RunDone
  <2>4. ASSUME NEW s \in sampled PROVE s.spirv \in combined_image_samplers
    BY <2>1, <2>2, <2>4 DEF SampledInv, CombineDone
  <2> QED
    BY <2>3, <2>4
<1> QED
  BY <1>1, UsesInductiveInvariant, PTL

-----------------------------------------------------------------------------
\* The shader which was written has been executed to its end.
LEMMA EndFacts ==
  ASSUME UsesInv, stage = "end"
  PROVE \A x \in Executed : \A n \in DOMAIN Ops(x.fn) :
           CombineDone(x, n) /\ MarkDone(x, n) /\ PassDone(x, n) /\ RunDone(x, n)
<1>1. /\ stage \in After("combine") /\ stage \in After("usage")
      /\ stage \in After("usage again") /\ stage \in After("run")
      /\ "combine" \in Traversals /\ "usage" \in Traversals
      /\ "usage again" \in Traversals /\ "run" \in Traversals
  BY AfterFacts, Zenon DEF Traversals
<1>2. FinishedInv
  BY Zenon DEF UsesInv
<1> QED
  BY <1>1, <1>2, DoneIs, Zenon DEF FinishedInv

LEMMA ComparedFacts ==
  ASSUME IInv, UsesInv, stage = "end"
  PROVE  UNION {{s.spirv[1], s.spirv[2]} : s \in {t \in sampled : t.dref}} = Compared
<1>0. shader \in Shaders /\ SampledInv
  BY DEF IInv, TableInv, UsesInv
<1>1. ASSUME NEW t \in sampled, t.dref PROVE t.spirv[1] \in Compared /\ t.spirv[2] \in Compared
  <2>1. PICK x \in Executed : \E n \in DOMAIN Ops(x.fn) :
           /\ OpAt(x, n).op # "call"
           /\ t.spirv = PairAt(x, n) /\ t.dref = IsComparison(OpAt(x, n))
    BY <1>0, <1>1 DEF SampledInv
  <2>2. PICK n \in DOMAIN Ops(x.fn) :
           /\ OpAt(x, n).op # "call"
           /\ t.spirv = PairAt(x, n) /\ t.dref = IsComparison(OpAt(x, n))
    BY <2>1
  <2>3. IsComparison(OpAt(x, n)) /\ OpAt(x, n).op = "sample"
    BY <1>1, <2>2 DEF IsComparison
  <2>4. x \in Contexts /\ x.fn \in Functions
    BY <1>0, ExecutedFacts, ContextFacts
  <2>5. /\ OpAt(x, n).image \in Globals \cup Params(x.fn)
        /\ SamplerOf(OpAt(x, n)) \in Globals \cup Params(x.fn)
    BY <1>0, <2>2, <2>3, <2>4, OperandFacts DEF OpAt
  <2>6. PairAt(x, n)[1] \in Globals /\ PairAt(x, n)[2] \in Globals
    BY <1>0, <2>4, <2>5, ContextFacts DEF PairAt
  <2> QED
    BY <2>2, <2>3, <2>6 DEF Compared
<1>2. ASSUME NEW g \in Compared
      PROVE \E t \in sampled : t.dref /\ (g = t.spirv[1] \/ g = t.spirv[2])
  <2>1. PICK x \in Executed : \E n \in DOMAIN Ops(x.fn) :
           IsComparison(OpAt(x, n)) /\ (g = PairAt(x, n)[1] \/ g = PairAt(x, n)[2])
    BY <1>2 DEF Compared
  <2>2. PICK n \in DOMAIN Ops(x.fn) :
           IsComparison(OpAt(x, n)) /\ (g = PairAt(x, n)[1] \/ g = PairAt(x, n)[2])
    BY <2>1
  <2>3. RunDone(x, n)
    BY <2>2, EndFacts, Zenon
  <2>4. OpAt(x, n).op # "call"
    BY <2>2 DEF IsComparison
  <2> QED
    BY <2>2, <2>3, <2>4 DEF RunDone
<1> QED
  BY <1>1, <1>2

LEMMA BoundFacts ==
  ASSUME IInv, UsesInv, stage = "end"
  PROVE  bound = UNION {{<<p, Value(x, p)>> : p \in Params(x.fn)} : x \in Executed}
<1>0. shader \in Shaders /\ BoundInv
  BY DEF IInv, TableInv, UsesInv
<1>1. ASSUME NEW x \in Executed, NEW p \in Params(x.fn) PROVE <<p, Value(x, p)>> \in bound
  <2>1. x # MainContext
    BY <1>0, <1>1, ShaderFacts, ExecutedFacts
  <2>2. PICK y \in Executed : \E n \in DOMAIN Ops(y.fn) : OpAt(y, n).op = "call" /\ x = Entered(y, OpAt(y, n))
    BY <1>0, <2>1, ExecutedCalls
  <2>3. PICK n \in DOMAIN Ops(y.fn) : OpAt(y, n).op = "call" /\ x = Entered(y, OpAt(y, n))
    BY <2>2
  <2>4. x.fn = OpAt(y, n).callee
    BY <1>0, <2>3, EnteredFacts, ExecutedFacts
  <2>5. RunDone(y, n)
    BY EndFacts, Zenon
  <2> QED
    BY <1>1, <2>3, <2>4, <2>5 DEF RunDone
<1> QED
  BY <1>0, <1>1 DEF BoundInv

\* The ids which are marked are those which are compared.
LEMMA MarkedFacts ==
  ASSUME IInv, UsesInv, stage = "end"
  PROVE  comparison_ids = ComparedIds
<1>0. shader \in Shaders /\ MarkInv
  BY DEF IInv, TableInv, UsesInv
<1>1. Compared \subseteq comparison_ids
  BY EndFacts, ComparedIsMarked, Zenon
<1>2. ASSUME NEW p \in Parameters, NEW x \in Executed, p \in Params(x.fn), Value(x, p) \in Compared
      PROVE  p \in comparison_ids
  <2>1. x # MainContext
    BY <1>0, <1>2, ShaderFacts, ExecutedFacts
  <2>2. PICK y \in Executed : \E n \in DOMAIN Ops(y.fn) : OpAt(y, n).op = "call" /\ x = Entered(y, OpAt(y, n))
    BY <1>0, <2>1, ExecutedCalls
  <2>3. PICK n \in DOMAIN Ops(y.fn) : OpAt(y, n).op = "call" /\ x = Entered(y, OpAt(y, n))
    BY <2>2
  <2>4. x.fn = OpAt(y, n).callee
    BY <1>0, <2>3, EnteredFacts, ExecutedFacts
  <2>5. PassDone(y, n)
    BY EndFacts, Zenon
  <2> QED
    BY <1>2, <2>3, <2>4, <2>5 DEF PassDone
<1> QED
  BY <1>0, <1>1, <1>2 DEF MarkInv, ComparedIds

(***************************************************************************)
(* For every shader, the ids declared for comparisons are the resources a  *)
(* comparison uses and the parameters they are passed for, and every       *)
(* combined sampler a comparison of the text uses is a shadow sampler.     *)
(***************************************************************************)
THEOREM ComparisonsAreExact == Spec => []ComparisonIsExact
<1>1. ASSUME IInv, UsesInv PROVE ComparisonIsExact
  <2> SUFFICES ASSUME stage = "end"
               PROVE  /\ comparison_ids = Compared \cup {b[1] : b \in {c \in bound : c[2] \in Compared}}
                      /\ {s.emitted : s \in {t \in sampled : t.dref}} \subseteq ShadowPairs
    BY <1>1, ComparedFacts DEF ComparisonIsExact
  <2>0. shader \in Shaders /\ SampledInv /\ SamplesTheRightPair
    BY <1>1 DEF IInv, TableInv, UsesInv
  <2>1. comparison_ids = Compared \cup {b[1] : b \in {c \in bound : c[2] \in Compared}}
    <3>1. \A b \in bound : \E x \in Executed : \E p \in Params(x.fn) : b = <<p, Value(x, p)>>
      BY <1>1 DEF UsesInv, BoundInv
    <3>2. \A x \in Executed : \A p \in Params(x.fn) : <<p, Value(x, p)>> \in bound /\ p \in Parameters
      <4>1. \A x \in Executed : x.fn \in Functions
        BY <2>0, ExecutedFacts, ContextFacts
      <4> QED
        BY <1>1, <2>0, <4>1, BoundFacts, ShaderFacts
    <3>3. ASSUME NEW b \in bound, b[2] \in Compared PROVE b[1] \in ComparedIds
      BY <3>1, <3>2, <3>3 DEF ComparedIds
    <3>4. ASSUME NEW q \in ComparedIds, q \notin Compared
          PROVE \E b \in bound : b[2] \in Compared /\ q = b[1]
      <4>1. PICK x \in Executed : q \in Params(x.fn) /\ Value(x, q) \in Compared
        BY <3>4 DEF ComparedIds
      <4>2. <<q, Value(x, q)>> \in bound
        BY <3>2, <4>1
      <4> QED
        BY <4>1, <4>2
    <3>5. Compared \subseteq ComparedIds
      BY DEF ComparedIds
    <3>6. comparison_ids = ComparedIds
      BY <1>1, MarkedFacts
    <3> QED
      BY <3>3, <3>4, <3>5, <3>6
  <2>2. ASSUME NEW s \in sampled, s.dref PROVE s.emitted \in ShadowPairs
    <3>1. PICK x \in Executed : \E n \in DOMAIN Ops(x.fn) :
             /\ OpAt(x, n).op # "call"
             /\ s.spirv = PairAt(x, n) /\ s.dref = IsComparison(OpAt(x, n))
      BY <2>0, <2>2 DEF SampledInv
    <3>2. PICK n \in DOMAIN Ops(x.fn) :
             /\ OpAt(x, n).op # "call"
             /\ s.spirv = PairAt(x, n) /\ s.dref = IsComparison(OpAt(x, n))
      BY <3>1
    <3>3. CombineDone(x, n) /\ MarkDone(x, n)
      BY <1>1, EndFacts, Zenon
    <3>4. s.emitted = PairAt(x, n)
      BY <2>0, <2>2, <3>2 DEF SamplesTheRightPair
    <3> QED
      BY <2>2, <3>2, <3>3, <3>4 DEF CombineDone, MarkDone, ShadowPairs
  <2> QED
    BY <2>1, <2>2
<1> QED
  BY <1>1, UsesInductiveInvariant, PTL

-----------------------------------------------------------------------------
(* The types of the tables. *)

\* A combined parameter names an image of the module or of its function.
ImagesInv ==
    \A f \in Functions : \A c \in combined_parameters[f] : c.global_image => c.image_id \in Globals

RemapSet == {Empty} \cup UNION {[Params(f) -> Globals] : f \in Functions}
CombinedSet ==
    {Empty} \cup UNION {[combined_parameters[f] -> Globals \X (Globals \cup {Dummy})] : f \in Functions}

IsTyped(F) ==
    /\ F.remap \in RemapSet /\ F.combined \in CombinedSet
    /\ stage # "run" => F.combined = Empty

FramesInv == \A k \in 1 .. Len(stack) : IsTyped(stack[k])

\* What is registered is an image which the function can name.
LEMMA RegisteredImage ==
  ASSUME NEW f, NEW i, NEW s, i \in Globals \cup Params(f),
         NEW c \in register_combined_image_sampler(f, i, s)
  PROVE  c.global_image => c.image_id \in Globals
<1>1. c = CombinedParameter(f, i, s)
  BY DEF register_combined_image_sampler
<1>2. c.global_image = (i \notin Params(f)) /\ c.image_id = IF i \in Params(f) THEN ParamIndex(f, i) ELSE i
  BY <1>1 DEF CombinedParameter
<1> QED
  BY <1>2

LEMMA ImagesStep ==
  ASSUME IInv, ImagesInv, Next
  PROVE ImagesInv'
<1>0. TableInv /\ StackIsASequence /\ StackInv /\ KeysInv /\ shader \in Shaders
  BY DEF IInv, TableInv
<1>1. CASE Combine
  <2>1. Op.op # "call" /\ Op = Ops(Top.fn)[Top.next] /\ Top.fn \in Functions
        /\ Top.next \in DOMAIN Ops(Top.fn)
    BY <1>0, <1>1, TopFacts DEF Combine, At, Op
  <2>2. Op.image \in Globals \cup Params(Top.fn)
    BY <1>0, <2>1, OperandFacts
  <2>3. \A c \in register_combined_image_sampler(Top.fn, Op.image, SamplerOf(Op)) :
           c.global_image => c.image_id \in Globals
    BY <2>2, RegisteredImage
  <2>4. \A f \in Functions : \A c \in combined_parameters'[f] :
           \/ c \in combined_parameters[f]
           \/ c \in register_combined_image_sampler(Top.fn, Op.image, SamplerOf(Op))
    BY <1>0, <1>1 DEF Combine, combining, TableInv
  <2> QED
    BY <2>3, <2>4 DEF ImagesInv
<1>2. CASE CombineReturn
  <2>0. Len(stack) > 1
    BY <1>2 DEF CombineReturn
  <2> PICK o : o = Ops(Caller.fn)[Caller.next]
    OBVIOUS
  <2>1. /\ Caller.fn \in Functions /\ Caller.next \in DOMAIN Ops(Caller.fn)
        /\ o.op = "call" /\ o.callee = Top.fn /\ Top.fn \in Functions
    BY <1>0, <2>0, CallerFacts, TopFacts
  <2>2. \A p \in Params(Top.fn) : o.args[ParamIndex(Top.fn, p)] \in Globals \cup Params(Caller.fn)
    BY <1>0, <2>1, InstructionFacts
  <2>3. ASSUME NEW d \in combined_parameters[Top.fn]
        PROVE  ImageOf(d, o.args) \in Globals \cup Params(Caller.fn)
    <3>1. CASE d.global_image
      BY <2>1, <3>1 DEF ImagesInv, ImageOf
    <3>2. CASE ~d.global_image
      <4>1. \E i, s : d = CombinedParameter(Top.fn, i, s)
        BY <1>0, <2>1 DEF KeysInv
      <4>2. PICK i, s : d = CombinedParameter(Top.fn, i, s)
        BY <4>1
      <4>3. i \in Params(Top.fn) /\ d.image_id = ParamIndex(Top.fn, i)
        BY <3>2, <4>2 DEF CombinedParameter
      <4> QED
        BY <2>2, <3>2, <4>3 DEF ImageOf
    <3> QED
      BY <3>1, <3>2
  <2>4. \A c \in Propagated(Caller.fn, Top.fn, o.args) : c.global_image => c.image_id \in Globals
    BY <2>3, RegisteredImage DEF Propagated
  <2>5. \A f \in Functions : \A c \in combined_parameters'[f] :
           c \in combined_parameters[f] \/ c \in Propagated(Caller.fn, Top.fn, o.args)
    BY <1>0, <1>2 DEF CombineReturn, TableInv
  <2> QED
    BY <2>4, <2>5 DEF ImagesInv
<1>3. CASE ~Combine /\ ~CombineReturn
  <2>1. combined_parameters' = combined_parameters
    BY <1>3 DEF Next, FindDummy, CombineCall, FindDref, MarkComparisons, UsageCall,
         Sample, RunCall, Call, FunctionReturn, NextStage, combining
  <2> QED
    BY <2>1 DEF ImagesInv
<1> QED
  BY <1>1, <1>2, <1>3

\* The globals which a call passes
LEMMA PassedIsTyped ==
  ASSUME IInv, At({"call"}), stage = "combine" \/ stage = "run"
  PROVE /\ push_remap_parameters(Op.callee, Op.args) \in RemapSet
        /\ Passed(Op.callee, Op.args) \in [Params(Op.callee) -> Globals]
        /\ Passed(Op.callee, Op.args) \in RemapSet
        /\ Op.callee \in Functions
<1>1. PICK x \in Executed : /\ x.fn = Top.fn /\ x.fn \in Functions /\ Top.next \in DOMAIN Ops(x.fn)
                            /\ OpAt(x, Top.next) = Op
                            /\ \A id : Value(x, id) = Value(Top, id)
  BY CurrentContext
<1>2. Op.op = "call" /\ shader \in Shaders
  BY DEF At, IInv, TableInv
<1>3. x \in Contexts /\ DOMAIN Top.remap = Params(Top.fn)
  BY <1>2, TopFacts, ExecutedFacts DEF IInv, RemapInv
<1>4. /\ Op.callee \in Functions
      /\ \A p \in Params(Op.callee) : Op.args[ParamIndex(Op.callee, p)] \in Globals \cup Params(x.fn)
  BY <1>1, <1>2, <1>3, EnteredFacts
<1>5. \A p \in Params(Op.callee) : Value(Top, Op.args[ParamIndex(Op.callee, p)]) \in Globals
  BY <1>1, <1>2, <1>3, <1>4, ContextFacts
<1>6. push_remap_parameters(Op.callee, Op.args) \in [Params(Op.callee) -> Globals]
  BY <1>5 DEF push_remap_parameters, remap_parameter, Value
<1>7. Passed(Op.callee, Op.args) \in [Params(Op.callee) -> Globals]
  BY <1>3, <1>5 DEF Passed, Value
<1> QED
  BY <1>4, <1>6, <1>7 DEF RemapSet

\* The combined samplers which a call passes
LEMMA CombinedIsTyped ==
  ASSUME IInv, IInv', ImagesInv, RunCall, stage' # "thrown",
         NEW r, NEW c, Push(Frame(Op.callee, r, c))
  PROVE  r \in RemapSet /\ c \in CombinedSet /\ combined_parameters' = combined_parameters /\ stage' = "run"
<1> PICK g, args : g = Op.callee /\ args = Op.args
  OBVIOUS
<1> DEFINE m == [d \in combined_parameters[g] |->
                    to_combined_image_sampler(ImageOf(d, args), CombinedSamplerOf(d, args))]
<1>1. /\ stage = "run" /\ stage' = "run" /\ At({"call"}) /\ shader' = shader
      /\ combined_parameters' = combined_parameters /\ Push(Frame(g, Passed(g, args), m))
  BY DEF RunCall, combining
<1> HIDE DEF m
<1>2. Passed(g, args) \in RemapSet /\ Passed(g, args) \in [Params(g) -> Globals] /\ g \in Functions
  BY <1>1, PassedIsTyped
<1>3. StackIsASequence /\ StackIsASequence' /\ Len(stack) > 0 /\ KeysInv /\ RunInv' /\ shader \in Shaders
  BY DEF IInv, StackInv, TableInv
<1> PICK F : F = Frame(g, Passed(g, args), m)
  OBVIOUS
<1>4. F.fn = g /\ F.remap = Passed(g, args) /\ F.combined = m
  BY DEF Frame
<1>5. Len(stack') = Len(stack) + 1 /\ Len(stack) \in Nat /\ stack'[Len(stack')] = F
  BY <1>1, <1>2, <1>3, PushFacts
<1>6. stack'[Len(stack')] = Frame(g, r, c)
  BY <1>2, <1>3, PushFacts
<1>7. r = Passed(g, args) /\ c = m
  BY <1>4, <1>5, <1>6 DEF Frame
<1>8. CombinedIsRight(F)
  <2> PICK k : k = Len(stack')
    OBVIOUS
  <2>0. k \in 1 .. Len(stack') /\ stack'[k] = F
    BY <1>5
  <2>1. CombinedIsRight(stack[k])'
    BY <1>1, <1>3, <2>0 DEF RunInv
  <2>2. CombinedIsRight(F)'
    BY <2>0, <2>1 DEF CombinedIsRight
  <2>3. /\ \A f : Visible(f)' = Visible(f)
        /\ \A f, i, s : CombinedParameter(f, i, s)' = CombinedParameter(f, i, s)
        /\ Value(F, c)' = Value(F, c)
    BY <1>1, SameShader DEF Visible, CombinedParameter, Value
  <2>4. \A i : Value(F, i)' = Value(F, i)
    BY DEF Value
  <2> QED
    BY <1>1, <2>2, <2>3, <2>4 DEF CombinedIsRight
<1>9. \A d \in combined_parameters[g] : m[d] \in Globals \X (Globals \cup {Dummy})
  <2> SUFFICES ASSUME NEW d \in combined_parameters[g]
               PROVE  m[d] \in Globals \X (Globals \cup {Dummy})
    OBVIOUS
  <2>1. PICK n \in DOMAIN Ops(g) : \E x \in Needs(g, n) :
             x[1] \in Visible(g) /\ x[2] \in Visible(g) /\ d = CombinedParameter(g, x[1], x[2])
    BY <1>2, <1>3 DEF KeysInv
  <2>2. PICK i \in Visible(g), s \in Visible(g) : d = CombinedParameter(g, i, s)
    BY <2>1
  <2>3. m[d] = <<Value(F, i), Value(F, s)>>
    BY <1>4, <1>8, <2>2 DEF CombinedIsRight
  <2>4. i \in Globals \cup Params(g)
    BY <1>2, <2>2 DEF ImagesInv, CombinedParameter
  <2>5. s \in Globals \cup Params(g) \cup {Dummy}
    BY DEF Visible
  <2>6. \A id : id \in Params(g) => Value(F, id) \in Globals
    BY <1>2, <1>4 DEF Value
  <2>7. \A id : id \notin Params(g) => Value(F, id) = id
    BY <1>2, <1>4 DEF Value
  <2> QED
    BY <2>3, <2>4, <2>5, <2>6, <2>7
<1>10. m \in [combined_parameters[g] -> Globals \X (Globals \cup {Dummy})]
  BY <1>9 DEF m
<1>11. m \in CombinedSet
  BY <1>2, <1>10 DEF CombinedSet
<1> QED
  BY <1>1, <1>2, <1>7, <1>11

LEMMA FramesStep ==
  ASSUME IInv, IInv', ImagesInv, FramesInv, Next
  PROVE FramesInv'
<1>0. TableInv /\ StackIsASequence /\ StackInv /\ stage' # "thrown" /\ Len(stack) \in Nat \ {0}
  BY TopFacts DEF IInv, NeverThrows
<1>1. shader' = shader /\ \A f : Params(f)' = Params(f)
  BY NextUsesGrow, SameShader DEF UsesGrow
<1>2. RemapSet' = RemapSet
  BY <1>1 DEF RemapSet, Empty
<1>3. Empty \in RemapSet /\ Empty \in CombinedSet /\ Empty \in CombinedSet'
  <2>1. Empty' = Empty
    BY DEF Empty
  <2>2. Empty \in RemapSet /\ Empty \in CombinedSet
    BY Zenon DEF RemapSet, CombinedSet
  <2>3. Empty' \in CombinedSet'
    BY Zenon DEF CombinedSet
  <2> QED
    BY <2>1, <2>2, <2>3
<1>4. stage = "run" => combined_parameters' = combined_parameters
  BY Zenon DEF Next, FindDummy, Combine, CombineCall, CombineReturn, FindDref, MarkComparisons, UsageCall,
         Sample, RunCall, Call, FunctionReturn, NextStage, combining
<1>5. combined_parameters' = combined_parameters => CombinedSet' = CombinedSet
  BY DEF CombinedSet, Empty
\* A frame which is typed stays so while the traversal goes on.
<1>6. ASSUME NEW F, stage' = stage, IsTyped(F) PROVE IsTyped(F)'
  <2>1. CASE stage = "run"
    BY <1>2, <1>4, <1>5, <1>6, <2>1 DEF IsTyped
  <2>2. CASE stage # "run"
    BY <1>2, <1>3, <1>6, <2>2 DEF IsTyped
  <2> QED
    BY <2>1, <2>2
<1>7. ASSUME stage' = stage, NEW k, NEW j \in 1 .. Len(stack),
             stack'[k].remap = stack[j].remap, stack'[k].combined = stack[j].combined
      PROVE  IsTyped(stack[k])'
  <2>1. IsTyped(stack[j])
    BY DEF FramesInv
  <2> PICK F : F = stack[j]
    OBVIOUS
  <2>2. IsTyped(F)'
    BY <1>6, <1>7, <2>1
  <2> QED
    BY <1>7, <2>2 DEF IsTyped
<1>8. CASE Start(stage')
  <2>0. \E t : Start(t)
    <3>1. PICK t : t = stage'
      OBVIOUS
    <3> QED
      BY <1>8, <3>1 DEF Start
  <2>1. Len(stack') = 1 /\ stack'[1] = Frame(Main, Empty, Empty)
    BY <2>0, StartFacts
  <2>2. \A k \in 1 .. Len(stack') : k = 1
    BY <2>1
  <2>3. stack'[1].remap = Empty /\ stack'[1].combined = Empty
    BY <2>1 DEF Frame
  <2>4. Empty' = Empty
    BY DEF Empty
  <2>5. IsTyped(stack[1])'
    BY <1>2, <1>3, <2>3, <2>4 DEF IsTyped
  <2> QED
    BY <2>2, <2>5 DEF FramesInv
<1>9. ASSUME stage' = stage, At({"call"}), NEW r, NEW c, Push(Frame(Op.callee, r, c))
      PROVE  FramesInv'
  <2>1. Op.callee \in Functions
    <3>1. Top.next \in DOMAIN Ops(Top.fn) /\ Op = Ops(Top.fn)[Top.next] /\ Op.op = "call"
          /\ Top.fn \in Functions
      BY <1>0, <1>9, TopFacts DEF At, Op
    <3> QED
      BY <1>0, <3>1, InstructionFacts DEF TableInv
  <2>2. /\ Len(stack') = Len(stack) + 1
        /\ \A k \in 1 .. Len(stack) : stack'[k] = stack[k]
        /\ stack'[Len(stack')] = Frame(Op.callee, r, c)
    BY <1>0, <1>9, <2>1, PushFacts
  <2> PICK l : l = Len(stack')
    OBVIOUS
  <2>3. stack'[l].remap = r /\ stack'[l].combined = c
    BY <2>2 DEF Frame
  <2>4. r \in RemapSet /\ c \in CombinedSet' /\ (stage' # "run" => c = Empty)
    <3>1. CASE CombineCall
      <4>1. stage = "combine" /\ Push(Frame(Op.callee, push_remap_parameters(Op.callee, Op.args), Empty))
        BY <3>1 DEF CombineCall
      <4>2. push_remap_parameters(Op.callee, Op.args) \in RemapSet
        BY <1>9, <4>1, PassedIsTyped
      <4>3. stack'[Len(stack')] = Frame(Op.callee, push_remap_parameters(Op.callee, Op.args), Empty)
        BY <1>0, <2>1, <4>1, PushFacts
      <4>4. r = push_remap_parameters(Op.callee, Op.args) /\ c = Empty
        BY <2>2, <4>3 DEF Frame
      <4> QED
        BY <1>3, <4>2, <4>4
    <3>2. CASE UsageCall \/ Call
      <4>1. Push(Frame(Op.callee, Empty, Empty))
        BY <3>2 DEF UsageCall, Call
      <4>2. stack'[Len(stack')] = Frame(Op.callee, Empty, Empty)
        BY <1>0, <2>1, <4>1, PushFacts
      <4>3. r = Empty /\ c = Empty
        BY <2>2, <4>2 DEF Frame
      <4> QED
        BY <1>3, <4>3
    <3>3. CASE RunCall
      <4>1. r \in RemapSet /\ c \in CombinedSet /\ combined_parameters' = combined_parameters /\ stage' = "run"
        BY <1>0, <1>9, <3>3, CombinedIsTyped
      <4> QED
        BY <1>5, <4>1
    <3>4. CombineCall \/ UsageCall \/ Call \/ RunCall
      <4>1. ~AtEnd
        BY <1>0, <1>9, TopFacts DEF At, AtEnd
      <4>2. ~At({"sample", "fetch"})
        BY <1>9 DEF At
      <4> QED
        BY <4>1, <4>2, Zenon DEF Next, FindDummy, Combine, CombineReturn, FindDref, MarkComparisons,
           Sample, FunctionReturn, NextStage
    <3> QED
      BY <3>1, <3>2, <3>3, <3>4
  <2>5. IsTyped(stack[l])'
    <3>1. Empty' = Empty
      BY DEF Empty
    <3> QED
      BY <1>2, <2>3, <2>4, <3>1 DEF IsTyped
  <2>6. \A k \in 1 .. Len(stack') : k \in 1 .. Len(stack) \/ k = l
    BY <1>0, <2>2
  <2>7. \A k \in 1 .. Len(stack) : IsTyped(stack[k])'
    BY <1>7, <1>9, <2>2
  <2> QED
    BY <2>5, <2>6, <2>7 DEF FramesInv
<1>10. CASE stage' = stage /\ Goes
  <2>1. CASE At({"sample", "fetch"}) /\ Advance
    <3>1. /\ Len(stack') = Len(stack)
          /\ \A k \in 1 .. Len(stack) : stack'[k].remap = stack[k].remap /\ stack'[k].combined = stack[k].combined
      BY <1>0, <2>1, AdvanceFacts
    <3>2. \A k \in 1 .. Len(stack) : IsTyped(stack[k])'
      BY <1>7, <1>10, <3>1
    <3> QED
      BY <3>1, <3>2 DEF FramesInv
  <2>2. CASE At({"call"}) /\ \E r, c : Push(Frame(Op.callee, r, c))
    BY <1>9, <1>10, <2>2
  <2>3. CASE Len(stack) > 1 /\ AtEnd /\ Return
    <3>1. /\ Len(stack') = Len(stack) - 1
          /\ \A k \in 1 .. Len(stack') : stack'[k].remap = stack[k].remap /\ stack'[k].combined = stack[k].combined
      BY <1>0, <2>3, ReturnFacts
    <3>2. \A k \in 1 .. Len(stack') : k \in 1 .. Len(stack)
      BY <1>0, <3>1
    <3>3. \A k \in 1 .. Len(stack') : IsTyped(stack[k])'
      BY <1>7, <1>10, <3>1, <3>2
    <3> QED
      BY <3>3 DEF FramesInv
  <2> QED
    BY <1>10, <2>1, <2>2, <2>3 DEF Goes
<1> QED
  BY <1>0, <1>8, <1>10, NextGoes

LEMMA StepTypes == IInv /\ IInv' /\ ImagesInv /\ FramesInv /\ [Next]_vars => ImagesInv' /\ FramesInv'
<1> SUFFICES ASSUME IInv, IInv', ImagesInv, FramesInv, [Next]_vars PROVE ImagesInv' /\ FramesInv'
  OBVIOUS
<1>1. CASE Next
  BY <1>1, ImagesStep, FramesStep
<1>2. CASE UNCHANGED vars
  <2>1. shader' = shader /\ stage' = stage /\ stack' = stack /\ combined_parameters' = combined_parameters
    BY <1>2 DEF vars, combining
  <2>2. \A f : Params(f)' = Params(f)
    BY <2>1, SameShader
  <2>3. RemapSet' = RemapSet /\ CombinedSet' = CombinedSet /\ Empty' = Empty
    BY <2>1, <2>2 DEF RemapSet, CombinedSet, Empty
  <2>4. \A k : IsTyped(stack[k])' = IsTyped(stack[k])
    BY <2>1, <2>3 DEF IsTyped
  <2> QED
    BY <2>1, <2>4 DEF ImagesInv, FramesInv
<1> QED
  BY <1>1, <1>2

LEMMA InitTypes == Init => ImagesInv /\ FramesInv
<1> SUFFICES ASSUME Init PROVE ImagesInv /\ FramesInv
  OBVIOUS
<1> PICK F : F = Frame(Main, Empty, Empty)
  OBVIOUS
<1>1. stack = <<F>> /\ combined_parameters = [f \in Functions |-> {}]
  BY DEF Init
<1>2. F.remap = Empty /\ F.combined = Empty
  BY DEF Frame
<1>3. Empty \in RemapSet /\ Empty \in CombinedSet
  BY Zenon DEF RemapSet, CombinedSet
<1>4. IsTyped(F)
  BY <1>2, <1>3 DEF IsTyped
<1>5. \A k \in 1 .. Len(stack) : stack[k] = F
  BY <1>1
<1> QED
  BY <1>1, <1>4, <1>5 DEF ImagesInv, FramesInv

\* The stages of StageSet are those of the sequence, and "thrown".
LEMMA StagesAre == StageSet \subseteq {Stages[n] : n \in DOMAIN Stages} \cup {"thrown"}
<1>2. DOMAIN Stages = 1 .. 7
  BY DEF Stages
<1>3. /\ Stages[1] = "dummy" /\ Stages[2] = "combine" /\ Stages[3] = "dref"
      /\ Stages[4] = "usage" /\ Stages[5] = "usage again" /\ Stages[6] = "run"
      /\ Stages[7] = "end"
  BY DEF Stages
<1>4. /\ 1 \in 1 .. 7 /\ 2 \in 1 .. 7 /\ 3 \in 1 .. 7 /\ 4 \in 1 .. 7 /\ 5 \in 1 .. 7 /\ 6 \in 1 .. 7
      /\ 7 \in 1 .. 7
  OBVIOUS
<1>5. \A n \in 1 .. 7 : Stages[n] \in {Stages[m] : m \in DOMAIN Stages}
  BY <1>2, Zenon
<1> HIDE DEF Stages
<1> QED
  BY <1>3, <1>4, <1>5, Zenon DEF StageSet

(***************************************************************************)
(* For every shader, the tables keep their types.                          *)
(***************************************************************************)
THEOREM TypesAreKept == Spec => []TypeOK
<1>1. Init => ImagesInv /\ FramesInv
  BY InitTypes
<1>2. IInv /\ IInv' /\ ImagesInv /\ FramesInv /\ [Next]_vars => ImagesInv' /\ FramesInv'
  BY StepTypes
<1>3. ASSUME IInv, UsesInv, FramesInv PROVE TypeOK
  <2>0. TableInv /\ StackIsASequence /\ shader \in Shaders
    BY <1>3 DEF IInv, TableInv
  <2>1. stage \in {Stages[n] : n \in DOMAIN Stages} \cup {"thrown"}
    BY <2>0, StagesAre, Zenon DEF TableInv
  <2>2. stack \in Seq([fn : Functions, next : Nat \ {0}, remap : RemapSet, combined : CombinedSet])
    <3>1. PICK R, C : stack \in Seq([fn : Functions, next : Nat \ {0}, remap : R, combined : C])
      BY <2>0 DEF StackIsASequence
    <3> DEFINE Old == [fn : Functions, next : Nat \ {0}, remap : R, combined : C]
               New == [fn : Functions, next : Nat \ {0}, remap : RemapSet, combined : CombinedSet]
    <3>2. \A F \in Old : F.remap \in RemapSet /\ F.combined \in CombinedSet => F \in New
      OBVIOUS
    <3>3. stack \in Seq(Old)
      BY <3>1
    <3> HIDE DEF Old, New
    <3>4. \A k \in 1 .. Len(stack) : stack[k] \in New
      BY <1>3, <3>2, <3>3 DEF FramesInv, IsTyped
    <3>5. stack \in Seq(New)
      BY <3>3, <3>4
    <3> QED
      BY <3>5 DEF New
  <2>3. /\ dummy_sampler \in BOOLEAN /\ DOMAIN combined_parameters = Functions
        /\ do_combined_parameters \in [Functions -> BOOLEAN]
    BY <2>0 DEF TableInv
  <2>4. combined_image_samplers \subseteq Globals \X (Globals \cup {Dummy})
    <3> SUFFICES ASSUME NEW c \in combined_image_samplers PROVE c \in Globals \X (Globals \cup {Dummy})
      OBVIOUS
    <3>1. PICK x \in Executed : \E n \in DOMAIN Ops(x.fn) : OpAt(x, n).op # "call" /\ c = PairAt(x, n)
      BY <1>3 DEF UsesInv, PairsInv, IsExecutedPair
    <3>2. PICK n \in DOMAIN Ops(x.fn) : OpAt(x, n).op # "call" /\ c = PairAt(x, n)
      BY <3>1
    <3>3. x \in Contexts /\ x.fn \in Functions
      BY <2>0, ExecutedFacts, ContextFacts
    <3>4. /\ OpAt(x, n).image \in Globals \cup Params(x.fn)
          /\ SamplerOf(OpAt(x, n)) \in Globals \cup Params(x.fn) \cup {Dummy}
      BY <2>0, <3>2, <3>3, OperandFacts DEF OpAt
    <3>5. Value(x, OpAt(x, n).image) \in Globals /\ Value(x, SamplerOf(OpAt(x, n))) \in Globals \cup {Dummy}
      BY <2>0, <3>3, <3>4, ContextFacts
    <3> QED
      BY <3>2, <3>5 DEF PairAt
  <2>5. dependency_hierarchy \in [Ids -> SUBSET Operands]
    BY <1>3 DEF UsesInv, HierarchyInv
  <2>6. comparison_ids \subseteq Operands
    BY <1>3 DEF UsesInv, MarkInv, ComparedIds, Compared, Operands
  <2> QED
    BY <2>1, <2>2, <2>3, <2>4, <2>5, <2>6, Zenon DEF TypeOK, RemapSet, CombinedSet
<1> QED
  BY <1>1, <1>2, <1>3, UsesInductiveInvariant, PTL DEF Spec
===============================================================================
