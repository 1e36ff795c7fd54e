---------------------------- MODULE ShaderCalls ----------------------------
(***************************************************************************)
(* What the traversals of the call graph read of a shader: for each        *)
(* function its parameters of image and sampler type and, in order, the    *)
(* instructions which combine, fetch or pass on such resources.            *)
(*                                                                         *)
(* An operand is the variable or parameter its value was loaded from       *)
(* (maybe_get_backing_variable), so loads do not appear.                   *)
(***************************************************************************)
EXTENDS Naturals, Sequences, FiniteSets

CONSTANTS
    Functions,      \* the functions of the module
    Main,           \* the entry point
    Globals,        \* the separate images and samplers the module declares
    Parameters,     \* the ids of the parameters of all functions
    Dummy,          \* the sampler which stands in where an image is fetched
    Shaders,        \* the shaders to look at: [Functions -> bodies]
    Rank            \* [Functions -> Nat]: SPIR-V has no recursive calls

ASSUME MainAssumption == Main \in Functions

\* A module has finitely many functions: an id is below the bound in its header.
ASSUME FunctionsAssumption == IsFiniteSet(Functions)

ASSUME IdAssumption ==
    /\ Globals \cap Parameters = {}
    /\ Dummy \notin Globals \cup Parameters

Ids == Globals \cup Parameters \cup {Dummy}

(***************************************************************************)
(* OpSampledImage with the instruction which samples the result (dref if   *)
(* it compares), an image used without a sampler, a call.                  *)
(***************************************************************************)
Sampling(image, sampler, dref) ==
    [op |-> "sample", image |-> image, sampler |-> sampler, dref |-> dref]
Fetching(image) == [op |-> "fetch", image |-> image]
Calling(callee, args) == [op |-> "call", callee |-> callee, args |-> args]

Operands == Globals \cup Parameters

Instruction ==
    [op : {"sample"}, image : Operands, sampler : Operands, dref : BOOLEAN]
    \cup [op : {"fetch"}, image : Operands]
    \cup [op : {"call"}, callee : Functions, args : Seq(Operands)]

Body == [params : Seq(Parameters), ops : Seq(Instruction)]

\* The parameters of a body, as a set
ParamsOf(body) == {body.params[k] : k \in DOMAIN body.params}

(***************************************************************************)
(* What SPIR-V demands of a module: calls fit their callee and descend,    *)
(* an id is a parameter once, and functions use only globals and their own *)
(* parameters.  The entry point has no parameters.                         *)
(***************************************************************************)
IsShader(sh) ==
    /\ sh \in [Functions -> Body]
    /\ sh[Main].params = << >>
    /\ \A f \in Functions : \A j, k \in DOMAIN sh[f].params :
          sh[f].params[j] = sh[f].params[k] => j = k
    /\ \A f, g \in Functions : f # g => ParamsOf(sh[f]) \cap ParamsOf(sh[g]) = {}
    /\ \A f \in Functions : \A n \in DOMAIN sh[f].ops :
          LET o == sh[f].ops[n]
              visible == Globals \cup ParamsOf(sh[f])
          IN  /\ o.op \in {"sample", "fetch"} => o.image \in visible
              /\ o.op = "sample" => o.sampler \in visible
              /\ o.op = "call" =>
                    /\ Rank[o.callee] < Rank[f]
                    /\ Len(o.args) = Len(sh[o.callee].params)
                    /\ \A k \in DOMAIN o.args : o.args[k] \in visible

ASSUME ShaderAssumption ==
    /\ Rank \in [Functions -> Nat]
    /\ \A sh \in Shaders : IsShader(sh)
=============================================================================
