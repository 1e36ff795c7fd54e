--------------------------- MODULE StructuredProgram ---------------------------
(***************************************************************************)
(* The program the back end writes, as far as control goes: a sequence of  *)
(* tokens, and what a GLSL compiler makes of them.                         *)
(*                                                                         *)
(*   run x            the statements of block x                            *)
(*   phi x y          the assignments to the OpPhi results of y, from x    *)
(*   if / unless x    if (condition of x) ...  else ...  end               *)
(*   loop             for (;;) ... end                                     *)
(*   for / for not x  ... body ... end:  for (; condition of x; ...) { }   *)
(*   while, while not                                                      *)
(*   do ... again if / again unless x    do { } while (condition of x)     *)
(*   once ... end     do { } while (false)                                 *)
(*   switch x         case x y and default x are its labels, where y is a  *)
(*                    target of x which stands for the literals leading to it *)
(*   selects x y      if (the selector of x leads to y) ... end            *)
(*   clear, set, test x   the ladder variable of switch x; test breaks     *)
(*   break, continue, return, kill                                         *)
(***************************************************************************)
EXTENDS FunctionBlocks

Token(op, x, y) == [op |-> op, x |-> x, y |-> y]
Plain(op) == Token(op, NoBlock, NoBlock)
Of(op, x) == Token(op, x, NoBlock)

Loops == {"loop", "for", "for not", "while", "while not", "do", "once"}
Breakable == Loops \cup {"switch"}
Openers == Breakable \cup {"if", "unless", "selects"}
Closers == {"end", "again if", "again unless"}

\* The token at which the scope which token k of out opens ends, by an operation in ends.
EndOf(out, k, ends) ==
  LET from[p \in (k + 1 .. Len(out) + 1) \X Nat] ==   \* a token, and how many scopes are open
        LET op == out[p[1]].op
        IN IF p[1] > Len(out) THEN p[1]
           ELSE IF op \in Openers THEN from[<<p[1] + 1, p[2] + 1>>]
           ELSE IF op \in ends /\ p[2] = 0 THEN p[1]
           ELSE IF op \in Closers THEN from[<<p[1] + 1, p[2] - 1>>]
           ELSE from[<<p[1] + 1, p[2]>>]
  IN from[<<k + 1, 0>>]

CloserOf(out, k) == EndOf(out, k, Closers)

\* The else of the if which token k of out opens, or its end.
ElseOf(out, k) == EndOf(out, k, Closers \cup {"else"})

\* The innermost construct of one of these kinds around token k, 0 for none.
Around(out, k, kinds) ==
  LET open == {j \in 1 .. k - 1 : out[j].op \in kinds /\ CloserOf(out, j) >= k}
  IN IF open = {} THEN 0 ELSE CHOOSE j \in open : \A i \in open : i <= j

\* Every break is in a loop or a switch, every continue in a loop, and
\* everything that is opened is closed.
IsWellFormed(out) ==
  /\ \A k \in DOMAIN out :
       /\ out[k].op \in {"break", "test"} => Around(out, k, Breakable) # 0
       /\ out[k].op = "continue" => Around(out, k, Loops) # 0
       /\ out[k].op \in Openers => CloserOf(out, k) <= Len(out)
  /\ Cardinality({k \in DOMAIN out : out[k].op \in Openers})
       = Cardinality({k \in DOMAIN out : out[k].op \in Closers})

\* Where a for loop starts its body, or any other loop.
BodyOf(out, k) ==
  IF out[k].op \in {"for", "for not"}
  THEN 1 + (CHOOSE j \in k + 1 .. Len(out) :
              out[j].op = "body" /\ \A i \in k + 1 .. j - 1 : out[i].op # "body")
  ELSE k + 1

\* Where the next iteration of loop k begins: the third part of a for, the
\* condition of a while, the condition at the end of a do.
NextIteration(out, k) ==
  IF out[k].op \in {"for", "for not"} THEN k + 1
  ELSE IF out[k].op = "do" THEN CloserOf(out, k)
  ELSE IF out[k].op = "once" THEN CloserOf(out, k) + 1
  ELSE k

\* The label of switch k to which target y leads: its own or the default one, or
\* the end of the switch.
LabelOf(out, k, y) ==
  LET own == {j \in k + 1 .. CloserOf(out, k) : out[j] = Token("case", out[k].x, y)}
      default == {j \in k + 1 .. CloserOf(out, k) : out[j] = Of("default", out[k].x)}
  IN IF own # {} THEN CHOOSE j \in own : TRUE
     ELSE IF default # {} THEN CHOOSE j \in default : TRUE
     ELSE CloserOf(out, k)

\* The token which opens what token k closes.
OpenerOf(out, k) == CHOOSE j \in 1 .. k - 1 : out[j].op \in Openers /\ CloserOf(out, j) = k
===============================================================================
