------------------------------ MODULE ControlFlow ------------------------------
(***************************************************************************)
(* What the emitted program owes the module: an execution of a SPIR-V      *)
(* function as the sequence of its visible steps.  Blocks run, OpPhi       *)
(* results get their values on the edges between blocks, a terminator      *)
(* decides where to go, the function ends.  A block without statements and *)
(* a branch without alternative leave no trace in a program.               *)
(***************************************************************************)
EXTENDS FunctionBlocks

VARIABLES
  func,      \* the blocks
  content,   \* which blocks have statements, OpPhi results, how they exit
  at         \* the place of the execution

Position(kind, x, y) == [kind |-> kind, x |-> x, y |-> y]
Nowhere == Position("nowhere", NoBlock, NoBlock)   \* not called yet
Lost    == Position("lost", NoBlock, NoBlock)      \* no execution goes there
Done    == Position("done", NoBlock, NoBlock)
Start(x)   == Position("start", x, NoBlock)        \* before the statements of x
End(x)     == Position("end", x, NoBlock)          \* before the terminator of x
Edge(x, y) == Position("edge", x, y)               \* on the way from x to y

\* Block y has an OpPhi with a value for block x.
flush_phi_required(x, y) ==
  y \in content.phis /\ \E k \in DOMAIN func[x].targets : func[x].targets[k] = y

HasStatements(x) == content.ops[x] = "statements"

\* An observer of the execution notices that position q is left.
IsVisible(q) ==
  \/ q.kind = "start" /\ HasStatements(q.x)
  \/ q.kind = "edge" /\ flush_phi_required(q.x, q.y)
  \/ q.kind = "end" /\ Len(func[q.x].targets) # 1

\* The next position which is visible, if there is one.
Settled(p) ==
  LET forward[kind \in {"start", "end", "edge"}, x \in Blocks, y \in Blocks \cup {NoBlock},
              steps \in 0 .. 3 * Cardinality(Blocks)] ==
        LET q == Position(kind, x, y)
        IN IF steps = 0 \/ IsVisible(q) THEN q
           ELSE IF kind = "edge" THEN forward["start", y, NoBlock, steps - 1]
           ELSE IF kind = "start" THEN forward["end", x, NoBlock, steps - 1]
           ELSE forward["edge", x, func[x].targets[1], steps - 1]
  IN IF p.kind \in {"start", "end", "edge"}
     THEN forward[p.kind, p.x, p.y, 3 * Cardinality(Blocks)] ELSE p

\* The visible steps from a settled position q, and where each leads.
AfterRun(q, x) == IF q = Start(x) /\ IsVisible(q) THEN End(x) ELSE Lost
AfterPhi(q, x, y) == IF q = Edge(x, y) /\ IsVisible(q) THEN Start(y) ELSE Lost
AfterDecision(q, x, y) ==
  IF q = End(x) /\ IsVisible(q) /\ \E k \in DOMAIN func[x].targets : func[x].targets[k] = y
  THEN Edge(x, y) ELSE Lost
ExitsBy(q, kind) ==
  q.kind = "end" /\ func[q.x].terminator = "exit" /\ content.exits[q.x] = kind
AfterExit(q, kind) == IF ExitsBy(q, kind) THEN Done ELSE Lost

Call == at = Nowhere /\ at' = Start(Entry)

Step ==
  /\ at.kind \in {"start", "end", "edge"}
  /\ \E q \in {Settled(at)} :
       /\ \/ \E x \in Blocks : at' = AfterRun(q, x)
          \/ \E x, y \in Blocks : at' \in {AfterPhi(q, x, y), AfterDecision(q, x, y)}
          \/ \E kind \in {"return", "kill"} : at' = AfterExit(q, kind)
          \* OpUnreachable: anything may happen
          \/ ExitsBy(q, "unreachable") /\ at' = Done
  /\ at' # Lost
  /\ UNCHANGED <<func, content>>

Spec == at = Nowhere /\ [][Call \/ Step]_at
===============================================================================
