-------------------------- MODULE Structurizer_proofs --------------------------
(***************************************************************************)
(* Proofs about the emission of blocks: the program is well formed.        *)
(*                                                                         *)
(* What is written and what is left to do are one sequence.  The argument  *)
(* reads it from its beginning and keeps the stack of the scopes which are *)
(* open: what a call is given to do fits the scopes it is left in.  A call *)
(* writes tokens and leaves calls which change the stack as it does, so    *)
(* that the sequence can be read after the call if it could be read before *)
(* (CallIsReplaced); when nothing is left to do, the program can be read   *)
(* from its beginning to its end, which makes it well formed.              *)
(***************************************************************************)
EXTENDS Structurizer, CFG_structured_proofs

-------------------------------------------------------------------------------
(* The stack of open scopes.                                               *)

QuietOps == {"none", "run", "phi", "clear", "set", "else", "body", "case", "default", "return", "kill", "throw"}
AllOps == QuietOps \cup Openers \cup Closers \cup {"break", "continue", "test"}

Texts == [op : AllOps, x : Blocks \cup {NoBlock}, y : Blocks \cup {NoBlock}]
CallKinds ==
  {"chain", "branch", "next", "continue", "end loop", "end do", "leave switch", "complex", "simple",
   "fall through", "break out", "flush"}
Tasks == [do : CallKinds, x : Blocks \cup {NoBlock}, y : Blocks \cup {NoBlock}, token : Texts]
           \cup {Later(token) : token \in Texts}

Stacks == Seq(Openers)
Outer(s) == SubSeq(s, 1, Len(s) - 1)
Holds(s, kinds) == \E k \in DOMAIN s : s[k] \in kinds

\* A token turns stack s into stack r.
TokenStep(token, s, r) ==
  \/ token.op \in Openers /\ r = Append(s, token.op)
  \/ token.op \in Closers /\ s # <<>> /\ r = Outer(s)
  \/ token.op \in QuietOps /\ r = s
  \/ token.op \in {"break", "test"} /\ Holds(s, Breakable) /\ r = s
  \/ token.op = "continue" /\ Holds(s, Loops) /\ r = s

SwitchesAround(x) == {h \in Ids : func[h].terminator = "multiselect" /\ h # x /\ x \in Construct(h)}

\* The scopes around block x are open, for the block and for what follows it.
Fits(x, s) ==
  /\ LoopsAround(x) # {} => Holds(s, Loops)
  /\ SwitchesAround(x) # {} => Holds(s, Breakable)
FitsEnd(x, s) ==
  /\ Fits(x, s)
  /\ IsLoopHeader(x) => Holds(s, Loops)
  /\ func[x].terminator = "multiselect" => Holds(s, Breakable)

\* A call is made in the scopes of stack s, which are then those of stack r.
CallStep(t, s, r) ==
  \/ t.do = "chain" /\ t.x \in Numbered /\ Fits(t.x, s) /\ r = s
  \/ t.do = "branch" /\ t.x \in Numbered /\ <<t.x, t.y>> \in RealFlow /\ FitsEnd(t.x, s) /\ r = s
  \/ t.do = "next" /\ t.y \in Numbered /\ Fits(t.y, s) /\ ~is_loop_break(t.y) /\ r = s
  \/ t.do = "continue" /\ (t.x # t.y => t.y \in Numbered /\ Fits(t.y, s) /\ Holds(s, Loops)) /\ r = s
  \/ /\ t.do \in {"end loop", "end do"} /\ t.x \in Numbered /\ IsLoopHeader(t.x)
     /\ t.y = func[t.x].continue_block /\ s # <<>> /\ r = Outer(s) /\ Fits(merge_block(t.x), r)
  \/ t.do = "leave switch" /\ (loop_dominator[t.x] # NoBlock => Holds(s, Breakable)) /\ r = s
  \/ t.do \in {"complex", "simple", "fall through", "break out", "flush"} /\ r = s

TaskStep(t, s, r) == (t.do = "write" /\ TokenStep(t.token, s, r)) \/ CallStep(t, s, r)
Moves == {m \in Tasks \X Stacks \X Stacks : TaskStep(m[1], m[2], m[3])}

\* The tasks of a sequence turn stack s into stack r, one after another.
IsScan(g, tasks, s, r) ==
  /\ g \in [0 .. Len(tasks) -> Stacks]
  /\ g[0] = s /\ g[Len(tasks)] = r
  /\ \A k \in 1 .. Len(tasks) : <<tasks[k], g[k - 1], g[k]>> \in Moves
Scans(tasks, s, r) == \E g : IsScan(g, tasks, s, r)

\* A text is what is left of the tasks to write it.
Written(text) == [k \in 1 .. Len(text) |-> Later(text[k])]

\* Everything the pass writes and does.
Whole == Written(out) \o todo

-------------------------------------------------------------------------------
\* No task leaves the stack as it is, one task is a step, two sequences are read one after the other.
LEMMA EmptyScan == ASSUME NEW s \in Stacks PROVE Scans(<<>>, s, s)
<1>1. IsScan([k \in 0 .. 0 |-> s], <<>>, s, s)
  BY DEF IsScan
<1> QED
  BY <1>1 DEF Scans

LEMMA SingleScan ==
  ASSUME NEW t \in Tasks, NEW s \in Stacks, NEW r \in Stacks, TaskStep(t, s, r)
  PROVE  Scans(<<t>>, s, r)
<1> DEFINE g == [k \in 0 .. 1 |-> IF k = 0 THEN s ELSE r]
<1>1. g \in [0 .. 1 -> Stacks] /\ g[0] = s /\ g[1] = r
  OBVIOUS
<1>2. Len(<<t>>) = 1 /\ <<t>>[1] = t /\ \A k \in 1 .. 1 : k = 1 /\ k - 1 = 0
  OBVIOUS
<1> HIDE DEF g
<1>3. <<t, s, r>> \in Moves
  BY DEF Moves
<1>4. IsScan(g, <<t>>, s, r)
  BY <1>1, <1>2, <1>3 DEF IsScan
<1> QED
  BY <1>4 DEF Scans

\* What a scan begins and ends with.
LEMMA ScanType ==
  ASSUME NEW t \in Seq(Tasks), NEW s, NEW r, Scans(t, s, r)
  PROVE  s \in Stacks /\ r \in Stacks
<1>1. PICK g : IsScan(g, t, s, r)
  BY DEF Scans
<1>2. Len(t) \in Nat
  OBVIOUS
<1> QED
  BY <1>1, <1>2 DEF IsScan

LEMMA JoinedScan ==
  ASSUME NEW t \in Seq(Tasks), NEW u \in Seq(Tasks), NEW s, NEW q, NEW r, Scans(t, s, q), Scans(u, q, r)
  PROVE  Scans(t \o u, s, r)
<1>1. PICK g : IsScan(g, t, s, q)
  BY DEF Scans
<1>2. PICK h : IsScan(h, u, q, r)
  BY DEF Scans
<1> DEFINE n == Len(t)
           m == Len(u)
           f == [k \in 0 .. n + m |-> IF k <= n THEN g[k] ELSE h[k - n]]
<1>3. n \in Nat /\ m \in Nat /\ Len(t \o u) = n + m
  OBVIOUS
<1>4. \A k \in 1 .. n + m : (t \o u)[k] = IF k <= n THEN t[k] ELSE u[k - n]
  OBVIOUS
<1>5. /\ g \in [0 .. n -> Stacks] /\ g[0] = s /\ g[n] = q
      /\ \A k \in 1 .. n : <<t[k], g[k - 1], g[k]>> \in Moves
  BY <1>1 DEF IsScan
<1>6. /\ h \in [0 .. m -> Stacks] /\ h[0] = q /\ h[m] = r
      /\ \A k \in 1 .. m : <<u[k], h[k - 1], h[k]>> \in Moves
  BY <1>2 DEF IsScan
<1> HIDE DEF n, m
<1>7. f \in [0 .. n + m -> Stacks]
  <2>1. ASSUME NEW k \in 0 .. n + m PROVE (IF k <= n THEN g[k] ELSE h[k - n]) \in Stacks
    <3>1. CASE k <= n
      BY <1>3, <1>5, <3>1
    <3>2. CASE ~(k <= n)
      <4>1. k - n \in 0 .. m
        BY <1>3, <3>2
      <4> QED
        BY <1>6, <3>2, <4>1
    <3> QED
      BY <3>1, <3>2
  <2> QED
    BY <2>1
<1>8. f[0] = s /\ f[n + m] = r
  <2>1. 0 \in 0 .. n + m /\ n + m \in 0 .. n + m /\ 0 <= n
    BY <1>3
  <2>2. f[0] = g[0]
    BY <2>1
  <2>3. CASE m = 0
    BY <1>3, <1>5, <1>6, <2>1, <2>3
  <2>4. CASE m # 0
    <3>1. ~(n + m <= n) /\ (n + m) - n = m
      BY <1>3, <2>4
    <3> QED
      BY <1>5, <1>6, <2>1, <2>2, <3>1
  <2> QED
    BY <1>5, <2>2, <2>3, <2>4
<1>f. \A k \in 0 .. n + m : f[k] = IF k <= n THEN g[k] ELSE h[k - n]
  OBVIOUS
<1> HIDE DEF f
<1>9. ASSUME NEW k \in 1 .. n + m PROVE <<(t \o u)[k], f[k - 1], f[k]>> \in Moves
  <2>1. k \in 0 .. n + m /\ k - 1 \in 0 .. n + m /\ k \in Int
    BY <1>3
  <2>2. CASE k <= n
    <3>1. k \in 1 .. n /\ k - 1 <= n
      BY <1>3, <2>1, <2>2
    <3> QED
      BY <1>4, <1>5, <1>f, <2>1, <2>2, <3>1
  <2>3. CASE k = n + 1
    <3>1. f[k] = h[1] /\ f[k - 1] = h[0] /\ 1 \in 1 .. m /\ (t \o u)[k] = u[1]
      <4>1. ~(k <= n) /\ k - n = 1 /\ k - 1 = n /\ 1 \in 1 .. m
        BY <1>3, <2>1, <2>3
      <4> QED
        BY <1>3, <1>4, <1>5, <1>6, <1>f, <2>1, <4>1
    <3>2. <<u[1], h[1 - 1], h[1]>> \in Moves
      BY <1>6, <3>1
    <3> QED
      BY <3>1, <3>2
  <2>4. CASE k > n + 1
    <3>1. ~(k <= n) /\ ~(k - 1 <= n) /\ k - n \in 1 .. m /\ (k - 1) - n = (k - n) - 1
      BY <1>3, <2>1, <2>4
    <3>2. f[k] = h[k - n] /\ f[k - 1] = h[(k - n) - 1] /\ (t \o u)[k] = u[k - n]
      BY <1>4, <1>f, <2>1, <3>1
    <3>3. <<u[k - n], h[(k - n) - 1], h[k - n]>> \in Moves
      BY <1>6, <3>1
    <3> QED
      BY <3>2, <3>3
  <2>5. k <= n \/ k = n + 1 \/ k > n + 1
    BY <1>3, <2>1
  <2> QED
    BY <2>2, <2>3, <2>4, <2>5
<1>10. IsScan(f, t \o u, s, r)
  BY <1>3, <1>7, <1>8, <1>9 DEF IsScan
<1> QED
  BY <1>10 DEF Scans

\* A scan of two sequences has a stack between them.
LEMMA SplitScan ==
  ASSUME NEW t \in Seq(Tasks), NEW u \in Seq(Tasks), NEW s, NEW r, Scans(t \o u, s, r)
  PROVE  \E q \in Stacks : Scans(t, s, q) /\ Scans(u, q, r)
<1>1. PICK f : IsScan(f, t \o u, s, r)
  BY DEF Scans
<1> DEFINE n == Len(t)
           m == Len(u)
           g == [k \in 0 .. n |-> f[k]]
           h == [k \in 0 .. m |-> f[k + n]]
<1>2. n \in Nat /\ m \in Nat /\ Len(t \o u) = n + m
  OBVIOUS
<1>3. (\A k \in 1 .. n : (t \o u)[k] = t[k]) /\ \A k \in 1 .. m : (t \o u)[k + n] = u[k]
  OBVIOUS
<1> HIDE DEF n, m
<1>4. /\ f \in [0 .. n + m -> Stacks] /\ f[0] = s /\ f[n + m] = r
      /\ \A k \in 1 .. n + m : <<(t \o u)[k], f[k - 1], f[k]>> \in Moves
  BY <1>1, <1>2 DEF IsScan
<1>5. IsScan(g, t, s, f[n])
  <2>1. g \in [0 .. n -> Stacks] /\ g[0] = s /\ g[n] = f[n]
    BY <1>2, <1>4
  <2>2. ASSUME NEW k \in 1 .. n PROVE <<t[k], g[k - 1], g[k]>> \in Moves
    <3>1. k \in 1 .. n + m /\ k \in 0 .. n /\ k - 1 \in 0 .. n
      BY <1>2
    <3>2. g[k] = f[k] /\ g[k - 1] = f[k - 1]
      BY <3>1
    <3> QED
      BY <1>3, <1>4, <3>1, <3>2
  <2> HIDE DEF g
  <2> QED
    BY <2>1, <2>2 DEF IsScan, n
<1>6. IsScan(h, u, f[n], r)
  <2>1. h \in [0 .. m -> Stacks] /\ h[0] = f[n] /\ h[m] = r
    <3>1. \A k \in 0 .. m : k + n \in 0 .. n + m
      BY <1>2
    <3>2. 0 \in 0 .. m /\ m \in 0 .. m /\ 0 + n = n /\ m + n = n + m
      BY <1>2
    <3> QED
      BY <1>4, <3>1, <3>2
  <2>2. ASSUME NEW k \in 1 .. m PROVE <<u[k], h[k - 1], h[k]>> \in Moves
    <3>1. k + n \in 1 .. n + m /\ k \in 0 .. m /\ k - 1 \in 0 .. m /\ (k - 1) + n = (k + n) - 1
      BY <1>2
    <3>2. h[k] = f[k + n] /\ h[k - 1] = f[(k + n) - 1]
      BY <3>1
    <3> QED
      BY <1>3, <1>4, <3>1, <3>2
  <2> HIDE DEF h
  <2> QED
    BY <2>1, <2>2 DEF IsScan, m
<1>7. f[n] \in Stacks
  BY <1>2, <1>4
<1> QED
  BY <1>5, <1>6, <1>7 DEF Scans

-------------------------------------------------------------------------------
(* Texts.                                                                  *)

\* Texts as tasks to write them.
LEMMA WrittenText ==
  ASSUME NEW text \in Seq(Texts)
  PROVE  /\ Written(text) \in Seq(Tasks) /\ Len(Written(text)) = Len(text)
         /\ \A k \in 1 .. Len(text) : Written(text)[k] = Later(text[k])
<1>1. \A k \in 1 .. Len(text) : Later(text[k]) \in Tasks
  BY DEF Tasks
<1>2. Len(text) \in Nat
  OBVIOUS
<1> QED
  BY <1>1, <1>2 DEF Written

LEMMA WrittenJoin ==
  ASSUME NEW t \in Seq(Texts), NEW u \in Seq(Texts)
  PROVE  Written(t \o u) = Written(t) \o Written(u)
<1> DEFINE n == Len(t)
           m == Len(u)
<1>1. t \o u \in Seq(Texts) /\ Len(t \o u) = n + m /\ n \in Nat /\ m \in Nat
  OBVIOUS
<1>2. Written(t) \in Seq(Tasks) /\ Written(u) \in Seq(Tasks) /\ Len(Written(t)) = n /\ Len(Written(u)) = m
  BY WrittenText
<1>3. Written(t \o u) \in Seq(Tasks) /\ Len(Written(t \o u)) = n + m
  BY <1>1, WrittenText
<1>4. Written(t) \o Written(u) \in Seq(Tasks) /\ Len(Written(t) \o Written(u)) = n + m
  BY <1>1, <1>2
<1>5. ASSUME NEW k \in 1 .. n + m PROVE Written(t \o u)[k] = (Written(t) \o Written(u))[k]
  <2>1. Written(t \o u)[k] = Later((t \o u)[k])
    BY <1>1, WrittenText
  <2>2. CASE k <= n
    <3>1. k \in 1 .. n /\ (t \o u)[k] = t[k]
      BY <1>1, <2>2
    <3>2. (Written(t) \o Written(u))[k] = Written(t)[k]
      BY <1>1, <1>2, <3>1
    <3>3. Written(t)[k] = Later(t[k])
      BY <3>1, WrittenText
    <3> QED
      BY <2>1, <3>1, <3>2, <3>3
  <2>3. CASE ~(k <= n)
    <3>1. k - n \in 1 .. m /\ (t \o u)[k] = u[k - n]
      BY <1>1, <2>3
    <3>2. (Written(t) \o Written(u))[k] = Written(u)[k - n]
      BY <1>1, <1>2, <2>3, <3>1
    <3>3. Written(u)[k - n] = Later(u[k - n])
      BY <3>1, WrittenText
    <3> QED
      BY <2>1, <3>1, <3>2, <3>3
  <2> QED
    BY <2>2, <2>3
<1> HIDE DEF n, m
<1> QED
  BY <1>1, <1>3, <1>4, <1>5

LEMMA WrittenNone == Written(<<>>) = <<>>
BY DEF Written

\* A text without braces and jumps can be anywhere.
IsQuiet(text) == text \in Seq(Texts) /\ \A k \in 1 .. Len(text) : text[k].op \in QuietOps

LEMMA QuietScan ==
  ASSUME NEW text, IsQuiet(text), NEW s \in Stacks
  PROVE  Scans(Written(text), s, s)
<1> DEFINE g == [k \in 0 .. Len(text) |-> s]
<1>1. text \in Seq(Texts) /\ Len(text) \in Nat
  BY DEF IsQuiet
<1>2. Written(text) \in Seq(Tasks) /\ Len(Written(text)) = Len(text)
  BY <1>1, WrittenText
<1>3. ASSUME NEW k \in 1 .. Len(text) PROVE <<Written(text)[k], s, s>> \in Moves
  <2>1. Written(text)[k] = Later(text[k]) /\ Later(text[k]) \in Tasks
    BY <1>1, <1>2, <1>3, WrittenText
  <2>2. Later(text[k]).do = "write" /\ Later(text[k]).token = text[k] /\ text[k].op \in QuietOps
    BY DEF IsQuiet, Later
  <2>3. TaskStep(Later(text[k]), s, s)
    BY <2>2 DEF TaskStep, TokenStep
  <2> QED
    BY <2>1, <2>3 DEF Moves
<1>4. IsScan(g, Written(text), s, s)
  <2>1. g \in [0 .. Len(text) -> Stacks] /\ \A k \in 0 .. Len(text) : g[k] = s
    OBVIOUS
  <2>2. 0 \in 0 .. Len(text) /\ Len(text) \in 0 .. Len(text) /\ \A k \in 1 .. Len(text) : k \in 0 .. Len(text) /\ k - 1 \in 0 .. Len(text)
    BY <1>1
  <2> HIDE DEF g
  <2> QED
    BY <1>2, <1>3, <2>1, <2>2 DEF IsScan
<1> QED
  BY <1>4 DEF Scans

\* Sequences of quiet texts are quiet.
LEMMA QuietParts ==
  /\ IsQuiet(<<>>)
  /\ \A token \in Texts : token.op \in QuietOps => IsQuiet(<<token>>)
  /\ \A t, u : IsQuiet(t) /\ IsQuiet(u) => IsQuiet(t \o u)
<1>1. IsQuiet(<<>>)
  BY DEF IsQuiet
<1>2. ASSUME NEW token \in Texts, token.op \in QuietOps PROVE IsQuiet(<<token>>)
  BY <1>2 DEF IsQuiet
<1>3. ASSUME NEW t, NEW u, IsQuiet(t), IsQuiet(u) PROVE IsQuiet(t \o u)
  <2>1. t \in Seq(Texts) /\ u \in Seq(Texts) /\ t \o u \in Seq(Texts)
    BY <1>3 DEF IsQuiet
  <2>2. ASSUME NEW k \in 1 .. Len(t \o u) PROVE (t \o u)[k].op \in QuietOps
    <3>1. Len(t) \in Nat /\ Len(u) \in Nat /\ Len(t \o u) = Len(t) + Len(u) /\ k \in Int
      BY <2>1
    <3>2. CASE k <= Len(t)
      <4>1. k \in 1 .. Len(t) /\ (t \o u)[k] = t[k]
        BY <2>1, <3>1, <3>2
      <4> QED
        BY <1>3, <4>1 DEF IsQuiet
    <3>3. CASE ~(k <= Len(t))
      <4>1. k - Len(t) \in 1 .. Len(u) /\ (t \o u)[k] = u[k - Len(t)]
        BY <2>1, <3>1, <3>3
      <4> QED
        BY <1>3, <4>1 DEF IsQuiet
    <3> QED
      BY <3>2, <3>3
  <2> QED
    BY <2>1, <2>2 DEF IsQuiet
<1> QED
  BY <1>1, <1>2, <1>3

\* One token.
LEMMA TokenScan ==
  ASSUME NEW token \in Texts, NEW s \in Stacks, NEW r \in Stacks, TokenStep(token, s, r)
  PROVE  Scans(<<Later(token)>>, s, r) /\ Scans(Written(<<token>>), s, r) /\ Later(token) \in Tasks
<1>1. Later(token) \in Tasks
  BY DEF Tasks
<1>2. TaskStep(Later(token), s, r)
  BY DEF TaskStep, Later
<1>3. Written(<<token>>) = <<Later(token)>>
  <2>1. <<token>> \in Seq(Texts) /\ Len(<<token>>) = 1 /\ <<token>>[1] = token
    OBVIOUS
  <2>2. Written(<<token>>) \in Seq(Tasks) /\ Len(Written(<<token>>)) = 1 /\ Written(<<token>>)[1] = Later(token)
    <3>1. 1 \in 1 .. Len(<<token>>)
      BY <2>1
    <3> QED
      BY <2>1, <3>1, WrittenText
  <2> QED
    BY <1>1, <2>2
<1> QED
  BY <1>1, <1>2, <1>3, SingleScan

\* A set of sequences which can be joined holds what a sequence of them is joined to.
LEMMA FlattenJoins ==
  ASSUME NEW Q, <<>> \in Q, \A t, u \in Q : t \o u \in Q, NEW s \in Seq(Q)
  PROVE  Flatten(s) \in Q
<1> DEFINE n == Len(s)
           S == 0 .. n
           next == [k \in S |-> IF k = 0 THEN 0 ELSE k - 1]
           v == [k \in S |-> <<>>]
           G == [q \in S \X Q |-> IF q[1] = 0 THEN <<>> ELSE q[2] \o s[q[1]]]
           r == [k \in S |-> k]
           T == {0}
           Is(f) == f = [k \in 0 .. Len(s) |-> IF k = 0 THEN <<>> ELSE f[k - 1] \o s[k]]
<1>1. n \in Nat /\ \A k \in 1 .. n : s[k] \in Q
  OBVIOUS
<1>2. IsRecursion(S, Q, T, v, next, G, r)
  <2>1. next \in [S -> S] /\ r \in [S -> Nat] /\ v \in [S -> Q]
    BY <1>1
  <2>2. G \in [S \X Q -> Q]
    <3>1. ASSUME NEW q \in S \X Q PROVE (IF q[1] = 0 THEN <<>> ELSE q[2] \o s[q[1]]) \in Q
      <4>1. q[1] # 0 => q[1] \in 1 .. n /\ q[2] \in Q
        BY <1>1
      <4> QED
        BY <1>1, <4>1
    <3> QED
      BY <3>1
  <2>3. \A k \in S : k \notin T => r[next[k]] < r[k]
    BY <1>1
  <2> HIDE DEF S, next, v, G, r, T
  <2> QED
    BY <2>1, <2>2, <2>3 DEF IsRecursion, IsRanked
<1>3. \E f : Is(f) /\ f \in [S -> Q]
  <2>1. PICK f : Solves(f, S, Q, T, v, next, G)
    <3> HIDE DEF S, next, v, G, r, T
    <3> QED
      BY <1>2, RecursiveFunctionExists
  <2>2. f \in [S -> Q] /\ \A k \in S : f[k] = IF k \in T THEN v[k] ELSE G[<<k, f[next[k]]>>]
    <3> HIDE DEF S, next, v, G, T
    <3> QED
      BY <2>1 DEF Solves
  <2>3. ASSUME NEW k \in S PROVE f[k] = IF k = 0 THEN <<>> ELSE f[k - 1] \o s[k]
    <3>1. CASE k = 0
      BY <2>2, <3>1
    <3>2. CASE k # 0
      <4>1. k - 1 \in S /\ next[k] = k - 1 /\ k \notin T
        BY <1>1, <3>2
      <4>2. f[k - 1] \in Q /\ f[k] = G[<<k, f[k - 1]>>]
        BY <2>2, <4>1
      <4>3. G[<<k, f[k - 1]>>] = f[k - 1] \o s[k]
        BY <3>2, <4>2
      <4> QED
        BY <3>2, <4>2, <4>3
    <3> QED
      BY <3>1, <3>2
  <2>4. f = [k \in S |-> IF k = 0 THEN <<>> ELSE f[k - 1] \o s[k]]
    <3>1. f = [k \in S |-> f[k]]
      BY <2>2
    <3> HIDE DEF S
    <3> QED
      BY <2>3, <3>1
  <2> QED
    BY <2>2, <2>4
<1> DEFINE c == CHOOSE f : Is(f)
<1>4. Is(c)
  <2> HIDE DEF Is
  <2> QED
    BY <1>3
<1>5. Flatten(s) = c[n]
  BY DEF Flatten
<1> HIDE DEF c
<1>6. c[0] = <<>> /\ \A k \in 1 .. n : c[k] = c[k - 1] \o s[k]
  BY <1>1, <1>4
<1>7. \A k \in Nat : k <= n => c[k] \in Q
  <2> DEFINE X == {k \in Nat : k <= n => c[k] \in Q}
  <2>1. 0 \in X
    BY <1>6
  <2>2. ASSUME NEW k \in Nat, k \in X PROVE k + 1 \in X
    <3>1. SUFFICES ASSUME k + 1 <= n PROVE c[k + 1] \in Q
      OBVIOUS
    <3>2. k + 1 \in 1 .. n /\ (k + 1) - 1 = k /\ k <= n
      BY <1>1, <3>1
    <3>3. c[k] \in Q /\ s[k + 1] \in Q
      BY <1>1, <2>2, <3>2
    <3>4. c[k + 1] = c[k] \o s[k + 1]
      BY <1>6, <3>2
    <3> QED
      BY <3>3, <3>4
  <2> HIDE DEF X
  <2>3. Nat \subseteq X
    BY <2>1, <2>2, SetInduction
  <2> QED
    BY <2>3 DEF X
<1> QED
  BY <1>1, <1>5, <1>7

-------------------------------------------------------------------------------
(* A call is replaced by what it writes and leaves to do.                  *)

\* The tasks to write at the beginning of a sequence, as text.
LEMMA WrittenAhead ==
  ASSUME NEW left \in Seq(Tasks), NEW n \in 0 .. Len(left), \A k \in 1 .. n : left[k].do = "write"
  PROVE  LET text == [k \in 1 .. n |-> left[k].token]
             rest == SubSeq(left, n + 1, Len(left))
         IN text \in Seq(Texts) /\ rest \in Seq(Tasks) /\ Written(text) \o rest = left
<1> DEFINE text == [k \in 1 .. n |-> left[k].token]
           rest == SubSeq(left, n + 1, Len(left))
           m == Len(left)
<1>1. ASSUME NEW k \in 1 .. n PROVE left[k].token \in Texts /\ left[k] = Later(left[k].token)
  <2>1. left[k] \in Tasks /\ left[k].do = "write"
    OBVIOUS
  <2>2. left[k] \in {Later(token) : token \in Texts}
    BY <2>1 DEF Tasks, CallKinds
  <2> QED
    BY <2>2 DEF Later
<1>2. text \in Seq(Texts) /\ Len(text) = n /\ \A k \in 1 .. n : text[k] = left[k].token
  BY <1>1
<1>3. m \in Nat /\ rest \in Seq(Tasks) /\ Len(rest) = m - n /\ \A k \in 1 .. m - n : rest[k] = left[n + k]
  OBVIOUS
<1> HIDE DEF text, rest
<1>4. Written(text) \in Seq(Tasks) /\ Len(Written(text)) = n /\ \A k \in 1 .. n : Written(text)[k] = left[k]
  BY <1>1, <1>2, WrittenText
<1>5. Written(text) \o rest \in Seq(Tasks) /\ Len(Written(text) \o rest) = m
  BY <1>3, <1>4
<1>6. ASSUME NEW k \in 1 .. m PROVE (Written(text) \o rest)[k] = left[k]
  <2>1. CASE k <= n
    BY <1>3, <1>4, <2>1
  <2>2. CASE ~(k <= n)
    <3>1. k - n \in 1 .. m - n /\ n + (k - n) = k
      BY <1>3, <2>2
    <3>2. (Written(text) \o rest)[k] = rest[k - n]
      BY <1>3, <1>4, <2>2
    <3> QED
      BY <1>3, <3>1, <3>2
  <2> QED
    BY <2>1, <2>2
<1>7. Written(text) \o rest = left
  <2> HIDE DEF m
  <2>1. Len(left) = m
    BY DEF m
  <2> QED
    BY <1>3, <1>5, <1>6, <2>1
<1> QED
  BY <1>2, <1>3, <1>7 DEF text, rest

\* What Proceed writes and leaves is what the call gives it, in order.
LEMMA ProceedWrites ==
  ASSUME NEW tokens \in Seq(Texts), NEW tasks \in Seq(Tasks), out \in Seq(Texts), todo \in Seq(Tasks),
         todo # <<>>, Proceed(tokens, tasks)
  PROVE  /\ out' \in Seq(Texts) /\ todo' \in Seq(Tasks)
         /\ \E text \in Seq(Texts) :
              /\ Written(text) \o todo' = tasks \o Tail(todo)
              /\ Written(out') = (Written(out) \o Written(tokens)) \o Written(text)
<1> DEFINE left == tasks \o Tail(todo)
<1>1. left \in Seq(Tasks) /\ Tail(todo) \in Seq(Tasks)
  OBVIOUS
<1>2. PICK n \in 0 .. Len(left) :
        /\ \A k \in 1 .. n : left[k].do = "write"
        /\ out' = out \o tokens \o [k \in 1 .. n |-> left[k].token]
        /\ todo' = SubSeq(left, n + 1, Len(left))
  BY DEF Proceed
<1> DEFINE text == [k \in 1 .. n |-> left[k].token]
           rest == SubSeq(left, n + 1, Len(left))
<1> HIDE DEF left
<1>3. text \in Seq(Texts) /\ rest \in Seq(Tasks) /\ Written(text) \o rest = left
  BY <1>1, <1>2, WrittenAhead
<1>4. out' = (out \o tokens) \o text /\ todo' = rest
  BY <1>2
<1> HIDE DEF text, rest
<1>5. out \o tokens \in Seq(Texts) /\ out' \in Seq(Texts)
  BY <1>3, <1>4
<1>6. Written(out') = (Written(out) \o Written(tokens)) \o Written(text)
  <2>1. Written((out \o tokens) \o text) = Written(out \o tokens) \o Written(text)
    BY <1>3, <1>5, WrittenJoin
  <2>2. Written(out \o tokens) = Written(out) \o Written(tokens)
    BY WrittenJoin
  <2> QED
    BY <1>4, <2>1, <2>2
<1> QED
  BY <1>3, <1>4, <1>5, <1>6 DEF left

\* The texts and the tasks which turn stack s into stack r.
TextFrom(s, r) == {t \in Seq(Texts) : Scans(Written(t), s, r)}
TasksFrom(s, r) == {t \in Seq(Tasks) : Scans(t, s, r)}

\* Texts and tasks from one stack to another can be joined.
LEMMA TextsJoin ==
  ASSUME NEW s \in Stacks, NEW q \in Stacks, NEW r \in Stacks
  PROVE  /\ <<>> \in TextFrom(s, s)
         /\ \A t : IsQuiet(t) => t \in TextFrom(s, s)
         /\ \A token \in Texts : TokenStep(token, s, r) => <<token>> \in TextFrom(s, r)
         /\ \A t \in TextFrom(s, q) : \A u \in TextFrom(q, r) : t \o u \in TextFrom(s, r)
<1>1. \A t : IsQuiet(t) => t \in TextFrom(s, s)
  BY QuietScan DEF TextFrom, IsQuiet
<1>2. <<>> \in TextFrom(s, s)
  BY <1>1, QuietParts
<1>3. ASSUME NEW token \in Texts, TokenStep(token, s, r) PROVE <<token>> \in TextFrom(s, r)
  <2>1. <<token>> \in Seq(Texts)
    OBVIOUS
  <2> QED
    BY <1>3, <2>1, TokenScan DEF TextFrom
<1>4. ASSUME NEW t \in TextFrom(s, q), NEW u \in TextFrom(q, r) PROVE t \o u \in TextFrom(s, r)
  <2>1. t \in Seq(Texts) /\ u \in Seq(Texts) /\ Scans(Written(t), s, q) /\ Scans(Written(u), q, r)
    BY DEF TextFrom
  <2>2. t \o u \in Seq(Texts) /\ Written(t \o u) = Written(t) \o Written(u)
    BY <2>1, WrittenJoin
  <2>3. Scans(Written(t) \o Written(u), s, r)
    <3>1. Written(t) \in Seq(Tasks) /\ Written(u) \in Seq(Tasks)
      BY <2>1, WrittenText
    <3> QED
      BY <2>1, <3>1, JoinedScan
  <2> QED
    BY <2>2, <2>3 DEF TextFrom
<1> QED
  BY <1>1, <1>2, <1>3, <1>4

LEMMA TasksJoin ==
  ASSUME NEW s \in Stacks, NEW q \in Stacks, NEW r \in Stacks
  PROVE  /\ <<>> \in TasksFrom(s, s)
         /\ \A t \in Tasks : TaskStep(t, s, r) => <<t>> \in TasksFrom(s, r)
         /\ \A t \in TasksFrom(s, q) : \A u \in TasksFrom(q, r) : t \o u \in TasksFrom(s, r)
<1>1. <<>> \in TasksFrom(s, s)
  BY EmptyScan DEF TasksFrom
<1>2. ASSUME NEW t \in Tasks, TaskStep(t, s, r) PROVE <<t>> \in TasksFrom(s, r)
  <2>1. <<t>> \in Seq(Tasks)
    OBVIOUS
  <2> QED
    BY <1>2, <2>1, SingleScan DEF TasksFrom
<1>3. ASSUME NEW t \in TasksFrom(s, q), NEW u \in TasksFrom(q, r) PROVE t \o u \in TasksFrom(s, r)
  <2>1. t \in Seq(Tasks) /\ u \in Seq(Tasks) /\ Scans(t, s, q) /\ Scans(u, q, r)
    BY DEF TasksFrom
  <2>2. Scans(t \o u, s, r)
    BY <2>1, JoinedScan
  <2> QED
    BY <2>1, <2>2 DEF TasksFrom
<1> QED
  BY <1>1, <1>2, <1>3

\* What the first call writes and leaves to do moves as the call.
CallIsReplaced(tokens, tasks) ==
  \A s, r \in Stacks : TaskStep(todo[1], s, r) =>
    \E q \in Stacks : tokens \in TextFrom(s, q) /\ tasks \in TasksFrom(q, r)

\* What is written and left can still be read when a call is replaced.
LEMMA ScanKept ==
  ASSUME NEW tokens, NEW tasks, out \in Seq(Texts), todo \in Seq(Tasks), todo # <<>>,
         Scans(Whole, <<>>, <<>>), CallIsReplaced(tokens, tasks), Proceed(tokens, tasks)
  PROVE  out' \in Seq(Texts) /\ todo' \in Seq(Tasks) /\ Scans(Whole', <<>>, <<>>)
<1>1. Written(out) \in Seq(Tasks)
  BY WrittenText
<1>2. todo = <<todo[1]>> \o Tail(todo) /\ Tail(todo) \in Seq(Tasks) /\ <<todo[1]>> \in Seq(Tasks) /\ todo[1] \in Tasks
  OBVIOUS
<1>3. PICK q \in Stacks : Scans(Written(out), <<>>, q) /\ Scans(todo, q, <<>>)
  BY <1>1, SplitScan DEF Whole
<1>4. PICK u \in Stacks : Scans(<<todo[1]>>, q, u) /\ Scans(Tail(todo), u, <<>>)
  BY <1>2, <1>3, SplitScan
<1>5. TaskStep(todo[1], q, u)
  <2>1. PICK g : IsScan(g, <<todo[1]>>, q, u)
    BY <1>4 DEF Scans
  <2>2. Len(<<todo[1]>>) = 1 /\ 1 \in 1 .. 1 /\ <<todo[1]>>[1] = todo[1]
    OBVIOUS
  <2>3. <<todo[1], q, u>> \in Moves
    BY <2>1, <2>2 DEF IsScan
  <2> QED
    BY <2>3 DEF Moves
<1>6. PICK v \in Stacks : tokens \in TextFrom(q, v) /\ tasks \in TasksFrom(v, u)
  BY <1>5 DEF CallIsReplaced
<1>7. /\ tokens \in Seq(Texts) /\ tasks \in Seq(Tasks) /\ Written(tokens) \in Seq(Tasks)
      /\ Scans(Written(tokens), q, v) /\ Scans(tasks, v, u)
  BY <1>6, WrittenText DEF TextFrom, TasksFrom
<1>8. PICK text \in Seq(Texts) :
        /\ Written(text) \o todo' = tasks \o Tail(todo)
        /\ Written(out') = (Written(out) \o Written(tokens)) \o Written(text)
  BY <1>7, ProceedWrites
<1>9. out' \in Seq(Texts) /\ todo' \in Seq(Tasks) /\ Written(text) \in Seq(Tasks)
  BY <1>7, ProceedWrites, WrittenText
<1>10. Scans(tasks \o Tail(todo), v, <<>>)
  BY <1>2, <1>4, <1>7, JoinedScan
<1>11. PICK w \in Stacks : Scans(Written(text), v, w) /\ Scans(todo', w, <<>>)
  BY <1>8, <1>9, <1>10, SplitScan
<1>12. Scans(Written(out) \o Written(tokens), <<>>, v)
  BY <1>1, <1>3, <1>7, JoinedScan
<1>13. Written(out) \o Written(tokens) \in Seq(Tasks)
  BY <1>1, <1>7
<1>14. Scans(Written(out'), <<>>, w)
  BY <1>8, <1>9, <1>11, <1>12, <1>13, JoinedScan
<1>15. Written(out') \in Seq(Tasks)
  BY <1>8, <1>9, <1>13
<1>16. Scans(Written(out') \o todo', <<>>, <<>>)
  BY <1>9, <1>11, <1>14, <1>15, JoinedScan
<1> QED
  BY <1>9, <1>16 DEF Whole, Written

\* What is given stays as it is, and the moves with it.
LEMMA MovesKept ==
  ASSUME given' = given
  PROVE  /\ Moves' = Moves
         /\ \A t, s, r : Scans(t, s, r)' <=> Scans(t, s, r)
<1>1. func' = func /\ order' = order /\ meta' = meta /\ loop_dominator' = loop_dominator
  BY DEF given, vars, traversal
<1>2. Moves' = Moves
  BY <1>1 DEF Moves, TaskStep, CallStep, FitsEnd, Fits, LoopsAround, SwitchesAround, Headers, Construct,
         IsLoopHeader, Numbered, RealFlow, is_loop_break, merge_block, Ids
<1> QED
  BY <1>2 DEF Scans, IsScan

-------------------------------------------------------------------------------
(* The scopes which a block needs.                                         *)

\* What the emission is given: a finished CFG of a function which follows the rules.
Rules ==
  /\ Built /\ StructureInv /\ PrecedingInv
  /\ LoopsAreClosed(func) /\ BackEdgesStayInLoops(func) /\ TargetsAreUnique(func)
  /\ ConstructsHaveOneEntry(func) /\ SwitchesHaveMerges(func)

\* One more scope.
LEMMA Nested ==
  ASSUME NEW s \in Stacks, NEW op \in Openers
  PROVE  /\ Append(s, op) \in Stacks /\ Append(s, op) # <<>> /\ Outer(Append(s, op)) = s
         /\ \A kinds : Holds(s, kinds) \/ op \in kinds => Holds(Append(s, op), kinds)
         /\ Holds(s, Loops) => Holds(s, Breakable)
<1> DEFINE r == Append(s, op)
<1>1. /\ r \in Stacks /\ Len(s) \in Nat /\ Len(r) = Len(s) + 1 /\ r[Len(s) + 1] = op /\ r # <<>>
      /\ DOMAIN s = 1 .. Len(s) /\ DOMAIN r = 1 .. Len(s) + 1 /\ \A k \in 1 .. Len(s) : r[k] = s[k]
  BY DEF Stacks
<1>2. Outer(r) = s
  BY <1>1 DEF Outer, Stacks
<1>3. ASSUME NEW kinds, Holds(s, kinds) \/ op \in kinds PROVE Holds(r, kinds)
  <2> HIDE DEF r
  <2>1. CASE Holds(s, kinds)
    <3>1. PICK k \in DOMAIN s : s[k] \in kinds
      BY <2>1 DEF Holds
    <3>2. k \in DOMAIN r /\ r[k] \in kinds
      BY <1>1, <3>1
    <3> QED
      BY <3>2 DEF Holds
  <2>2. CASE op \in kinds
    <3>1. Len(s) + 1 \in DOMAIN r
      BY <1>1
    <3> QED
      BY <1>1, <2>2, <3>1 DEF Holds
  <2> QED
    BY <1>3, <2>1, <2>2
<1>4. Holds(s, Loops) => Holds(s, Breakable)
  BY DEF Holds, Breakable
<1> QED
  BY <1>1, <1>2, <1>3, <1>4

\* More scopes do not hurt.
LEMMA FitsInside ==
  ASSUME NEW s \in Stacks, NEW op \in Openers, NEW x
  PROVE  /\ Fits(x, s) => Fits(x, Append(s, op))
         /\ FitsEnd(x, s) => FitsEnd(x, Append(s, op))
BY Nested DEF Fits, FitsEnd

\* The constructs which a branch or a merge instruction of block x leads to are those
\* around the end of x.
LEMMA EdgeFits ==
  ASSUME Rules, NEW x \in Numbered, NEW y, <<x, y>> \in StructuralFlow, NEW s, FitsEnd(x, s)
  PROVE  Fits(y, s)
<1>1. x \in Ids /\ x \in Structural(NoBlock)
  BY FlowsNest DEF Rules
<1>2. ASSUME NEW h \in Ids, func[h].merge # "none", h # y, y \in Construct(h)
      PROVE  x = h \/ x \in Construct(h)
  BY <1>1, <1>2 DEF Rules, ConstructsHaveOneEntry, Structural, StructuralFlow, Construct, Ids
<1>3. LoopsAround(y) # {} => Holds(s, Loops)
  <2> SUFFICES ASSUME NEW h \in LoopsAround(y) PROVE Holds(s, Loops)
    OBVIOUS
  <2>1. h \in Ids /\ func[h].merge = "loop" /\ h # y /\ y \in Construct(h)
    BY DEF LoopsAround, Headers, Ids
  <2>2. CASE x = h
    BY <2>1, <2>2 DEF FitsEnd, IsLoopHeader
  <2>3. CASE x # h /\ x \in Construct(h)
    <3>1. h \in LoopsAround(x)
      BY <2>1, <2>3 DEF LoopsAround, Headers, Ids
    <3> QED
      BY <3>1 DEF FitsEnd, Fits
  <2> QED
    BY <1>2, <2>1, <2>2, <2>3
<1>4. SwitchesAround(y) # {} => Holds(s, Breakable)
  <2> SUFFICES ASSUME NEW h \in SwitchesAround(y) PROVE Holds(s, Breakable)
    OBVIOUS
  <2>1. h \in Ids /\ func[h].terminator = "multiselect" /\ h # y /\ y \in Construct(h)
    BY DEF SwitchesAround
  <2>2. func[h].merge # "none"
    BY <2>1 DEF Rules, SwitchesHaveMerges, Ids
  <2>3. CASE x = h
    BY <2>1, <2>3 DEF FitsEnd
  <2>4. CASE x # h /\ x \in Construct(h)
    <3>1. h \in SwitchesAround(x)
      BY <2>1, <2>4 DEF SwitchesAround
    <3> QED
      BY <3>1 DEF FitsEnd, Fits
  <2> QED
    BY <1>2, <2>1, <2>2, <2>3, <2>4
<1> QED
  BY <1>3, <1>4 DEF Fits

\* What follows a construct is where the construct is.
LEMMA MergeFits ==
  ASSUME Rules, NEW x \in Numbered, func[x].merge # "none", NEW s, Fits(x, s)
  PROVE  func[x].merge_block \in Numbered /\ Fits(func[x].merge_block, s)
<1> DEFINE y == func[x].merge_block
<1>1. x \in Ids /\ x \in Structural(NoBlock) /\ Numbered = Without(NoBlock) /\ NoBlock \notin Blocks
      /\ Ids \subseteq Blocks /\ VisitFlow(func) \subseteq StructuralFlow
  BY FlowsNest DEF Rules
<1>2. <<x, y>> \in VisitFlow(func) /\ <<x, y>> \in StructuralFlow
  BY <1>1, FlowEdges
<1>3. y \in Numbered
  <2>1. TypeInv /\ func \in Functions
    BY DEF Rules, Built, IInv, TypeInv
  <2>2. y # NoBlock
    BY <1>1, <1>2, <2>1, VisitFlowIsBranches
  <2> QED
    BY <1>1, <1>2, <2>1, <2>2, WithoutIsClosed
<1>4. y \notin Construct(x)
  BY <1>1, ConstructIsDominated DEF Rules
<1>5. ASSUME NEW h \in Ids, func[h].merge # "none", h # y, y \in Construct(h)
      PROVE  x # h /\ x \in Construct(h)
  BY <1>1, <1>2, <1>4, <1>5 DEF Rules, ConstructsHaveOneEntry, Structural, StructuralFlow, Construct, Ids
<1>6. LoopsAround(y) # {} => LoopsAround(x) # {}
  BY <1>5 DEF LoopsAround, Headers, Ids
<1>7. SwitchesAround(y) # {} => SwitchesAround(x) # {}
  <2> SUFFICES ASSUME NEW h \in SwitchesAround(y) PROVE h \in SwitchesAround(x)
    OBVIOUS
  <2>1. h \in Ids /\ func[h].terminator = "multiselect" /\ h # y /\ y \in Construct(h)
    BY DEF SwitchesAround
  <2>2. func[h].merge # "none"
    BY <2>1 DEF Rules, SwitchesHaveMerges, Ids
  <2> QED
    BY <1>5, <2>1, <2>2 DEF SwitchesAround
<1> QED
  BY <1>3, <1>6, <1>7 DEF Fits

\* An edge is a branch, a merge or one to a continue target.
LEMMA StructuralEdges ==
  ASSUME NEW x, NEW y, <<x, y>> \in StructuralFlow
  PROVE  /\ x \in Ids
         /\ <<x, y>> \in VisitFlow(func) \/ (func[x].merge = "loop" /\ y = func[x].continue_block)
<1>1. PICK z \in Ids :
        <<x, y>> \in {z} \X (Elements(func[z].targets)
                               \cup (IF func[z].merge = "none" THEN {} ELSE {func[z].merge_block})
                               \cup (IF func[z].merge = "loop" THEN {func[z].continue_block} ELSE {}))
  BY DEF StructuralFlow, StructuralFlowOf, Ids
<1>2. x = z
  BY <1>1
<1>3. CASE func[x].merge = "loop" /\ y = func[x].continue_block
  BY <1>1, <1>2, <1>3
<1>4. CASE ~(func[x].merge = "loop" /\ y = func[x].continue_block)
  <2> DEFINE to == Elements(func[x].targets) \cup (IF func[x].merge = "none" THEN {} ELSE {func[x].merge_block})
  <2>1. y \in to
    BY <1>1, <1>2, <1>4
  <2>2. <<x, y>> \in {x} \X to
    BY <2>1
  <2> QED
    BY <1>1, <1>2, <2>2 DEF VisitFlow, Ids
<1> QED
  BY <1>3, <1>4

\* A block which is dominated but for the way to a continue target is in a loop.
LEMMA LoopsAreAroundDetours ==
  ASSUME Rules, NEW x, NEW d, x \in Structural(d), x \notin Without(d)
  PROVE  LoopsAround(x) # {}
<1> DEFINE P == Structural(d) \cap (Without(d) \cup
                  {z \in Structural(NoBlock) : \E h \in Headers("loop") : h \in Without(d) /\ z \in Construct(h)})
<1>1. /\ Entry \in Blocks /\ NoBlock \notin Blocks /\ Ids \subseteq Blocks
      /\ StructuralFlow \in SUBSET (Blocks \X Blocks) /\ VisitFlow(func) \subseteq StructuralFlow
      /\ Without(d) \subseteq Structural(d) /\ Without(NoBlock) \subseteq Structural(NoBlock)
  BY FlowsNest DEF Rules
<1>2. TypeInv
  BY DEF Rules, Built, IInv
<1>3. /\ d \notin Without(d) /\ (Entry # d => Entry \in Without(d))
      /\ \A y, z : <<y, z>> \in VisitFlow(func) /\ y \in Without(d) /\ z # d => z \in Without(d)
  BY <1>2, WithoutIsClosed
<1>4. /\ Structural(d) \subseteq Blocks /\ IsClosedWithout(StructuralFlow, d, Structural(d))
      /\ IsClosedWithout(StructuralFlow, NoBlock, Structural(NoBlock))
      /\ Entry \in Structural(NoBlock) /\ (Entry # d => Entry \in Structural(d))
  BY <1>1, ReachableIsClosed DEF Structural
<1>5. Structural(d) \subseteq Structural(NoBlock)
  <2>1. IsClosedWithout(StructuralFlow, d, Structural(NoBlock))
    BY <1>1, <1>4 DEF IsClosedWithout
  <2> QED
    BY <1>1, <1>4, <2>1, ReachableIsLeast DEF Structural
<1>6. ASSUME NEW y \in P, NEW z, <<y, z>> \in StructuralFlow, z # d PROVE z \in P
  <2>1. y \in Structural(NoBlock) /\ z \in Structural(d) /\ z \in Structural(NoBlock) /\ y \in Ids
    <3>1. y \in Ids
      BY <1>6, StructuralEdges
    <3>2. y \in Structural(d)
      OBVIOUS
    <3>3. z \in Structural(d)
      BY <1>4, <1>6, <3>2 DEF IsClosedWithout
    <3> QED
      BY <1>5, <3>1, <3>2, <3>3
  <2>2. CASE y \in Without(d)
    <3>1. CASE <<y, z>> \in VisitFlow(func)
      BY <1>3, <1>6, <2>1, <2>2, <3>1
    <3>2. CASE ~(<<y, z>> \in VisitFlow(func))
      <4>1. func[y].merge = "loop" /\ z = func[y].continue_block
        BY <1>6, <3>2, StructuralEdges
      <4>2. z \in Construct(y)
        BY <2>1, <4>1, LoopIsClosed DEF Rules
      <4>3. y \in Headers("loop")
        BY <2>1, <4>1 DEF Headers, Ids
      <4> QED
        BY <2>1, <2>2, <4>2, <4>3
    <3> QED
      BY <3>1, <3>2
  <2>3. CASE y \notin Without(d)
    <3>1. PICK h \in Headers("loop") : h \in Without(d) /\ y \in Construct(h)
      BY <2>3
    <3>2. h \in Ids /\ func[h].merge = "loop"
      BY <3>1 DEF Headers, Ids
    <3>3. z \in Construct(h) \/ z = func[h].merge_block
      BY <1>6, <2>1, <3>1, <3>2, LoopIsClosed DEF Rules
    <3>4. CASE z \in Construct(h)
      BY <2>1, <3>1, <3>4
    <3>5. CASE z = func[h].merge_block
      <4>1. <<h, z>> \in VisitFlow(func)
        BY <3>2, <3>5, FlowEdges
      <4> QED
        BY <1>3, <1>6, <2>1, <3>1, <4>1
    <3> QED
      BY <3>3, <3>4, <3>5
  <2> QED
    BY <2>2, <2>3
<1>7. Entry # d => Entry \in P
  BY <1>3, <1>4
<1>8. IsClosedWithout(StructuralFlow, d, P)
  <2> HIDE DEF P
  <2> SUFFICES ASSUME NEW e \in StructuralFlow, e[1] \in P, e[2] # d PROVE e[2] \in P
    BY DEF IsClosedWithout
  <2>1. e = <<e[1], e[2]>>
    BY <1>1
  <2> QED
    BY <1>6, <2>1
<1>9. x \in P
  <2> HIDE DEF P
  <2> QED
    BY <1>1, <1>7, <1>8, ReachableIsLeast DEF Structural
<1>10. PICK h \in Headers("loop") : h \in Without(d) /\ x \in Construct(h)
  BY <1>9
<1>11. h \in LoopsAround(x)
  BY <1>10 DEF LoopsAround
<1> QED
  BY <1>11

\* What the marks of the parser say of the blocks.
MarkInv ==
  \A y \in Ids :
    /\ "loop merge" \in meta[y] => \E h \in Ids : func[h].merge = "loop" /\ func[h].merge_block = y
    /\ "switch merge" \in meta[y] =>
         \E h \in Ids : func[h].terminator = "multiselect" /\ func[h].merge # "none" /\ func[h].merge_block = y
    /\ "continue" \in meta[y] => \E h \in Ids : func[h].merge = "loop" /\ func[h].continue_block = y /\ h # y
    /\ header_of[y] # NoBlock =>
         header_of[y] \in Ids /\ func[header_of[y]].merge = "loop" /\ func[header_of[y]].continue_block = y

\* A branch to a merge block is one out of its construct.
LEMMA BreakFits ==
  ASSUME Rules, MarkInv, NEW x \in Numbered, NEW y, <<x, y>> \in RealFlow, x # y, is_break(y),
         NEW s, FitsEnd(x, s)
  PROVE  Holds(s, Breakable)
<1>1. /\ x \in Ids /\ RealFlow \subseteq VisitFlow(func) /\ \A d : Without(d) \subseteq Structural(d)
      /\ Ids \subseteq Blocks /\ RealFlow \in SUBSET (Blocks \X Blocks)
  BY FlowsNest DEF Rules
<1>2. TypeInv /\ func \in Functions
  BY DEF Rules, Built, IInv, TypeInv
<1>3. y \in Ids
  <2>1. VisitFlow(func) \in SUBSET (Ids \X Ids)
    BY <1>2, VisitFlowIsBranches
  <2> QED
    BY <1>1, <2>1
<1>4. PICK h \in Ids : /\ func[h].merge # "none" /\ func[h].merge_block = y
                       /\ func[h].merge = "loop" \/ func[h].terminator = "multiselect"
  <2>1. CASE "loop merge" \in meta[y]
    <3>1. PICK h \in Ids : func[h].merge = "loop" /\ func[h].merge_block = y
      BY <1>3, <2>1 DEF MarkInv
    <3> QED
      BY <3>1
  <2>2. CASE "switch merge" \in meta[y]
    <3>1. PICK h \in Ids : func[h].terminator = "multiselect" /\ func[h].merge # "none" /\ func[h].merge_block = y
      BY <1>3, <2>2 DEF MarkInv
    <3> QED
      BY <3>1
  <2> QED
    BY <2>1, <2>2 DEF is_break
<1>5. Holds(s, Loops) => Holds(s, Breakable)
  BY DEF Holds, Breakable
<1>6. LoopsAround(x) # {} \/ SwitchesAround(x) # {} => Holds(s, Breakable)
  BY <1>5 DEF FitsEnd, Fits
<1>7. CASE h = x
  BY <1>4, <1>5, <1>7 DEF FitsEnd, IsLoopHeader
<1>8. CASE h # x /\ x \in Construct(h)
  <2>1. h \in LoopsAround(x) \/ h \in SwitchesAround(x)
    BY <1>4, <1>8 DEF LoopsAround, SwitchesAround, Headers, Ids
  <2> QED
    BY <1>6, <2>1
<1>9. CASE h # x /\ x \notin Construct(h)
  <2>1. y \notin Without(h) /\ h # y
    BY <1>4, ConstructIsDominated DEF Rules
  <2>2. x \notin Without(h)
    BY <1>1, <1>2, <2>1, WithoutIsClosed
  <2>3. CASE x \in Structural(h)
    BY <1>6, <2>2, <2>3, LoopsAreAroundDetours
  <2>4. CASE x \notin Structural(h)
    <3>1. x \notin Structural(y)
      BY <1>1, <1>4, <1>9, <2>4 DEF Construct, ConstructOf, Structural, StructuralFlow, Ids
    <3>2. x \notin Without(y)
      BY <1>1, <3>1
    <3>3. func[y].merge = "loop" /\ x \in Construct(y)
      BY <3>2, BackEdges DEF Rules
    <3>4. y \in LoopsAround(x)
      BY <1>3, <3>3 DEF LoopsAround, Headers, Ids
    <3> QED
      BY <1>6, <3>4
  <2> QED
    BY <2>3, <2>4
<1> QED
  BY <1>7, <1>8, <1>9

\* A continue target is in its loop.
LEMMA ContinueFits ==
  ASSUME Rules, MarkInv, NEW y \in Ids, is_continue(y)
  PROVE  LoopsAround(y) # {}
<1>1. PICK h \in Ids : func[h].merge = "loop" /\ func[h].continue_block = y /\ h # y
  BY DEF is_continue, MarkInv
<1>2. y \in Construct(h)
  BY <1>1, LoopIsClosed DEF Rules
<1>3. h \in LoopsAround(y)
  BY <1>1, <1>2 DEF LoopsAround, Headers, Ids
<1> QED
  BY <1>3

\* Where the search for the construct around a block ends.
StopsAt(x, y) ==
  LET m == IF IsLoopHeader(y) THEN merge_block(y) ELSE next_block(y)
  IN /\ func[y].terminator = "multiselect" \/ IsLoopHeader(y)
     /\ ~(m # NoBlock /\ find_common_dominator(m, x) = m)

\* The search for a switch around an OpUnreachable ends at a dominator.
LEMMA SwitchIsAbove ==
  ASSUME Rules, NEW x \in Numbered, IsInSwitch(x)
  PROVE  \E z \in Numbered : x \notin Without(z) /\ StopsAt(x, z) /\ func[z].terminator = "multiselect"
<1> DEFINE n == Len(post_order)
           next == [y \in Blocks |-> IF idom[y] \in Blocks THEN idom[y] ELSE y]
           r == [y \in Blocks |-> n - order[y]]
           T == {y \in Blocks : StopsAt(x, y) \/ preceding[y] = <<>>}
           v == [y \in Blocks |-> StopsAt(x, y) /\ func[y].terminator = "multiselect"]
           G == [q \in Blocks \X BOOLEAN |-> q[2]]
           Is(f) == f = [y \in Blocks |-> IF StopsAt(x, y) THEN func[y].terminator = "multiselect"
                                          ELSE preceding[y] # <<>> /\ f[idom[y]]]
<1>1. /\ TypeInv /\ EdgesDescend /\ order \in [Blocks -> Nat] /\ n \in Nat
      /\ \A y \in Blocks : order[y] <= n
      /\ \A y \in Numbered : y # Entry =>
           idom[y] \in Numbered /\ order[idom[y]] > order[y] /\ Dom(y) = Dom(idom[y]) \cup {y}
      /\ \A y \in Numbered : order[y] <= order[Entry]
      /\ Entry \in Numbered
  BY TheTree DEF Rules, Built, IInv
<1>2. Numbered \subseteq Blocks /\ Numbered \subseteq Ids
  BY FlowsNest DEF Rules, Numbered
<1>3. ASSUME NEW y \in Blocks, preceding[y] # <<>> PROVE y \in Numbered /\ y # Entry
  <2>1. preceding[y] \in Seq(Ids)
    BY <1>1 DEF TypeInv
  <2>2. 1 \in DOMAIN preceding[y]
    BY <1>3, <2>1
  <2>3. preceding[y][1] \in Elements(preceding[y]) /\ preceding[y][1] \in Blocks
    <3>1. Ids \subseteq Blocks
      BY FlowsNest DEF Rules
    <3> QED
      BY <2>1, <2>2, <3>1 DEF Elements
  <2>4. order[y] # 0 /\ order[y] < order[preceding[y][1]]
    BY <2>3 DEF EdgesDescend, Rules, Built, IInv
  <2>5. y \in Numbered /\ preceding[y][1] \in Numbered
    BY <1>1, <2>3, <2>4 DEF Numbered
  <2>6. order[y] < order[Entry]
    BY <1>1, <1>2, <2>3, <2>4, <2>5
  <2> QED
    BY <1>1, <1>2, <2>5, <2>6
<1>4. IsRecursion(Blocks, BOOLEAN, T, v, next, G, r)
  <2>1. next \in [Blocks -> Blocks] /\ r \in [Blocks -> Nat]
    BY <1>1
  <2>2. v \in [Blocks -> BOOLEAN]
    BY DEF StopsAt
  <2>3. G \in [Blocks \X BOOLEAN -> BOOLEAN]
    OBVIOUS
  <2>4. ASSUME NEW y \in Blocks, y \notin T PROVE r[next[y]] < r[y]
    <3>1. y \in Numbered /\ y # Entry
      BY <1>3, <2>4
    <3>2. idom[y] \in Blocks /\ order[idom[y]] > order[y] /\ order[y] \in Nat /\ order[idom[y]] \in Nat
      BY <1>1, <1>2, <3>1
    <3> QED
      BY <1>1, <3>2
  <2> HIDE DEF next, r, v, G, T
  <2> QED
    BY <2>1, <2>2, <2>3, <2>4 DEF IsRecursion, IsRanked
<1>5. \E f : Is(f)
  <2>1. PICK f : Solves(f, Blocks, BOOLEAN, T, v, next, G)
    <3> HIDE DEF next, r, v, G, T
    <3> QED
      BY <1>4, RecursiveFunctionExists
  <2>2. f \in [Blocks -> BOOLEAN] /\ \A y \in Blocks : f[y] = IF y \in T THEN v[y] ELSE G[<<y, f[next[y]]>>]
    <3> HIDE DEF next, r, v, G, T
    <3> QED
      BY <2>1 DEF Solves
  <2>3. ASSUME NEW y \in Blocks
        PROVE  f[y] = IF StopsAt(x, y) THEN func[y].terminator = "multiselect" ELSE preceding[y] # <<>> /\ f[idom[y]]
    <3>1. CASE StopsAt(x, y)
      BY <2>2, <3>1
    <3>2. CASE ~StopsAt(x, y) /\ preceding[y] = <<>>
      BY <2>2, <3>2
    <3>3. CASE ~StopsAt(x, y) /\ preceding[y] # <<>>
      <4>1. idom[y] \in Blocks /\ next[y] = idom[y] /\ y \notin T
        BY <1>1, <1>2, <1>3, <3>3
      <4>2. f[idom[y]] \in BOOLEAN /\ f[y] = G[<<y, f[idom[y]]>>]
        BY <2>2, <4>1
      <4>3. f[y] = f[idom[y]]
        BY <4>2
      <4> HIDE DEF next, r, v, G, T
      <4> QED
        BY <3>3, <4>2, <4>3
    <3> QED
      BY <3>1, <3>2, <3>3
  <2> HIDE DEF next, r, v, G, T
  <2>4. f = [y \in Blocks |-> f[y]]
    BY <2>2
  <2>5. f = [y \in Blocks |-> IF StopsAt(x, y) THEN func[y].terminator = "multiselect" ELSE preceding[y] # <<>> /\ f[idom[y]]]
    BY <2>3, <2>4
  <2> QED
    BY <2>5
<1> DEFINE c == CHOOSE f : Is(f)
<1>6. Is(c)
  <2> HIDE DEF Is
  <2> QED
    BY <1>5
<1>7. IsInSwitch(x) = c[x]
  BY DEF IsInSwitch, StopsAt
<1> HIDE DEF c
<1>8. \A y \in Blocks : c[y] = IF StopsAt(x, y) THEN func[y].terminator = "multiselect"
                               ELSE preceding[y] # <<>> /\ c[idom[y]]
  BY <1>6
<1> HIDE DEF Is
<1> DEFINE Ends(y) == \E z \in Numbered : y \notin Without(z) /\ StopsAt(x, z) /\ func[z].terminator = "multiselect"
           Bad == {y \in Numbered : c[y] /\ ~Ends(y)}
<1>9. ASSUME NEW y \in Bad PROVE \E q \in Bad : r[q] < r[y]
  <2>1. y \in Numbered /\ y \in Blocks /\ c[y] /\ ~Ends(y)
    BY <1>2
  <2>2. y \notin Without(y)
    BY <1>1, WithoutIsClosed
  <2>3. ~StopsAt(x, y)
    BY <1>8, <2>1, <2>2
  <2>4. preceding[y] # <<>> /\ c[idom[y]]
    BY <1>8, <2>1, <2>3
  <2>5. y # Entry /\ idom[y] \in Numbered /\ order[idom[y]] > order[y] /\ Dom(y) = Dom(idom[y]) \cup {y}
    BY <1>1, <1>3, <2>1, <2>4
  <2>6. ~Ends(idom[y])
    <3> SUFFICES ASSUME NEW z \in Numbered, idom[y] \notin Without(z), StopsAt(x, z), func[z].terminator = "multiselect"
                 PROVE FALSE
      OBVIOUS
    <3>1. idom[y] \in Dom(idom[y])
      <4>1. idom[y] \notin Without(idom[y]) /\ idom[y] \in Blocks
        BY <1>1, <1>2, <2>5, WithoutIsClosed
      <4> QED
        BY <4>1, DomIsWithout DEF Rules
    <3>2. y \notin Without(idom[y])
      <4>1. idom[y] \in Dom(y) /\ idom[y] \in Blocks
        BY <1>2, <2>5, <3>1
      <4> QED
        BY <2>1, <4>1, DomIsWithout DEF Rules
    <3>3. y \notin Without(z)
      BY <3>2, NumberedTransitive DEF Rules
    <3> QED
      BY <2>1, <3>3
  <2>7. idom[y] \in Bad
    BY <2>4, <2>5, <2>6
  <2>8. r[idom[y]] < r[y]
    BY <1>1, <1>2, <2>1, <2>5
  <2> QED
    BY <2>7, <2>8
<1>10. Bad = {}
  <2>1. r \in [Blocks -> Nat] /\ Bad \in SUBSET Blocks
    BY <1>1, <1>2
  <2> HIDE DEF r, Bad
  <2> QED
    BY <1>9, <2>1, RankInduction
<1> QED
  BY <1>7, <1>10

\* An OpUnreachable which is taken for a break is in a loop or a switch.
LEMMA UnreachableFits ==
  ASSUME Rules, NEW x \in Numbered, func[x].terminator = "exit", IsInSwitch(x), NEW s, Fits(x, s)
  PROVE  Holds(s, Breakable)
<1>1. PICK z \in Numbered : x \notin Without(z) /\ StopsAt(x, z) /\ func[z].terminator = "multiselect"
  BY SwitchIsAbove
<1>2. Numbered \subseteq Ids /\ Numbered \subseteq Blocks /\ \A d : Without(d) \subseteq Structural(d)
  BY FlowsNest DEF Rules, Numbered
<1>3. func[z].merge = "selection" /\ z \in Ids /\ z # x
  BY <1>1, <1>2 DEF Rules, SwitchesHaveMerges, Ids
<1> DEFINE m == func[z].merge_block
<1>4. m \in Numbered
  <2>1. TypeInv /\ <<z, m>> \in VisitFlow(func) /\ Numbered = Without(NoBlock) /\ func \in Functions
    BY <1>3, FlowsNest, FlowEdges DEF Rules, Built, IInv, TypeInv
  <2>2. m # NoBlock
    BY <2>1, VisitFlowIsBranches, FunctionsAssumption
  <2> QED
    BY <1>1, <2>1, <2>2, WithoutIsClosed
<1>5. find_common_dominator(m, x) # m
  <2>1. m # NoBlock
    BY <1>2, <1>4, FunctionsAssumption
  <2>2. ~IsLoopHeader(z) /\ next_block(z) = m
    BY <1>3 DEF IsLoopHeader, next_block
  <2> QED
    BY <1>1, <2>1, <2>2 DEF StopsAt
<1>6. x \in Without(m)
  <2> SUFFICES ASSUME x \notin Without(m) PROVE FALSE
    OBVIOUS
  <2> DEFINE d == find_common_dominator(m, x)
  <2>1. d \in Numbered /\ Dom(d) = Dom(m) \cap Dom(x)
    BY <1>4, CommonDominatorIsRight DEF Rules
  <2> HIDE DEF d, m
  <2>2. m \in Blocks /\ x \in Blocks /\ d \in Blocks /\ m \notin Without(m) /\ d \notin Without(d)
    BY <1>2, <1>4, <2>1, WithoutIsClosed DEF Rules, Built, IInv
  <2>3. m \in Dom(x) /\ m \in Dom(m) /\ d \in Dom(d)
    BY <2>2, DomIsWithout DEF Rules
  <2>4. m \in Dom(d) /\ d \in Dom(m)
    BY <2>1, <2>3
  <2>5. d \notin Without(m) /\ m \notin Without(d)
    BY <2>2, <2>4, DomIsWithout DEF Rules
  <2>6. d = m
    BY <1>4, <2>1, <2>5, NumberedAntisymmetric DEF Rules
  <2> QED
    BY <1>5, <2>6 DEF d
<1>7. CASE x \in Structural(z)
  <2>1. LoopsAround(x) # {}
    BY <1>1, <1>7, LoopsAreAroundDetours
  <2> QED
    BY <2>1 DEF Fits, Holds, Breakable
<1>8. CASE x \notin Structural(z)
  <2>1. x \in Construct(z)
    BY <1>2, <1>6, <1>8 DEF Construct, ConstructOf, Structural, StructuralFlow, Ids
  <2>2. z \in SwitchesAround(x)
    BY <1>1, <1>3, <2>1 DEF SwitchesAround
  <2> QED
    BY <2>2 DEF Fits
<1> QED
  BY <1>7, <1>8

-------------------------------------------------------------------------------
(* What is given to the emission.                                          *)

\* The parser keeps a loop header as it is.
LEMMA LoopHeaderIsParsed ==
  ASSUME NEW f, NEW h \in DOMAIN f, LoopsAreKept(f), f[h].merge = "loop"
  PROVE  Parsed(f[h]) = f[h]
BY DEF LoopsAreKept, Parsed, IsEmulatedSwitch

\* What the parser marks are merge blocks and continue targets.
LEMMA MarksAreRight ==
  ASSUME NEW f, LoopsAreKept(f), \A h \in DOMAIN f : f[h] \in Instructions,
         func = Blocks_of(f), meta = block_meta(f), header_of = header_of_continue(f)
  PROVE  MarkInv
<1>1. Ids = DOMAIN f /\ \A h \in DOMAIN f : func[h] = Parsed(f[h])
  BY DEF Blocks_of, Ids
<1>2. \A h \in Ids : f[h].merge = "loop" => func[h] = f[h]
  BY <1>1, LoopHeaderIsParsed
<1> SUFFICES ASSUME NEW y \in Ids
             PROVE  /\ "loop merge" \in meta[y] => \E h \in Ids : func[h].merge = "loop" /\ func[h].merge_block = y
                    /\ "switch merge" \in meta[y] =>
                         \E h \in Ids : func[h].terminator = "multiselect" /\ func[h].merge # "none" /\ func[h].merge_block = y
                    /\ "continue" \in meta[y] => \E h \in Ids : func[h].merge = "loop" /\ func[h].continue_block = y /\ h # y
                    /\ header_of[y] # NoBlock =>
                         header_of[y] \in Ids /\ func[header_of[y]].merge = "loop" /\ func[header_of[y]].continue_block = y
  BY DEF MarkInv
<1>3. \A mark : mark \in meta[y] => \E h \in Ids : mark \in MarksOf(f, h, y)
  BY <1>1 DEF block_meta
<1>4. ASSUME "loop merge" \in meta[y] PROVE \E h \in Ids : func[h].merge = "loop" /\ func[h].merge_block = y
  <2>1. PICK h \in Ids : "loop merge" \in MarksOf(f, h, y)
    BY <1>3, <1>4
  <2>2. f[h].merge = "loop" /\ y = f[h].merge_block
    BY <2>1 DEF MarksOf
  <2> QED
    BY <1>2, <2>2
<1>5. ASSUME "switch merge" \in meta[y]
      PROVE \E h \in Ids : func[h].terminator = "multiselect" /\ func[h].merge # "none" /\ func[h].merge_block = y
  <2>1. PICK h \in Ids : "switch merge" \in MarksOf(f, h, y)
    BY <1>3, <1>5
  <2>2. f[h].merge = "selection" /\ y = f[h].merge_block /\ (f[h].terminator = "multiselect" \/ IsEmulatedSwitch(f[h]))
    BY <2>1 DEF MarksOf
  <2>3. func[h] = Parsed(f[h])
    BY <1>1
  <2>4. CASE IsEmulatedSwitch(f[h])
    <3>1. func[h] = [f[h] EXCEPT !.terminator = "multiselect", !.targets = <<f[h].targets[1]>>]
      BY <2>3, <2>4 DEF Parsed
    <3>2. f[h] \in Instructions
      BY <1>1
    <3> QED
      BY <2>2, <3>1, <3>2 DEF Instructions
  <2>5. CASE ~IsEmulatedSwitch(f[h])
    <3>1. func[h] = f[h]
      BY <2>2, <2>3, <2>5 DEF Parsed, IsBogus
    <3> QED
      BY <2>2, <2>5, <3>1
  <2> QED
    BY <2>4, <2>5
<1>6. ASSUME "continue" \in meta[y] PROVE \E h \in Ids : func[h].merge = "loop" /\ func[h].continue_block = y /\ h # y
  <2>1. PICK h \in Ids : "continue" \in MarksOf(f, h, y)
    BY <1>3, <1>6
  <2>2. f[h].merge = "loop" /\ y = f[h].continue_block /\ y # h
    BY <2>1 DEF MarksOf
  <2> QED
    BY <1>2, <2>2
<1>7. ASSUME header_of[y] # NoBlock
      PROVE header_of[y] \in Ids /\ func[header_of[y]].merge = "loop" /\ func[header_of[y]].continue_block = y
  <2> DEFINE headers == {h \in Ids : f[h].merge = "loop" /\ f[h].continue_block = y}
  <2>1. header_of[y] = IF headers = {} THEN NoBlock ELSE CHOOSE h \in headers : TRUE
    BY <1>1 DEF header_of_continue
  <2>2. header_of[y] \in headers
    BY <1>7, <2>1
  <2> QED
    BY <1>2, <2>2
<1> QED
  BY <1>4, <1>5, <1>6, <1>7

-------------------------------------------------------------------------------
(* What the helpers write.                                                 *)

\* The fields of a block.
LEMMA Fields ==
  ASSUME func \in Functions, NEW x \in Ids
  PROVE  /\ Ids \subseteq Blocks /\ NoBlock \notin Blocks
         /\ func[x].targets \in Seq(Ids) /\ Elements(func[x].targets) \subseteq Ids
         /\ func[x].terminator \in {"direct", "select", "multiselect", "exit"}
         /\ func[x].merge \in {"none", "loop", "selection"}
         /\ func[x].merge # "none" => func[x].merge_block \in Ids
         /\ func[x].merge = "loop" => func[x].continue_block \in Ids
         /\ func[x].terminator = "direct" => func[x].targets[1] \in Elements(func[x].targets) /\ func[x].merge # "selection"
         /\ func[x].terminator = "select" =>
              func[x].targets[1] \in Elements(func[x].targets) /\ func[x].targets[2] \in Elements(func[x].targets)
         /\ func[x].terminator = "multiselect" => func[x].targets[1] \in Elements(func[x].targets)
         /\ func[x].terminator = "exit" => func[x].merge = "none"
         /\ next_block(x) \in Ids \cup {NoBlock} /\ true_block(x) \in Ids \cup {NoBlock} /\ false_block(x) \in Ids \cup {NoBlock}
<1>1. /\ Ids \subseteq Blocks /\ Entry \in Ids /\ NoBlock \notin Blocks /\ BlockOK(func[x], Ids)
  BY FunctionsAssumption DEF Ids
<1>2. /\ func[x].targets \in Seq(Ids)
      /\ func[x].terminator = "direct" => Len(func[x].targets) = 1
      /\ func[x].terminator = "select" => Len(func[x].targets) = 2
      /\ func[x].terminator = "multiselect" => func[x].targets # <<>>
  BY <1>1 DEF BlockOK
<1>3. \A k \in DOMAIN func[x].targets : func[x].targets[k] \in Ids /\ func[x].targets[k] \in Elements(func[x].targets)
  BY <1>2 DEF Elements
<1>4. Elements(func[x].targets) \subseteq Ids
  BY <1>3 DEF Elements
<1>5. /\ func[x].terminator = "direct" => 1 \in DOMAIN func[x].targets
      /\ func[x].terminator = "select" => 1 \in DOMAIN func[x].targets /\ 2 \in DOMAIN func[x].targets
      /\ func[x].terminator = "multiselect" => 1 \in DOMAIN func[x].targets
  BY <1>2
<1>6. /\ func[x].terminator \in {"direct", "select", "multiselect", "exit"}
      /\ func[x].merge \in {"none", "loop", "selection"}
      /\ func[x].merge # "none" => func[x].merge_block \in Ids
      /\ func[x].merge = "loop" => func[x].continue_block \in Ids
      /\ func[x].terminator = "direct" => func[x].merge # "selection"
      /\ func[x].terminator = "exit" => func[x].merge = "none"
  BY <1>1 DEF BlockOK
<1>7. next_block(x) \in Ids \cup {NoBlock} /\ true_block(x) \in Ids \cup {NoBlock} /\ false_block(x) \in Ids \cup {NoBlock}
  BY <1>3, <1>5, <1>6 DEF next_block, true_block, false_block
<1> QED
  BY <1>1, <1>2, <1>3, <1>4, <1>5, <1>6, <1>7

\* Tokens, statements and the assignments of an edge.
LEMMA TokensAreTexts ==
  \A op \in AllOps : \A x, y \in Blocks \cup {NoBlock} :
    /\ Token(op, x, y) \in Texts /\ Token(op, x, y).op = op
    /\ Of(op, x) \in Texts /\ Of(op, x).op = op
    /\ Plain(op) \in Texts /\ Plain(op).op = op
BY DEF Token, Of, Plain, Texts

LEMMA Statements ==
  ASSUME NEW x \in Blocks \cup {NoBlock}, NEW y \in Blocks \cup {NoBlock}
  PROVE  IsQuiet(Run(x)) /\ IsQuiet(flush_phi(x, y))
<1>1. "run" \in QuietOps /\ "phi" \in QuietOps /\ "run" \in AllOps /\ "phi" \in AllOps
  BY DEF QuietOps, AllOps
<1>2. Of("run", x) \in Texts /\ Of("run", x).op = "run" /\ Token("phi", x, y) \in Texts /\ Token("phi", x, y).op = "phi"
  BY <1>1, TokensAreTexts
<1> QED
  BY <1>1, <1>2, QuietParts DEF Run, flush_phi

\* The statements of a continue construct, at the place of a branch to it.
LEMMA ContinueIsQuiet ==
  ASSUME func \in Functions, NEW c \in Ids, NEW follow_true, NEW follow_false
  PROVE  IsQuiet(emit_continue_block(c, follow_true, follow_false))
<1> DEFINE N == Cardinality(Blocks)
           Following(x) ==
             IF next_block(x) # NoBlock THEN next_block(x)
             ELSE IF true_block(x) # NoBlock /\ follow_true THEN true_block(x)
             ELSE IF false_block(x) # NoBlock /\ follow_false THEN false_block(x)
             ELSE NoBlock
           S == Ids \X (0 .. N)
           V == {t \in Seq(Texts) : IsQuiet(t)}
           T == {p \in S : "header" \in meta[p[1]] \/ Following(p[1]) = NoBlock \/ p[2] = 0}
           v == [p \in S |-> IF "header" \in meta[p[1]] THEN <<>> ELSE <<Plain("throw")>>]
           next == [p \in S |-> IF p \in T THEN p ELSE <<Following(p[1]), p[2] - 1>>]
           Start(x) == Run(x) \o flush_phi(c, Following(x))
           G == [q \in S \X V |-> Start(q[1][1]) \o q[2]]
           r == [p \in S |-> p[2]]
           Is(f) == f = [p \in (DOMAIN func) \X (0 .. Cardinality(Blocks)) |->
                           IF "header" \in meta[p[1]] THEN <<>>
                           ELSE IF Following(p[1]) = NoBlock \/ p[2] = 0 THEN <<Plain("throw")>>
                           ELSE Run(p[1]) \o flush_phi(c, Following(p[1])) \o f[<<Following(p[1]), p[2] - 1>>]]
<1>1. N \in Nat /\ Ids \subseteq Blocks
  BY BlocksAssumption, FS_CardinalityType, Fields
<1>2. \A x \in Ids : Following(x) \in Ids \cup {NoBlock}
  BY Fields
<1>3. \A x \in Ids : IsQuiet(Start(x))
  BY <1>1, <1>2, Statements, QuietParts
<1>4. IsQuiet(<<>>) /\ IsQuiet(<<Plain("throw")>>)
  <2>1. Plain("throw") \in Texts /\ Plain("throw").op \in QuietOps
    BY TokensAreTexts DEF AllOps, QuietOps
  <2> QED
    BY <2>1, QuietParts
<1>5. \A t : IsQuiet(t) <=> t \in V
  BY DEF IsQuiet
<1>6. next \in [S -> S] /\ \A p \in S : p \notin T => next[p] = <<Following(p[1]), p[2] - 1>> /\ r[next[p]] < r[p]
  <2>1. ASSUME NEW p \in S, p \notin T PROVE <<Following(p[1]), p[2] - 1>> \in S /\ p[2] - 1 < p[2]
    <3>1. Following(p[1]) # NoBlock /\ p[2] # 0 /\ p[1] \in Ids /\ p[2] \in 0 .. N
      BY <2>1
    <3>2. Following(p[1]) \in Ids /\ p[2] - 1 \in 0 .. N /\ p[2] - 1 < p[2]
      BY <1>1, <1>2, <3>1
    <3> HIDE DEF Following
    <3> QED
      BY <3>2
  <2> HIDE DEF T, S, Following
  <2> QED
    BY <2>1
<1>7. IsRecursion(S, V, T, v, next, G, r)
  <2>1. v \in [S -> V]
    BY <1>4, <1>5
  <2>2. G \in [S \X V -> V]
    <3>1. ASSUME NEW q \in S \X V PROVE Start(q[1][1]) \o q[2] \in V
      <4>1. q[1][1] \in Ids /\ q[2] \in V
        OBVIOUS
      <4> HIDE DEF Start, V
      <4> QED
        BY <1>3, <1>5, <4>1, QuietParts
    <3> HIDE DEF Start, V, S
    <3> QED
      BY <3>1
  <2>3. r \in [S -> Nat]
    BY <1>1
  <2> HIDE DEF S, V, T, v, next, G, r
  <2> QED
    BY <1>6, <2>1, <2>2, <2>3 DEF IsRecursion, IsRanked
<1>8. \E f : Is(f) /\ f \in [S -> V]
  <2>1. PICK f : Solves(f, S, V, T, v, next, G)
    <3> HIDE DEF S, V, T, v, next, G, r
    <3> QED
      BY <1>7, RecursiveFunctionExists
  <2>2. f \in [S -> V] /\ \A p \in S : f[p] = IF p \in T THEN v[p] ELSE G[<<p, f[next[p]]>>]
    <3> HIDE DEF S, V, T, v, next, G, r
    <3> QED
      BY <2>1 DEF Solves
  <2>3. ASSUME NEW p \in S
        PROVE  f[p] = IF "header" \in meta[p[1]] THEN <<>>
                      ELSE IF Following(p[1]) = NoBlock \/ p[2] = 0 THEN <<Plain("throw")>>
                      ELSE Start(p[1]) \o f[<<Following(p[1]), p[2] - 1>>]
    <3>1. CASE p \in T
      <4>1. f[p] = v[p]
        <5> HIDE DEF T, v
        <5> QED
          BY <2>2, <3>1
      <4> HIDE DEF Start, Following
      <4> QED
        BY <3>1, <4>1
    <3>2. CASE p \notin T
      <4>1. next[p] = <<Following(p[1]), p[2] - 1>> /\ next[p] \in S
        BY <1>6, <3>2
      <4>2. f[next[p]] \in V /\ f[p] = G[<<p, f[next[p]]>>]
        <5> HIDE DEF T, v, S, V, next, G
        <5> QED
          BY <2>2, <3>2, <4>1
      <4>3. G[<<p, f[next[p]]>>] = Start(p[1]) \o f[next[p]]
        <5> HIDE DEF T, v, S, V, next, Start
        <5> QED
          BY <4>2
      <4>4. ~("header" \in meta[p[1]]) /\ ~(Following(p[1]) = NoBlock \/ p[2] = 0)
        BY <3>2
      <4> HIDE DEF T, v, S, V, next, Start, Following, G
      <4> QED
        BY <4>1, <4>2, <4>3, <4>4
    <3> QED
      BY <3>1, <3>2
  <2>4. f = [p \in S |-> f[p]]
    BY <2>2
  <2>5. Is(f)
    <3>1. f = [p \in S |-> IF "header" \in meta[p[1]] THEN <<>>
                      ELSE IF Following(p[1]) = NoBlock \/ p[2] = 0 THEN <<Plain("throw")>>
                      ELSE Start(p[1]) \o f[<<Following(p[1]), p[2] - 1>>]]
      <4> HIDE DEF S, Start, Following
      <4> QED
        BY <2>3, <2>4
    <3> QED
      BY <3>1 DEF Ids
  <2> QED
    BY <2>2, <2>5
<1> DEFINE d == CHOOSE f : Is(f)
<1>9. Is(d)
  <2> HIDE DEF Is
  <2> QED
    BY <1>8
<1>10. emit_continue_block(c, follow_true, follow_false) = d[<<c, N>>]
  BY DEF emit_continue_block
<1> HIDE DEF d
<1>11. \A p \in S : d[p] = IF "header" \in meta[p[1]] THEN <<>>
                           ELSE IF Following(p[1]) = NoBlock \/ p[2] = 0 THEN <<Plain("throw")>>
                           ELSE Start(p[1]) \o d[<<Following(p[1]), p[2] - 1>>]
  <2> HIDE DEF Following
  <2> QED
    BY <1>9 DEF Ids
<1> HIDE DEF Is
<1> DEFINE Bad == {p \in S : d[p] \notin V}
<1>12. ASSUME NEW p \in Bad PROVE \E q \in Bad : r[q] < r[p]
  <2>1. p \in S /\ d[p] \notin V
    OBVIOUS
  <2>2. p \notin T
    BY <1>4, <1>5, <1>11, <2>1
  <2>3. next[p] \in S /\ next[p] = <<Following(p[1]), p[2] - 1>> /\ r[next[p]] < r[p]
    BY <1>6, <2>1, <2>2
  <2>4. d[p] = Start(p[1]) \o d[next[p]]
    BY <1>11, <2>1, <2>2, <2>3
  <2>5. d[next[p]] \notin V
    <3> SUFFICES ASSUME d[next[p]] \in V PROVE FALSE
      OBVIOUS
    <3>1. p[1] \in Ids
      BY <2>1
    <3> HIDE DEF V, Start, next
    <3> QED
      BY <1>3, <1>5, <2>1, <2>4, <3>1, QuietParts
  <2> HIDE DEF next, r
  <2> QED
    BY <2>3, <2>5
<1>13. Bad = {}
  <2>1. r \in [S -> Nat] /\ Bad \in SUBSET S
    BY <1>1
  <2> HIDE DEF r, Bad, S
  <2> QED
    BY <1>12, <2>1, RankInduction
<1>14. <<c, N>> \in S
  BY <1>1
<1> QED
  BY <1>5, <1>10, <1>13, <1>14

-------------------------------------------------------------------------------
(* Loops.                                                                  *)

\* A loop is only known for blocks which are in one.
LoopInv == \A x \in Numbered : loop_dominator[x] # NoBlock => LoopsAround(x) # {}

\* find_loop_dominator and continue_block_to_loop_header give loops around the block.
LEMMA LoopsAreFound ==
  ASSUME Rules, MarkInv, BeginEmission
  PROVE  LoopInv'
<1>1. /\ vars' = vars
      /\ loop_dominator' =
           [x \in Blocks |-> IF x \notin DOMAIN func THEN NoBlock
                             ELSE IF header_of[x] \notin {NoBlock, x} THEN header_of[x]
                             ELSE find_loop_dominator(x)]
  BY DEF BeginEmission
<1>2. func' = func /\ order' = order
  BY <1>1 DEF vars, traversal
<1>3. Numbered' = Numbered /\ \A x : LoopsAround(x)' = LoopsAround(x)
  BY <1>2 DEF Numbered, LoopsAround, Headers, Construct, ConstructOf, StructuralFlowOf
<1> SUFFICES ASSUME NEW x \in Numbered, loop_dominator'[x] # NoBlock PROVE LoopsAround(x) # {}
  BY <1>3 DEF LoopInv
<1>4. x \in Blocks /\ x \in Ids
  BY FlowsNest DEF Rules
<1>5. CASE header_of[x] \notin {NoBlock, x}
  <2> DEFINE h == header_of[x]
  <2>1. h \in Ids /\ func[h].merge = "loop" /\ func[h].continue_block = x /\ h # x
    BY <1>4, <1>5 DEF MarkInv
  <2>2. x \in Construct(h)
    BY <2>1, LoopIsClosed DEF Rules
  <2>3. h \in LoopsAround(x)
    BY <2>1, <2>2 DEF LoopsAround, Headers, Ids
  <2> QED
    BY <2>3
<1>6. CASE header_of[x] \in {NoBlock, x}
  <2>1. find_loop_dominator(x) # NoBlock
    BY <1>1, <1>4, <1>6 DEF Ids
  <2>2. Innermost(x, find_loop_dominator(x))
    BY SearchFindsInnermost DEF Rules
  <2> QED
    BY <2>1, <2>2 DEF Innermost
<1> QED
  BY <1>5, <1>6

-------------------------------------------------------------------------------
(* Sequences of two and three.                                             *)

LEMMA Concatenations ==
  ASSUME NEW S, NEW p \in S, NEW t \in S, NEW u \in S
  PROVE  <<p>> \o <<t>> = <<p, t>> /\ <<p, t>> \o <<u>> = <<p, t, u>>
<1>1. ASSUME NEW v \in Seq(S), NEW w \in Seq(S), Len(v) = Len(w), \A k \in 1 .. Len(v) : v[k] = w[k]
      PROVE  v = w
  BY <1>1
<1>2. <<p>> \o <<t>> = <<p, t>>
  <2>1. /\ <<p>> \o <<t>> \in Seq(S) /\ Len(<<p>> \o <<t>>) = 2
        /\ (<<p>> \o <<t>>)[1] = p /\ (<<p>> \o <<t>>)[2] = t
    OBVIOUS
  <2>2. <<p, t>> \in Seq(S) /\ Len(<<p, t>>) = 2 /\ <<p, t>>[1] = p /\ <<p, t>>[2] = t
    OBVIOUS
  <2>3. \A k \in 1 .. 2 : k = 1 \/ k = 2
    OBVIOUS
  <2> QED
    BY <1>1, <2>1, <2>2, <2>3
<1>3. <<p, t>> \o <<u>> = <<p, t, u>>
  <2>1. /\ <<p, t>> \o <<u>> \in Seq(S) /\ Len(<<p, t>> \o <<u>>) = 3
        /\ (<<p, t>> \o <<u>>)[1] = p /\ (<<p, t>> \o <<u>>)[2] = t /\ (<<p, t>> \o <<u>>)[3] = u
    OBVIOUS
  <2>2. <<p, t, u>> \in Seq(S) /\ Len(<<p, t, u>>) = 3 /\ <<p, t, u>>[1] = p /\ <<p, t, u>>[2] = t /\ <<p, t, u>>[3] = u
    OBVIOUS
  <2>3. \A k \in 1 .. 3 : k = 1 \/ k = 2 \/ k = 3
    OBVIOUS
  <2> QED
    BY <1>1, <2>1, <2>2, <2>3
<1> QED
  BY <1>2, <1>3

\* Tasks, one to three of them.
LEMMA TasksAreTyped ==
  \A do \in CallKinds : \A x, y \in Blocks \cup {NoBlock} :
    /\ Task(do, x, y) \in Tasks /\ Task(do, x, y).do = do
    /\ Task(do, x, y).x = x /\ Task(do, x, y).y = y /\ Task(do, x, y).do # "write"
<1>1. Plain("none") \in Texts
  BY TokensAreTexts DEF AllOps, QuietOps
<1> QED
  BY <1>1 DEF Task, Tasks, CallKinds

LEMMA CallFits ==
  ASSUME NEW do \in CallKinds, NEW x \in Blocks \cup {NoBlock}, NEW y \in Blocks \cup {NoBlock},
         NEW s \in Stacks, NEW r \in Stacks, CallStep(Task(do, x, y), s, r)
  PROVE  TaskStep(Task(do, x, y), s, r) /\ <<Task(do, x, y)>> \in TasksFrom(s, r)
<1>1. Task(do, x, y) \in Tasks /\ TaskStep(Task(do, x, y), s, r)
  BY TasksAreTyped DEF TaskStep
<1> QED
  BY <1>1, TasksJoin

LEMMA LaterFits ==
  ASSUME NEW token \in Texts, NEW s \in Stacks, NEW r \in Stacks, TokenStep(token, s, r)
  PROVE  /\ Later(token) \in Tasks /\ TaskStep(Later(token), s, r) /\ <<Later(token)>> \in TasksFrom(s, r)
<1>1. Later(token) \in Tasks /\ TaskStep(Later(token), s, r)
  BY DEF Tasks, TaskStep, Later
<1> QED
  BY <1>1, TasksJoin

LEMMA TwoTasks ==
  ASSUME NEW p \in Tasks, NEW t \in Tasks, NEW s \in Stacks, NEW q \in Stacks, NEW r \in Stacks,
         TaskStep(p, s, q), TaskStep(t, q, r)
  PROVE  <<p, t>> \in TasksFrom(s, r)
<1>1. <<p>> \in TasksFrom(s, q) /\ <<t>> \in TasksFrom(q, r)
  BY TasksJoin
<1>2. <<p>> \o <<t>> \in TasksFrom(s, r)
  BY <1>1, TasksJoin
<1>3. <<p>> \o <<t>> = <<p, t>>
  BY Concatenations
<1> QED
  BY <1>2, <1>3

LEMMA ThreeTasks ==
  ASSUME NEW p \in Tasks, NEW t \in Tasks, NEW u \in Tasks, NEW s \in Stacks,
         TaskStep(p, s, s), TaskStep(t, s, s), TaskStep(u, s, s)
  PROVE  <<p, t, u>> \in TasksFrom(s, s)
<1>1. <<p, t>> \in TasksFrom(s, s) /\ <<u>> \in TasksFrom(s, s)
  BY TwoTasks, TasksJoin
<1>2. <<p, t>> \o <<u>> \in TasksFrom(s, s)
  BY <1>1, TasksJoin
<1>3. <<p, t>> \o <<u>> = <<p, t, u>>
  BY Concatenations
<1> QED
  BY <1>2, <1>3

LEMMA ThreeTexts ==
  ASSUME NEW p \in Texts, NEW t \in Texts, NEW u \in Texts, NEW s \in Stacks, NEW q \in Stacks, NEW r \in Stacks,
         TokenStep(p, s, q), TokenStep(t, q, q), TokenStep(u, q, r)
  PROVE  <<p, t, u>> \in TextFrom(s, r)
<1>1. <<p>> \in TextFrom(s, q) /\ <<t>> \in TextFrom(q, q) /\ <<u>> \in TextFrom(q, r)
  BY TextsJoin
<1>2. <<p>> \o <<t>> \in TextFrom(s, q)
  BY <1>1, TextsJoin
<1>3. (<<p>> \o <<t>>) \o <<u>> \in TextFrom(s, r)
  BY <1>1, <1>2, TextsJoin
<1>4. (<<p>> \o <<t>>) \o <<u>> = <<p, t, u>>
  BY Concatenations
<1> QED
  BY <1>3, <1>4

\* What the tokens do to the stack.
LEMMA TokenMoves ==
  ASSUME NEW s \in Stacks, NEW token
  PROVE  /\ token.op \in Openers => TokenStep(token, s, Append(s, token.op)) /\ Append(s, token.op) \in Stacks
         /\ token.op \in QuietOps => TokenStep(token, s, s)
         /\ token.op \in {"break", "test"} /\ Holds(s, Breakable) => TokenStep(token, s, s)
         /\ token.op = "continue" /\ Holds(s, Loops) => TokenStep(token, s, s)
         /\ token.op \in Closers => \A op \in Openers : TokenStep(token, Append(s, op), s)
<1>1. \A op \in Openers : Append(s, op) \in Stacks /\ Append(s, op) # <<>> /\ Outer(Append(s, op)) = s
  BY Nested
<1> QED
  BY <1>1 DEF TokenStep

-------------------------------------------------------------------------------
(* The head of a block.                                                    *)

\* attempt_emit_loop_header opens one loop, or fails.
LEMMA LoopHeadFits ==
  ASSUME func \in Functions, NEW x \in Ids, IsLoopHeader(x), NEW kind, NEW cond \in Ids, NEW s \in Stacks,
         attempt_emit_loop_header(x, kind, cond).kind # "failed"
  PROVE  /\ attempt_emit_loop_header(x, kind, cond).kind = kind
         /\ \E op \in Loops : attempt_emit_loop_header(x, kind, cond).tokens \in TextFrom(s, Append(s, op))
<1> DEFINE c == func[x].continue_block
           Condition(plain, negated) ==
             Of(IF execution_is_noop(true_block(cond), merge_block(x)) THEN negated ELSE plain, cond)
           step == IF kind = "select continue for" THEN <<>> ELSE emit_continue_block(c, FALSE, FALSE)
           f == <<Condition("for", "for not")>> \o step \o <<Plain("body")>>
           w == <<Condition("while", "while not")>>
<1>1. attempt_emit_loop_header(x, kind, cond) =
        IF HasSideEffects(cond)
        THEN Form("failed", Run(cond) \o (IF kind = "direct for" THEN <<>>
                                          ELSE emit_continue_block(c, TRUE, TRUE)))
        ELSE IF continue_block_type(c) = "for" THEN Form(kind, f)
        ELSE IF continue_block_type(c) = "while" THEN Form(kind, w)
        ELSE Form("failed", <<>>)
  BY DEF attempt_emit_loop_header
<1>2. c \in Ids /\ cond \in Blocks \cup {NoBlock}
  BY Fields DEF IsLoopHeader
<1>3. ASSUME NEW op \in Loops, NEW token \in Texts, token.op = op
      PROVE  <<token>> \in TextFrom(s, Append(s, op)) /\ Append(s, op) \in Stacks
  <2>1. op \in Openers
    BY DEF Openers, Breakable
  <2>2. TokenStep(token, s, Append(s, op)) /\ Append(s, op) \in Stacks
    BY <1>3, <2>1, TokenMoves
  <2> QED
    BY <2>2, TextsJoin
<1>4. /\ Condition("for", "for not") \in Texts /\ Condition("for", "for not").op \in Loops
      /\ Condition("while", "while not") \in Texts /\ Condition("while", "while not").op \in Loops
  <2>1. \A op \in {"for", "for not", "while", "while not"} : op \in AllOps /\ op \in Loops
    BY DEF AllOps, Openers, Breakable, Loops
  <2> QED
    BY <1>2, <2>1, TokensAreTexts
<1>5. \E op \in Loops : w \in TextFrom(s, Append(s, op))
  <2> HIDE DEF Condition
  <2> QED
    BY <1>3, <1>4
<1>6. \E op \in Loops : f \in TextFrom(s, Append(s, op))
  <2> DEFINE h == Condition("for", "for not")
             e == <<Plain("body")>>
  <2>1. h \in Texts /\ h.op \in Loops
    BY <1>4
  <2>2. IsQuiet(step)
    BY <1>2, ContinueIsQuiet, QuietParts
  <2>3. IsQuiet(e)
    BY TokensAreTexts, QuietParts DEF AllOps, QuietOps
  <2> HIDE DEF h, step, e
  <2>4. <<h>> \in TextFrom(s, Append(s, h.op)) /\ Append(s, h.op) \in Stacks
    BY <1>3, <2>1
  <2>5. step \in TextFrom(Append(s, h.op), Append(s, h.op)) /\ e \in TextFrom(Append(s, h.op), Append(s, h.op))
    BY <2>2, <2>3, <2>4, TextsJoin
  <2>6. <<h>> \o step \in TextFrom(s, Append(s, h.op))
    BY <2>4, <2>5, TextsJoin
  <2>7. (<<h>> \o step) \o e \in TextFrom(s, Append(s, h.op))
    BY <2>4, <2>5, <2>6, TextsJoin
  <2> QED
    BY <2>1, <2>7 DEF h, e
<1> HIDE DEF f, w, c
<1>7. \A k, t : Form(k, t).kind = k /\ Form(k, t).tokens = t
  BY DEF Form
<1>8. attempt_emit_loop_header(x, kind, cond) = Form(kind, f) \/ attempt_emit_loop_header(x, kind, cond) = Form(kind, w)
  BY <1>1, <1>7
<1>9. CASE attempt_emit_loop_header(x, kind, cond) = Form(kind, f)
  BY <1>6, <1>7, <1>9
<1>10. CASE attempt_emit_loop_header(x, kind, cond) = Form(kind, w)
  BY <1>5, <1>7, <1>10
<1> QED
  BY <1>8, <1>9, <1>10

\* The head of a loop header opens one loop.
LEMMA HeadFits ==
  ASSUME func \in Functions, NEW x \in Ids, NEW s \in Stacks, FormOf(x).kind # "failed"
  PROVE  /\ IsLoopHeader(x) => \E op \in Loops : FormOf(x).tokens \in TextFrom(s, Append(s, op))
         /\ ~IsLoopHeader(x) => FormOf(x).kind = "plain" /\ FormOf(x).tokens \in TextFrom(s, s)
         /\ FormOf(x).kind = "direct for" => IsDirectFor(x)
<1> DEFINE Opens(form) == \E op \in Loops : form.tokens \in TextFrom(s, Append(s, op))
<1>1. x \in Blocks \cup {NoBlock} /\ IsQuiet(Run(x)) /\ Run(x) \in TextFrom(s, s)
  BY Fields, Statements, TextsJoin
<1>2. ASSUME NEW op \in {"do", "loop"} PROVE <<Plain(op)>> \o Run(x) \in TextFrom(s, Append(s, op)) /\ op \in Loops
  <2>1. op \in Loops /\ op \in Openers /\ op \in AllOps
    BY DEF AllOps, Openers, Breakable, Loops
  <2>2. Plain(op) \in Texts /\ Plain(op).op = op
    BY <2>1, TokensAreTexts
  <2>3. TokenStep(Plain(op), s, Append(s, op)) /\ Append(s, op) \in Stacks
    BY <2>1, <2>2, TokenMoves
  <2>4. <<Plain(op)>> \in TextFrom(s, Append(s, op)) /\ Run(x) \in TextFrom(Append(s, op), Append(s, op))
    BY <1>1, <2>2, <2>3, TextsJoin
  <2> QED
    BY <2>1, <2>3, <2>4, TextsJoin
<1>3. CASE HasSimpleContinue(x) /\ IsSelectContinueFor(x)
  <2> DEFINE form == attempt_emit_loop_header(x, "select continue for", x)
  <2>1. FormOf(x) = form /\ IsLoopHeader(x)
    BY <1>3 DEF FormOf, HasSimpleContinue
  <2>2. form.kind # "failed"
    BY <2>1
  <2>3. form.kind = "select continue for" /\ Opens(form)
    BY <2>1, <2>2, LoopHeadFits
  <2> HIDE DEF form
  <2> QED
    BY <2>1, <2>3
<1>4. CASE HasSimpleContinue(x) /\ ~IsSelectContinueFor(x) /\ IsSelectFor(x)
  <2> DEFINE form == attempt_emit_loop_header(x, "select for", x)
  <2>1. FormOf(x) = form /\ IsLoopHeader(x)
    BY <1>4 DEF FormOf, HasSimpleContinue
  <2>2. form.kind # "failed"
    BY <2>1
  <2>3. form.kind = "select for" /\ Opens(form)
    BY <2>1, <2>2, LoopHeadFits
  <2> HIDE DEF form
  <2> QED
    BY <2>1, <2>3
<1>5. CASE HasSimpleContinue(x) /\ ~IsSelectContinueFor(x) /\ ~IsSelectFor(x) /\ IsDirectFor(x)
  <2> DEFINE form == attempt_emit_loop_header(x, "direct for", func[x].targets[1])
  <2>1. FormOf(x) = form /\ IsLoopHeader(x)
    BY <1>5 DEF FormOf, HasSimpleContinue
  <2>2. func[x].targets[1] \in Ids
    BY <1>5, Fields DEF IsDirectFor
  <2>3. form.kind # "failed"
    BY <2>1
  <2>4. form.kind = "direct for" /\ Opens(form)
    BY <2>1, <2>2, <2>3, LoopHeadFits
  <2> HIDE DEF form
  <2> QED
    BY <1>5, <2>1, <2>4
<1> DEFINE dw == <<Plain("do")>> \o Run(x)
           gn == <<Plain("loop")>> \o Run(x)
<1>6. dw \in TextFrom(s, Append(s, "do")) /\ gn \in TextFrom(s, Append(s, "loop"))
  BY <1>2
<1>7. "do" \in Loops /\ "loop" \in Loops
  BY DEF Loops
<1>8. CASE ~(HasSimpleContinue(x) /\ (IsSelectContinueFor(x) \/ IsSelectFor(x) \/ IsDirectFor(x)))
  <2>1. FormOf(x) = IF HasSimpleContinue(x) /\ continue_block_type(func[x].continue_block) = "do while"
                    THEN Form("do while", dw)
                    ELSE IF IsLoopHeader(x) THEN Form("generic", gn)
                    ELSE Form("plain", Run(x))
    BY <1>8 DEF FormOf
  <2>2. HasSimpleContinue(x) => IsLoopHeader(x)
    BY DEF HasSimpleContinue
  <2> HIDE DEF dw, gn
  <2>f. \A k, t : Form(k, t).kind = k /\ Form(k, t).tokens = t
    BY DEF Form
  <2>3. CASE FormOf(x) = Form("do while", dw) /\ IsLoopHeader(x)
    <3>0. Form("do while", dw).kind = "do while" /\ Form("do while", dw).tokens = dw
      BY <2>f
    <3>1. FormOf(x).kind = "do while" /\ FormOf(x).tokens = dw
      BY <2>3, <3>0
    <3> QED
      BY <1>6, <1>7, <2>3, <3>1
  <2>4. CASE FormOf(x) = Form("generic", gn) /\ IsLoopHeader(x)
    <3>0. Form("generic", gn).kind = "generic" /\ Form("generic", gn).tokens = gn
      BY <2>f
    <3>1. FormOf(x).kind = "generic" /\ FormOf(x).tokens = gn
      BY <2>4, <3>0
    <3> QED
      BY <1>6, <1>7, <2>4, <3>1
  <2>5. CASE FormOf(x) = Form("plain", Run(x)) /\ ~IsLoopHeader(x)
    <3>0. Form("plain", Run(x)).kind = "plain" /\ Form("plain", Run(x)).tokens = Run(x)
      BY <2>f
    <3>1. FormOf(x).kind = "plain" /\ FormOf(x).tokens = Run(x)
      BY <2>5, <3>0
    <3> QED
      BY <1>1, <2>5, <3>1
  <2> QED
    BY <2>1, <2>2, <2>3, <2>4, <2>5
<1> QED
  BY <1>3, <1>4, <1>5, <1>8

\* A branch of a block, with the scopes it is in.
LEMMA BranchFits ==
  ASSUME Rules, NEW x \in Numbered, NEW y \in Elements(func[x].targets), NEW s \in Stacks, FitsEnd(x, s)
  PROVE  /\ CallStep(BranchTo(x, y), s, s) /\ BranchTo(x, y) \in Tasks /\ <<BranchTo(x, y)>> \in TasksFrom(s, s)
         /\ TaskStep(BranchTo(x, y), s, s)
         /\ y \in Numbered /\ <<x, y>> \in RealFlow /\ Fits(y, s)
<1>1. x \in Ids /\ x \in Blocks /\ func \in Functions /\ TypeInv
  BY FlowsNest DEF Rules, Built, IInv, TypeInv
<1>2. y \in Ids /\ y \in Blocks /\ y # NoBlock
  BY <1>1, Fields
<1>3. <<x, y>> \in RealFlow
  BY <1>1, FlowEdges
<1>4. CallStep(BranchTo(x, y), s, s)
  <2>1. BranchTo(x, y).do = "branch" /\ BranchTo(x, y).x = x /\ BranchTo(x, y).y = y
    BY DEF BranchTo, Task
  <2> QED
    BY <1>3, <2>1 DEF CallStep
<1>5. BranchTo(x, y) \in Tasks /\ <<BranchTo(x, y)>> \in TasksFrom(s, s) /\ TaskStep(BranchTo(x, y), s, s)
  <2>1. "branch" \in CallKinds
    BY DEF CallKinds
  <2> QED
    BY <1>1, <1>2, <1>4, <2>1, CallFits, TasksAreTyped DEF BranchTo
<1>6. y \in Numbered
  <2>1. Numbered = Without(NoBlock) /\ <<x, y>> \in VisitFlow(func)
    BY <1>3, FlowsNest DEF Rules
  <2> QED
    BY <1>1, <1>2, <2>1, WithoutIsClosed
<1>7. <<x, y>> \in StructuralFlow
  BY <1>3, FlowsNest DEF Rules
<1> QED
  BY <1>3, <1>4, <1>5, <1>6, <1>7, EdgeFits

\* The branch which stays in the loop is one of the condition's.
LEMMA BodyFits ==
  ASSUME Rules, NEW cond \in Numbered, func[cond].terminator = "select", NEW x, NEW s \in Stacks, FitsEnd(cond, s)
  PROVE  BodyBranch(cond, x) \in Tasks /\ TaskStep(BodyBranch(cond, x), s, s) /\ <<BodyBranch(cond, x)>> \in TasksFrom(s, s)
<1>1. cond \in Ids /\ func \in Functions
  BY FlowsNest DEF Rules, Built, IInv, TypeInv
<1>2. true_block(cond) \in Elements(func[cond].targets) /\ false_block(cond) \in Elements(func[cond].targets)
  BY <1>1, Fields DEF true_block, false_block
<1>3. \E y \in Elements(func[cond].targets) : BodyBranch(cond, x) = BranchTo(cond, y)
  BY <1>2 DEF BodyBranch
<1> QED
  BY <1>3, BranchFits

\* branch(from, cond, true_block, false_block) closes what it opens.
LEMMA ConditionalFits ==
  ASSUME Rules, NEW x \in Numbered, func[x].terminator = "select", NEW s \in Stacks, FitsEnd(x, s)
  PROVE  ConditionalBranch(x) \in TasksFrom(s, s)
<1>1. x \in Ids /\ x \in Blocks \cup {NoBlock} /\ func \in Functions
  BY FlowsNest DEF Rules, Built, IInv, TypeInv
<1> DEFINE t == true_block(x)
           f == false_block(x)
           e == Plain("end")
<1>2. t \in Elements(func[x].targets) /\ f \in Elements(func[x].targets)
  BY <1>1, Fields DEF true_block, false_block
<1>3. e \in Texts /\ e.op = "end" /\ Plain("else") \in Texts /\ Plain("else").op = "else"
  BY TokensAreTexts DEF AllOps, QuietOps, Closers
<1> HIDE DEF t, f, e
<1>4. ASSUME NEW op \in {"if", "unless"}, NEW y \in Elements(func[x].targets)
      PROVE  /\ <<Later(Of(op, x)), BranchTo(x, y)>> \in TasksFrom(s, Append(s, op))
             /\ <<Later(e)>> \in TasksFrom(Append(s, op), s) /\ Append(s, op) \in Stacks
             /\ FitsEnd(x, Append(s, op))
  <2>1. op \in Openers /\ op \in AllOps
    BY DEF Openers, AllOps
  <2>2. Of(op, x) \in Texts /\ Of(op, x).op = op
    BY <1>1, <2>1, TokensAreTexts
  <2>3. TokenStep(Of(op, x), s, Append(s, op)) /\ Append(s, op) \in Stacks
    BY <2>1, <2>2, TokenMoves
  <2>4. TokenStep(e, Append(s, op), s)
    <3>1. e.op \in Closers
      BY <1>3 DEF Closers
    <3> QED
      BY <2>1, <3>1, TokenMoves
  <2>5. FitsEnd(x, Append(s, op))
    BY <2>1, FitsInside
  <2>6. BranchTo(x, y) \in Tasks /\ TaskStep(BranchTo(x, y), Append(s, op), Append(s, op))
    BY <2>3, <2>5, BranchFits
  <2>7. Later(Of(op, x)) \in Tasks /\ TaskStep(Later(Of(op, x)), s, Append(s, op))
    BY <2>2, <2>3, LaterFits
  <2>8. <<Later(e)>> \in TasksFrom(Append(s, op), s)
    BY <1>3, <2>3, <2>4, LaterFits
  <2> QED
    BY <2>3, <2>5, <2>6, <2>7, <2>8, TwoTasks
<1> DEFINE both == <<Later(Plain("else")), BranchTo(x, f)>>
           ht == <<Later(Of("if", x)), BranchTo(x, t)>>
           hf == <<Later(Of("unless", x)), BranchTo(x, f)>>
           last == <<Later(e)>>
<1>5. both \in TasksFrom(Append(s, "if"), Append(s, "if"))
  <2>1. Append(s, "if") \in Stacks /\ FitsEnd(x, Append(s, "if"))
    BY <1>2, <1>4
  <2>2. TokenStep(Plain("else"), Append(s, "if"), Append(s, "if"))
    BY <1>3 DEF TokenStep, QuietOps
  <2>3. Later(Plain("else")) \in Tasks /\ TaskStep(Later(Plain("else")), Append(s, "if"), Append(s, "if"))
    BY <1>3, <2>1, <2>2, LaterFits
  <2>4. BranchTo(x, f) \in Tasks /\ TaskStep(BranchTo(x, f), Append(s, "if"), Append(s, "if"))
    BY <1>2, <2>1, BranchFits
  <2> QED
    BY <2>1, <2>3, <2>4, TwoTasks
<1>6. /\ ht \in TasksFrom(s, Append(s, "if")) /\ last \in TasksFrom(Append(s, "if"), s) /\ Append(s, "if") \in Stacks
      /\ hf \in TasksFrom(s, Append(s, "unless")) /\ last \in TasksFrom(Append(s, "unless"), s) /\ Append(s, "unless") \in Stacks
  BY <1>2, <1>4
<1>7. hf \o last = <<Later(Of("unless", x)), BranchTo(x, f), Later(e)>>
  <2>1. Later(Of("unless", x)) \in Tasks /\ BranchTo(x, f) \in Tasks /\ Later(e) \in Tasks
    <3>1. "unless" \in AllOps
      BY DEF AllOps, Openers
    <3>2. Of("unless", x) \in Texts
      BY <1>1, <3>1, TokensAreTexts
    <3> QED
      BY <1>2, <1>3, <3>2, BranchFits DEF Tasks
  <2> QED
    BY <2>1, Concatenations
<1>8. ConditionalBranch(x) \in {(ht \o both) \o last, (ht \o <<>>) \o last, <<Later(Of("unless", x)), BranchTo(x, f), Later(e)>>, <<>>}
  BY DEF ConditionalBranch, t, f, e
<1> HIDE DEF both, ht, hf, last
<1>9. ht \o both \in TasksFrom(s, Append(s, "if")) /\ ht \o <<>> \in TasksFrom(s, Append(s, "if"))
  BY <1>5, <1>6, TasksJoin
<1>10. (ht \o both) \o last \in TasksFrom(s, s) /\ (ht \o <<>>) \o last \in TasksFrom(s, s) /\ hf \o last \in TasksFrom(s, s)
  BY <1>6, <1>9, TasksJoin
<1> QED
  BY <1>7, <1>8, <1>10, TasksJoin

\* Labels are targets of the switch.
LEMMA LabelsAreTargets ==
  ASSUME func \in Functions, NEW x \in Ids, func[x].terminator = "multiselect"
  PROVE  /\ block_declaration_order(x) \in Seq(Elements(func[x].targets))
         /\ IsCollapsed(x) => block_declaration_order(x) = <<>>
<1> DEFINE E == Elements(func[x].targets)
           d == default_block(x)
           n == Len(func[x].targets)
           Own(y) == IF y # next_block(x) /\ y # d THEN <<y>> ELSE <<>>
           own == [k \in DOMAIN Cases(x) |-> Own(Cases(x)[k])]
           labels == Flatten(own)
           Adjacent(k) == \/ execution_is_direct_branch(labels[k], d)
                          \/ execution_is_direct_branch(d, labels[k])
           near == {k \in DOMAIN labels : Adjacent(k)}
           k0 == CHOOSE i \in near : \A j \in near : i <= j
           n0 == IF execution_is_direct_branch(labels[k0], d) THEN k0 ELSE k0 - 1
<1>1. func[x].targets \in Seq(E) /\ d \in E /\ n \in Nat
  <2>1. func[x].targets \in Seq(Ids) /\ d \in E
    BY Fields DEF default_block
  <2> QED
    BY <2>1 DEF Elements
<1> HIDE DEF E
<1>2. Cases(x) \in Seq(E) /\ (n = 1 => Cases(x) = <<>>)
  <2>1. n = 1 => SubSeq(func[x].targets, 2, n) = <<>>
    BY <1>1
  <2>2. SubSeq(func[x].targets, 2, n) \in Seq(E)
    <3>1. \A k \in 2 .. n : k \in 1 .. n
      BY <1>1
    <3> QED
      BY <1>1, <3>1
  <2> QED
    BY <2>1, <2>2 DEF Cases
<1>3. own \in Seq(Seq(E)) /\ (Cases(x) = <<>> => own = <<>>)
  <2>1. ASSUME NEW k \in DOMAIN Cases(x) PROVE Own(Cases(x)[k]) \in Seq(E)
    <3>1. Cases(x)[k] \in E
      BY <1>2
    <3> QED
      BY <3>1
  <2>2. DOMAIN Cases(x) = 1 .. Len(Cases(x)) /\ Len(Cases(x)) \in Nat
    BY <1>2
  <2> HIDE DEF Own
  <2> QED
    BY <2>1, <2>2
<1> HIDE DEF own
<1>4. labels \in Seq(E)
  <2>1. <<>> \in Seq(E) /\ \A t, u \in Seq(E) : t \o u \in Seq(E)
    OBVIOUS
  <2> QED
    BY <1>3, <2>1, FlattenJoins
<1>5. own = <<>> => labels = <<>>
  <2>1. <<>> \in {<<>>} /\ \A t, u \in {<<>>} : t \o u \in {<<>>}
    OBVIOUS
  <2>2. <<>> \in Seq({<<>>})
    OBVIOUS
  <2>3. Flatten(<<>>) \in {<<>>}
    BY <2>1, <2>2, FlattenJoins
  <2> QED
    BY <2>3
<1>6. block_declaration_order(x) =
        IF d = next_block(x) THEN labels
        ELSE IF near = {} THEN Append(labels, d)
        ELSE SubSeq(labels, 1, n0) \o <<d>> \o SubSeq(labels, n0 + 1, Len(labels))
  BY DEF block_declaration_order, own
<1>7. near # {} => n0 \in 0 .. Len(labels)
  <2> SUFFICES ASSUME near # {} PROVE n0 \in 0 .. Len(labels)
    OBVIOUS
  <2>1. near \in SUBSET Nat /\ near \subseteq 1 .. Len(labels)
    BY <1>4
  <2>2. k0 \in near
    <3> HIDE DEF near
    <3> QED
      BY <2>1, LeastNatural
  <2> HIDE DEF k0, near
  <2>3. k0 \in 1 .. Len(labels) /\ Len(labels) \in Nat
    BY <1>4, <2>1, <2>2
  <2> QED
    BY <2>3
<1> HIDE DEF labels, n0, near
<1>8. block_declaration_order(x) \in Seq(E)
  <2>1. CASE d = next_block(x)
    BY <1>4, <1>6, <2>1
  <2>2. CASE d # next_block(x) /\ near = {}
    BY <1>1, <1>4, <1>6, <2>2
  <2>3. CASE d # next_block(x) /\ near # {}
    <3>1. n0 \in 0 .. Len(labels) /\ Len(labels) \in Nat
      BY <1>4, <1>7, <2>3
    <3>2. SubSeq(labels, 1, n0) \in Seq(E) /\ SubSeq(labels, n0 + 1, Len(labels)) \in Seq(E) /\ <<d>> \in Seq(E)
      BY <1>1, <1>4, <3>1
    <3> QED
      BY <1>6, <2>3, <3>2
  <2> QED
    BY <2>1, <2>2, <2>3
<1>9. IsCollapsed(x) => block_declaration_order(x) = <<>>
  BY <1>2, <1>3, <1>5, <1>6 DEF IsCollapsed, IsBlockLike
<1> QED
  BY <1>8, <1>9 DEF E

-------------------------------------------------------------------------------
(* The end of a block: branches and labels.                                *)

\* The scopes of the cases of switch x.
CasesIn(x, s) ==
  IF IsCollapsed(x) THEN s ELSE IF IsBlockLike(x) THEN Append(s, "once") ELSE Append(s, "switch")

\* The cases are in the scope the head of the switch opens, if it opens one.
LEMMA CaseScopes ==
  ASSUME NEW x, NEW s \in Stacks, Fits(x, s), ~IsLoopHeader(x)
  PROVE  /\ CasesIn(x, s) \in Stacks
         /\ ~IsCollapsed(x) => /\ \E op \in {"once", "switch"} : CasesIn(x, s) = Append(s, op)
                               /\ FitsEnd(x, CasesIn(x, s)) /\ Holds(CasesIn(x, s), Breakable)
<1>1. ASSUME NEW op \in {"once", "switch"}
      PROVE  Append(s, op) \in Stacks /\ FitsEnd(x, Append(s, op)) /\ Holds(Append(s, op), Breakable)
  <2>1. op \in Openers /\ op \in Breakable
    BY DEF Openers, Breakable, Loops
  <2>2. Append(s, op) \in Stacks /\ Holds(Append(s, op), Breakable)
    BY <2>1, Nested
  <2>3. Fits(x, Append(s, op))
    BY <2>1, FitsInside
  <2> QED
    BY <2>2, <2>3 DEF FitsEnd
<1> QED
  BY <1>1 DEF CasesIn

LEMMA SwitchHeadFits ==
  ASSUME Rules, NEW x \in Numbered, func[x].terminator = "multiselect", NEW s \in Stacks
  PROVE  SwitchHead(x) \in TextFrom(s, CasesIn(x, s))
<1> DEFINE labels == block_declaration_order(x)
           Assigned(k) == IF k \in PhiLabels(x, labels)
                          THEN <<Token("selects", x, labels[k]), Token("phi", x, labels[k]), Plain("end")>>
                          ELSE <<>>
           first == IF x \in need_ladder_break THEN <<Of("clear", x)>> ELSE <<>>
           parts == [k \in DOMAIN labels |-> Assigned(k)]
           last == IF IsCollapsed(x) THEN <<>> ELSE IF IsBlockLike(x) THEN <<Plain("once")>>
                   ELSE <<Of("switch", x)>>
           Q == TextFrom(s, s)
<1>1. x \in Ids /\ x \in Blocks \cup {NoBlock} /\ func \in Functions
  BY FlowsNest DEF Rules, Built, IInv, TypeInv
<1>2. labels \in Seq(Elements(func[x].targets)) /\ Elements(func[x].targets) \subseteq Blocks
  BY <1>1, LabelsAreTargets, Fields
<1>3. first \in Q
  <2>1. "clear" \in AllOps /\ "clear" \in QuietOps
    BY DEF AllOps, QuietOps
  <2>2. Of("clear", x) \in Texts /\ Of("clear", x).op = "clear"
    BY <1>1, <2>1, TokensAreTexts
  <2>3. IsQuiet(first)
    BY <2>1, <2>2, QuietParts
  <2> QED
    BY <2>3, TextsJoin
<1> HIDE DEF labels
<1>4. ASSUME NEW k \in DOMAIN labels PROVE Assigned(k) \in Q
  <2>1. labels[k] \in Blocks \cup {NoBlock}
    BY <1>2
  <2>2. /\ "selects" \in AllOps /\ "selects" \in Openers /\ "phi" \in AllOps /\ "phi" \in QuietOps
        /\ "end" \in AllOps /\ "end" \in Closers
    BY DEF AllOps, QuietOps, Openers, Closers
  <2>3. /\ Token("selects", x, labels[k]) \in Texts /\ Token("selects", x, labels[k]).op = "selects"
        /\ Token("phi", x, labels[k]) \in Texts /\ Token("phi", x, labels[k]).op = "phi"
        /\ Plain("end") \in Texts /\ Plain("end").op = "end"
    BY <1>1, <2>1, <2>2, TokensAreTexts
  <2>4. /\ Append(s, "selects") \in Stacks
        /\ TokenStep(Token("selects", x, labels[k]), s, Append(s, "selects"))
    BY <2>2, <2>3, TokenMoves
  <2>5. TokenStep(Token("phi", x, labels[k]), Append(s, "selects"), Append(s, "selects"))
    BY <2>2, <2>3 DEF TokenStep
  <2>6. TokenStep(Plain("end"), Append(s, "selects"), s)
    BY <2>2, <2>3, TokenMoves
  <2>7. <<Token("selects", x, labels[k]), Token("phi", x, labels[k]), Plain("end")>> \in Q
    BY <2>3, <2>4, <2>5, <2>6, ThreeTexts
  <2> HIDE DEF Q
  <2>8. <<>> \in Q
    BY TextsJoin DEF Q
  <2> QED
    BY <2>7, <2>8
<1>5. Flatten(parts) \in Q
  <2>1. DOMAIN labels = 1 .. Len(labels) /\ Len(labels) \in Nat
    BY <1>2
  <2>2. parts \in Seq(Q)
    <3> HIDE DEF Q, Assigned
    <3> QED
      BY <1>4, <2>1
  <2>3. <<>> \in Q /\ \A t, u \in Q : t \o u \in Q
    BY TextsJoin
  <2> HIDE DEF Q, parts
  <2> QED
    BY <2>2, <2>3, FlattenJoins
<1>6. last \in TextFrom(s, CasesIn(x, s)) /\ CasesIn(x, s) \in Stacks
  <2>1. ASSUME NEW op \in {"once", "switch"}, NEW token \in Texts, token.op = op
        PROVE  <<token>> \in TextFrom(s, Append(s, op)) /\ Append(s, op) \in Stacks
    <3>1. op \in Openers
      BY DEF Openers, Breakable, Loops
    <3>2. TokenStep(token, s, Append(s, op)) /\ Append(s, op) \in Stacks
      BY <2>1, <3>1, TokenMoves
    <3> QED
      BY <3>2, TextsJoin
  <2>2. "once" \in AllOps /\ "switch" \in AllOps
    BY DEF AllOps, Openers, Breakable, Loops
  <2>3. /\ Plain("once") \in Texts /\ Plain("once").op = "once"
        /\ Of("switch", x) \in Texts /\ Of("switch", x).op = "switch"
    BY <1>1, <2>2, TokensAreTexts
  <2>4. /\ <<Plain("once")>> \in TextFrom(s, Append(s, "once")) /\ Append(s, "once") \in Stacks
        /\ <<Of("switch", x)>> \in TextFrom(s, Append(s, "switch")) /\ Append(s, "switch") \in Stacks
    BY <2>1, <2>3
  <2>5. <<>> \in TextFrom(s, s)
    BY TextsJoin
  <2> QED
    BY <2>4, <2>5 DEF CasesIn
<1>7. SwitchHead(x) = (first \o Flatten(parts)) \o last
  BY DEF SwitchHead, labels
<1> HIDE DEF first, parts, last
<1>8. first \o Flatten(parts) \in TextFrom(s, s)
  BY <1>3, <1>5, TextsJoin
<1> QED
  BY <1>6, <1>7, <1>8, TextsJoin

\* The cases and the end of a switch.
LEMMA SwitchTasksFit ==
  ASSUME Rules, LoopInv, NEW x \in Numbered, func[x].terminator = "multiselect", NEW s \in Stacks, Fits(x, s)
  PROVE  SwitchTasks(x) \in TasksFrom(CasesIn(x, s), s)
<1> DEFINE labels == block_declaration_order(x)
           Label(y) == IF y = default_block(x)
                       THEN IF IsBlockLike(x) THEN <<>> ELSE <<Later(Of("default", x))>>
                       ELSE <<Later(Token("case", x, y))>>
           Case(k) == Label(labels[k])
                        \o <<Task(IF FallsThrough(labels, k) THEN "fall through" ELSE "break out", x, x),
                             BranchTo(x, labels[k]), Task("break out", x, x)>>
           m == next_block(x)
           needs_phi == flush_phi_required(x, m) /\ (default_block(x) = m \/ HasLiteralsToMerge(x))
           ml == IF HasLiteralsToMerge(x) THEN <<Later(Token("case", x, m))>> ELSE <<>>
           md == IF default_block(x) = m THEN <<Later(Of("default", x))>> ELSE <<>>
           mb == <<Task("flush", x, m), Later(Plain("break"))>>
           merging == IF ~IsCollapsed(x) /\ (needs_phi \/ HasLiteralsToMerge(x)) THEN (ml \o md) \o mb ELSE <<>>
           end == IF IsCollapsed(x) THEN <<Task("flush", x, m)>> ELSE <<Later(Plain("end"))>>
           leave == <<Task("leave switch", x, x)>>
           parts == [k \in DOMAIN labels |-> Case(k)]
           q == CasesIn(x, s)
           Q == TasksFrom(q, q)
<1>1. x \in Ids /\ x \in Blocks \cup {NoBlock} /\ func \in Functions /\ func[x].merge = "selection"
  BY FlowsNest DEF Rules, Built, IInv, TypeInv, SwitchesHaveMerges, Ids
<1>2. ~IsLoopHeader(x) /\ m \in Blocks \cup {NoBlock}
  BY <1>1, Fields DEF IsLoopHeader
<1>3. labels \in Seq(Elements(func[x].targets)) /\ Elements(func[x].targets) \subseteq Blocks
  BY <1>1, LabelsAreTargets, Fields
<1>4. q \in Stacks
  BY <1>2, CaseScopes
<1>5. SwitchTasks(x) = ((Flatten(parts) \o merging) \o end) \o leave
  BY DEF SwitchTasks
<1> HIDE DEF q, m
<1>6. leave \in TasksFrom(s, s)
  <2>1. loop_dominator[x] # NoBlock => Holds(s, Breakable)
    <3>1. Holds(s, Loops) => Holds(s, Breakable)
      BY DEF Holds, Breakable
    <3> QED
      BY <3>1 DEF LoopInv, Fits
  <2>2. "leave switch" \in CallKinds
    BY DEF CallKinds
  <2>3. CallStep(Task("leave switch", x, x), s, s)
    <3>1. Task("leave switch", x, x).do = "leave switch" /\ Task("leave switch", x, x).x = x
      BY DEF Task
    <3> QED
      BY <2>1, <3>1 DEF CallStep
  <2> QED
    BY <1>1, <2>2, <2>3, CallFits
<1>7. ASSUME NEW u \in Stacks, NEW do \in {"fall through", "break out", "flush"}, NEW y \in Blocks \cup {NoBlock}
      PROVE  /\ Task(do, x, y) \in Tasks /\ TaskStep(Task(do, x, y), u, u)
             /\ <<Task(do, x, y)>> \in TasksFrom(u, u)
  <2>1. do \in CallKinds
    BY DEF CallKinds
  <2>2. CallStep(Task(do, x, y), u, u)
    BY DEF Task, CallStep
  <2> QED
    BY <1>1, <2>1, <2>2, CallFits, TasksAreTyped
<1>8. /\ "default" \in AllOps /\ "case" \in AllOps /\ "end" \in AllOps /\ "break" \in AllOps
      /\ "default" \in QuietOps /\ "case" \in QuietOps /\ "end" \in Closers
  BY DEF AllOps, QuietOps, Closers
<1>9. /\ Of("default", x) \in Texts /\ Of("default", x).op = "default"
      /\ \A y \in Blocks \cup {NoBlock} : Token("case", x, y) \in Texts /\ Token("case", x, y).op = "case"
      /\ Plain("end") \in Texts /\ Plain("end").op = "end"
      /\ Plain("break") \in Texts /\ Plain("break").op = "break"
  BY <1>1, <1>8, TokensAreTexts
<1>10. /\ <<Later(Of("default", x))>> \in Q
       /\ \A y \in Blocks \cup {NoBlock} : <<Later(Token("case", x, y))>> \in Q
       /\ <<>> \in Q
  <2>1. ASSUME NEW token \in Texts, token.op \in QuietOps PROVE <<Later(token)>> \in Q
    <3>1. TokenStep(token, q, q)
      BY <2>1 DEF TokenStep
    <3> QED
      BY <1>4, <3>1, LaterFits
  <2>2. <<>> \in Q
    BY <1>4, TasksJoin
  <2> HIDE DEF Q
  <2> QED
    BY <1>8, <1>9, <2>1, <2>2
<1>11. CASE IsCollapsed(x)
  <2>1. q = s
    BY <1>11 DEF q, CasesIn
  <2>2. labels = <<>>
    BY <1>1, <1>11, LabelsAreTargets
  <2>3. Flatten(parts) = <<>>
    <3>1. parts = <<>>
      <4>1. DOMAIN labels = {}
        BY <2>2
      <4> HIDE DEF Case, labels
      <4> QED
        BY <4>1
    <3>2. <<>> \in {<<>>} /\ \A t, u \in {<<>>} : t \o u \in {<<>>}
      OBVIOUS
    <3>3. <<>> \in Seq({<<>>})
      OBVIOUS
    <3>4. Flatten(<<>>) \in {<<>>}
      BY <3>2, <3>3, FlattenJoins
    <3> QED
      BY <3>1, <3>4
  <2>4. merging = <<>> /\ end = <<Task("flush", x, m)>>
    BY <1>11
  <2>5. end \in TasksFrom(s, s)
    BY <1>2, <1>7, <2>4 DEF m
  <2> HIDE DEF parts, merging, end, leave
  <2>6. Flatten(parts) \o merging \in TasksFrom(s, s)
    BY <2>3, <2>4, TasksJoin
  <2>7. (Flatten(parts) \o merging) \o end \in TasksFrom(s, s)
    BY <2>5, <2>6, TasksJoin
  <2> QED
    BY <1>5, <1>6, <2>1, <2>7, TasksJoin DEF q
<1>12. CASE ~IsCollapsed(x)
  <2>1. FitsEnd(x, q) /\ Holds(q, Breakable) /\ \E op \in {"once", "switch"} : q = Append(s, op)
    BY <1>2, <1>12, CaseScopes DEF q
  <2>2. PICK op \in {"once", "switch"} : q = Append(s, op)
    BY <2>1
  <2>3. end \in TasksFrom(q, s)
    <3>1. op \in Openers
      BY DEF Openers, Breakable, Loops
    <3>2. TokenStep(Plain("end"), q, s)
      BY <1>8, <1>9, <2>2, <3>1, TokenMoves
    <3>3. <<Later(Plain("end"))>> \in TasksFrom(q, s)
      BY <1>4, <1>9, <3>2, LaterFits
    <3> QED
      BY <1>12, <3>3
  <2>4. merging \in Q
    <3>1. ml \in Q /\ md \in Q
      <4> HIDE DEF Q
      <4> QED
        BY <1>2, <1>10 DEF m
    <3>2. mb \in Q
      <4>1. TokenStep(Plain("break"), q, q)
        BY <1>9, <2>1 DEF TokenStep
      <4>2. Later(Plain("break")) \in Tasks /\ TaskStep(Later(Plain("break")), q, q)
        BY <1>4, <1>9, <4>1, LaterFits
      <4>3. Task("flush", x, m) \in Tasks /\ TaskStep(Task("flush", x, m), q, q)
        BY <1>2, <1>4, <1>7 DEF m
      <4> QED
        BY <1>4, <4>2, <4>3, TwoTasks
    <3> HIDE DEF ml, md, mb
    <3>3. (ml \o md) \o mb \in Q
      <4>1. ml \o md \in Q
        BY <1>4, <3>1, TasksJoin
      <4> QED
        BY <1>4, <3>2, <4>1, TasksJoin
    <3> HIDE DEF Q
    <3> QED
      BY <1>10, <3>3
  <2>5. ASSUME NEW k \in DOMAIN labels PROVE Case(k) \in Q
    <3> DEFINE y == labels[k]
               first == Task(IF FallsThrough(labels, k) THEN "fall through" ELSE "break out", x, x)
               last == Task("break out", x, x)
    <3>1. y \in Elements(func[x].targets) /\ y \in Blocks
      BY <1>3
    <3>2. Label(y) \in Q
      <4> HIDE DEF Q, y
      <4> QED
        BY <1>10, <3>1
    <3>3. first \in Tasks /\ TaskStep(first, q, q) /\ last \in Tasks /\ TaskStep(last, q, q)
      BY <1>1, <1>4, <1>7
    <3>4. BranchTo(x, y) \in Tasks /\ TaskStep(BranchTo(x, y), q, q)
      BY <1>4, <2>1, <3>1, BranchFits
    <3>5. <<first, BranchTo(x, y), last>> \in Q
      <4> HIDE DEF first, last, y
      <4> QED
        BY <1>4, <3>3, <3>4, ThreeTasks
    <3>6. Case(k) = Label(y) \o <<first, BranchTo(x, y), last>>
      OBVIOUS
    <3> HIDE DEF Label, first, last, y, Case
    <3> QED
      BY <1>4, <3>2, <3>5, <3>6, TasksJoin
  <2>6. Flatten(parts) \in Q
    <3>1. DOMAIN labels = 1 .. Len(labels) /\ Len(labels) \in Nat
      BY <1>3
    <3>2. parts \in Seq(Q)
      <4> HIDE DEF Q, Case, labels
      <4> QED
        BY <2>5, <3>1
    <3>3. <<>> \in Q /\ \A t, u \in Q : t \o u \in Q
      BY <1>4, TasksJoin
    <3> HIDE DEF Q, parts
    <3> QED
      BY <3>2, <3>3, FlattenJoins
  <2> HIDE DEF parts, merging, end, leave
  <2>7. Flatten(parts) \o merging \in TasksFrom(q, q)
    BY <1>4, <2>4, <2>6, TasksJoin
  <2>8. (Flatten(parts) \o merging) \o end \in TasksFrom(q, s)
    BY <1>4, <2>3, <2>7, TasksJoin
  <2> QED
    BY <1>4, <1>5, <1>6, <2>8, TasksJoin DEF q
<1> QED
  BY <1>11, <1>12

\* The block after a construct of which it is the merge block.
LEMMA NextIsNoLoopMerge ==
  ASSUME Rules, MarkInv, NEW x \in Ids, func[x].merge = "selection"
  PROVE  ~is_loop_break(func[x].merge_block)
<1> SUFFICES ASSUME is_loop_break(func[x].merge_block) PROVE FALSE
  OBVIOUS
<1>1. func[x].merge_block \in Ids
  BY Fields DEF Rules, Built, IInv, TypeInv
<1>2. PICK h \in Ids : func[h].merge = "loop" /\ func[h].merge_block = func[x].merge_block
  BY <1>1 DEF MarkInv, is_loop_break
<1>3. h # x
  BY <1>2
<1> QED
  BY <1>2, <1>3 DEF Rules, TargetsAreUnique, Ids

\* The block which follows.
LEMMA NextFits ==
  ASSUME NEW x \in Blocks, NEW y \in Numbered, NEW s \in Stacks, Fits(y, s), ~is_loop_break(y)
  PROVE  <<Task("next", x, y)>> \in TasksFrom(s, s)
<1>1. y \in Blocks /\ "next" \in CallKinds
  BY DEF Numbered, CallKinds
<1>2. CallStep(Task("next", x, y), s, s)
  <2>1. Task("next", x, y).do = "next" /\ Task("next", x, y).y = y
    BY DEF Task
  <2> QED
    BY <2>1 DEF CallStep
<1> QED
  BY <1>1, <1>2, CallFits

\* What a terminator leaves to do, in the scopes after the head of its block.
LEMMA TerminatorFits ==
  ASSUME Rules, MarkInv, LoopInv, NEW x \in Numbered, NEW kind, NEW s \in Stacks, Fits(x, s),
         IsLoopHeader(x) => Holds(s, Loops), ~IsLoopHeader(x) => kind = "plain"
  PROVE  TerminatorTasks(x, kind) \in
           TasksFrom(IF func[x].terminator = "multiselect" THEN CasesIn(x, s) ELSE s, s)
<1> DEFINE n == next_block(x)
           goes_on == <<Task("next", x, n)>>
<1>1. x \in Ids /\ x \in Blocks /\ func \in Functions
  BY FlowsNest DEF Rules, Built, IInv, TypeInv
<1>2. CASE func[x].terminator = "direct"
  <2>1. FitsEnd(x, s)
    BY <1>2 DEF FitsEnd
  <2>2. n = func[x].targets[1] /\ n \in Elements(func[x].targets)
    BY <1>1, <1>2, Fields DEF next_block
  <2>3. <<BranchTo(x, n)>> \in TasksFrom(s, s) /\ n \in Numbered /\ Fits(n, s) /\ <<>> \in TasksFrom(s, s)
    BY <2>1, <2>2, BranchFits, TasksJoin
  <2>4. ~is_break(n) => goes_on \in TasksFrom(s, s)
    <3>1. ~is_break(n) => ~is_loop_break(n)
      BY DEF is_break, is_loop_break
    <3> QED
      BY <1>1, <2>3, <3>1, NextFits
  <2>5. TerminatorTasks(x, kind) \in {<<BranchTo(x, n)>>, <<>>} \/ (~is_break(n) /\ TerminatorTasks(x, kind) = goes_on)
    BY <1>2 DEF TerminatorTasks
  <2> HIDE DEF n, goes_on
  <2> QED
    BY <1>2, <2>3, <2>4, <2>5
<1>3. CASE func[x].terminator = "select"
  <2> DEFINE c == func[x].continue_block
             long == <<Task("complex", c, c), BodyBranch(x, x), Task("simple", c, c)>>
             body == <<BodyBranch(x, x)>>
             last == IF n = NoBlock THEN <<>> ELSE goes_on
             first == IF kind = "select continue for" THEN long
                      ELSE IF kind = "select for" THEN body ELSE ConditionalBranch(x)
  <2>1. FitsEnd(x, s)
    BY <1>3 DEF FitsEnd
  <2>2. body \in TasksFrom(s, s) /\ BodyBranch(x, x) \in Tasks /\ TaskStep(BodyBranch(x, x), s, s)
    BY <1>3, <2>1, BodyFits
  <2>3. IsLoopHeader(x) => long \in TasksFrom(s, s)
    <3> SUFFICES ASSUME IsLoopHeader(x) PROVE long \in TasksFrom(s, s)
      OBVIOUS
    <3>1. c \in Ids /\ c \in Blocks
      BY <1>1, Fields DEF IsLoopHeader
    <3>2. ASSUME NEW do \in {"complex", "simple"} PROVE Task(do, c, c) \in Tasks /\ TaskStep(Task(do, c, c), s, s)
      <4>1. do \in CallKinds
        BY DEF CallKinds
      <4>2. CallStep(Task(do, c, c), s, s)
        BY DEF Task, CallStep
      <4> QED
        BY <3>1, <4>1, <4>2, CallFits, TasksAreTyped
    <3> HIDE DEF c
    <3> QED
      BY <2>2, <3>2, ThreeTasks
  <2>4. ConditionalBranch(x) \in TasksFrom(s, s)
    BY <1>3, <2>1, ConditionalFits
  <2>5. first \in TasksFrom(s, s)
    <3> HIDE DEF long, body
    <3> QED
      BY <2>2, <2>3, <2>4
  <2>6. last \in TasksFrom(s, s)
    <3>1. CASE n = NoBlock
      BY <3>1, TasksJoin
    <3>2. CASE n # NoBlock
      <4>1. func[x].merge = "selection" /\ n = func[x].merge_block
        BY <1>3, <3>2 DEF next_block
      <4>2. n \in Numbered /\ Fits(n, s)
        BY <4>1, MergeFits
      <4>3. ~is_loop_break(n)
        BY <1>1, <4>1, NextIsNoLoopMerge
      <4> QED
        BY <1>1, <3>2, <4>2, <4>3, NextFits
    <3> QED
      BY <3>1, <3>2
  <2>7. TerminatorTasks(x, kind) = first \o last
    BY <1>3 DEF TerminatorTasks
  <2> HIDE DEF first, last
  <2> QED
    BY <1>3, <2>5, <2>6, <2>7, TasksJoin
<1>4. CASE func[x].terminator = "multiselect"
  <2>1. func[x].merge = "selection"
    BY <1>1, <1>4 DEF Rules, SwitchesHaveMerges, Ids
  <2>2. n = func[x].merge_block
    BY <2>1 DEF next_block
  <2>3. n \in Numbered /\ Fits(n, s)
    BY <2>1, <2>2, MergeFits
  <2>4. ~is_loop_break(n)
    BY <1>1, <2>1, <2>2, NextIsNoLoopMerge
  <2>5. goes_on \in TasksFrom(s, s)
    BY <1>1, <2>3, <2>4, NextFits
  <2>6. SwitchTasks(x) \in TasksFrom(CasesIn(x, s), s)
    BY <1>4, SwitchTasksFit
  <2>7. CasesIn(x, s) \in Stacks
    BY <2>1, CaseScopes DEF IsLoopHeader
  <2>8. TerminatorTasks(x, kind) = SwitchTasks(x) \o goes_on
    BY <1>4 DEF TerminatorTasks
  <2> HIDE DEF goes_on
  <2> QED
    BY <1>4, <2>5, <2>6, <2>7, <2>8, TasksJoin
<1>5. CASE func[x].terminator = "exit"
  BY <1>5, TasksJoin DEF TerminatorTasks
<1> QED
  BY <1>1, <1>2, <1>3, <1>4, <1>5, Fields

\* What an exit writes.
LEMMA ExitFits ==
  ASSUME Rules, NEW x \in Numbered, func[x].terminator = "exit", NEW s \in Stacks, Fits(x, s),
         content.exits[x] \in {"return", "kill", "unreachable"}
  PROVE  ExitTokens(x) \in TextFrom(s, s)
<1>1. /\ "return" \in AllOps /\ "kill" \in AllOps /\ "break" \in AllOps
      /\ "return" \in QuietOps /\ "kill" \in QuietOps
  BY DEF AllOps, QuietOps
<1>2. /\ Plain("return") \in Texts /\ Plain("return").op = "return" /\ Plain("kill") \in Texts /\ Plain("kill").op = "kill"
      /\ Plain("break") \in Texts /\ Plain("break").op = "break"
  BY <1>1, TokensAreTexts
<1>3. <<>> \in TextFrom(s, s) /\ <<Plain("return")>> \in TextFrom(s, s) /\ <<Plain("kill")>> \in TextFrom(s, s)
  BY <1>1, <1>2, TextsJoin, QuietParts
<1>4. IsInSwitch(x) => <<Plain("break")>> \in TextFrom(s, s)
  <2> SUFFICES ASSUME IsInSwitch(x) PROVE <<Plain("break")>> \in TextFrom(s, s)
    OBVIOUS
  <2>1. Holds(s, Breakable)
    BY UnreachableFits
  <2>2. TokenStep(Plain("break"), s, s)
    BY <1>2, <2>1 DEF TokenStep
  <2> QED
    BY <1>2, <2>2, TextsJoin
<1> QED
  BY <1>3, <1>4 DEF ExitTokens

-------------------------------------------------------------------------------
(* A block.                                                                *)

\* How the exits exit.
ExitInv ==
  \A x \in Ids : func[x].terminator = "exit" => content.exits[x] \in {"return", "kill", "unreachable"}

\* What the emission knows of the function.
Given == Rules /\ MarkInv /\ LoopInv /\ ExitInv

\* What emit_block_chain writes for block x and leaves to do.
ChainTokens(x) ==
  FormOf(x).tokens \o (IF func[x].terminator = "multiselect" THEN SwitchHead(x)
                       ELSE IF func[x].terminator = "exit" THEN ExitTokens(x) ELSE <<>>)
ChainFirst(x) ==
  IF FormOf(x).kind = "direct for" THEN <<BodyBranch(func[x].targets[1], x)>> ELSE <<>>
ChainLast(x) ==
  IF ~IsLoopHeader(x) THEN <<>>
  ELSE IF FormOf(x).kind \in {"do while", "failed"} /\ continue_block_type(func[x].continue_block) = "do while"
  THEN <<Task("end do", x, func[x].continue_block)>> ELSE <<Task("end loop", x, func[x].continue_block)>>
ChainTasks(x) == ChainFirst(x) \o TerminatorTasks(x, FormOf(x).kind) \o ChainLast(x)

\* The end of a loop.
LEMMA LoopEndFits ==
  ASSUME Rules, NEW x \in Numbered, IsLoopHeader(x), NEW s \in Stacks, Fits(x, s), NEW op \in Loops
  PROVE  ChainLast(x) \in TasksFrom(Append(s, op), s)
<1> DEFINE c == func[x].continue_block
<1>1. x \in Ids /\ x \in Blocks \cup {NoBlock} /\ func \in Functions
  BY FlowsNest DEF Rules, Built, IInv, TypeInv
<1>2. c \in Blocks \cup {NoBlock}
  BY <1>1, Fields DEF IsLoopHeader
<1>3. op \in Openers
  BY DEF Openers, Breakable
<1>4. Append(s, op) \in Stacks /\ Append(s, op) # <<>> /\ Outer(Append(s, op)) = s
  BY <1>3, Nested
<1>5. Fits(merge_block(x), s)
  BY MergeFits DEF merge_block, IsLoopHeader
<1>6. ASSUME NEW do \in {"end loop", "end do"} PROVE <<Task(do, x, c)>> \in TasksFrom(Append(s, op), s)
  <2>1. do \in CallKinds
    BY DEF CallKinds
  <2>2. Task(do, x, c).do = do /\ Task(do, x, c).x = x /\ Task(do, x, c).y = c
    BY DEF Task
  <2>3. CallStep(Task(do, x, c), Append(s, op), s)
    BY <1>4, <1>5, <2>2 DEF CallStep
  <2> QED
    BY <1>1, <1>2, <1>4, <2>1, <2>3, CallFits
<1> QED
  BY <1>6 DEF ChainLast

\* emit_block_chain is replaced by what it writes and leaves to do.
LEMMA ChainReplaced ==
  ASSUME Given, NEW x \in Numbered, NEW s \in Stacks, Fits(x, s), FormOf(x).kind # "failed"
  PROVE  \E q \in Stacks : ChainTokens(x) \in TextFrom(s, q) /\ ChainTasks(x) \in TasksFrom(q, s)
<1> DEFINE form == FormOf(x)
           first == ChainFirst(x)
           left == TerminatorTasks(x, form.kind)
           last == ChainLast(x)
           text == form.tokens
           more == IF func[x].terminator = "multiselect" THEN SwitchHead(x)
                   ELSE IF func[x].terminator = "exit" THEN ExitTokens(x) ELSE <<>>
<1>1. x \in Ids /\ x \in Blocks \cup {NoBlock} /\ func \in Functions
  BY FlowsNest DEF Given, Rules, Built, IInv, TypeInv
<1>2. ChainTokens(x) = text \o more /\ ChainTasks(x) = (first \o left) \o last
  BY DEF ChainTokens, ChainTasks
<1>3. CASE IsLoopHeader(x)
  <2>1. PICK op \in Loops : text \in TextFrom(s, Append(s, op))
    BY <1>1, <1>3, HeadFits
  <2> DEFINE r == Append(s, op)
  <2>2. op \in Openers
    BY DEF Openers, Breakable
  <2>3. r \in Stacks /\ Fits(x, r) /\ Holds(r, Loops) /\ Holds(r, Breakable)
    BY <2>2, Nested, FitsInside
  <2>4. func[x].terminator # "multiselect" /\ func[x].terminator # "exit"
    <3>1. func[x].merge = "loop"
      BY <1>3 DEF IsLoopHeader
    <3> QED
      BY <1>1, <3>1, Fields DEF Given, Rules, SwitchesHaveMerges, Ids
  <2>5. FitsEnd(x, r)
    BY <2>3 DEF FitsEnd
  <2> HIDE DEF r
  <2>6. left \in TasksFrom(r, r)
    BY <1>3, <2>3, <2>4, TerminatorFits DEF Given
  <2>7. first \in TasksFrom(r, r)
    <3>1. CASE form.kind = "direct for"
      <4> DEFINE y == func[x].targets[1]
      <4>1. IsDirectFor(x)
        BY <1>1, <3>1, HeadFits
      <4>2. func[x].terminator = "direct" /\ func[y].terminator = "select" /\ func[y].merge = "none"
        BY <4>1 DEF IsDirectFor
      <4>3. y \in Elements(func[x].targets)
        BY <1>1, <4>2, Fields
      <4> HIDE DEF y
      <4>4. y \in Numbered /\ Fits(y, r)
        BY <2>3, <2>5, <4>3, BranchFits DEF Given
      <4>5. FitsEnd(y, r)
        BY <4>2, <4>4 DEF FitsEnd, IsLoopHeader
      <4>6. <<BodyBranch(y, x)>> \in TasksFrom(r, r)
        BY <2>3, <4>2, <4>4, <4>5, BodyFits DEF Given
      <4> QED
        BY <3>1, <4>6 DEF ChainFirst, y
    <3>2. CASE form.kind # "direct for"
      BY <2>3, <3>2, TasksJoin DEF ChainFirst
    <3> QED
      BY <3>1, <3>2
  <2>8. last \in TasksFrom(r, s)
    BY <1>3, LoopEndFits DEF Given, r
  <2>9. more = <<>>
    BY <2>4
  <2> HIDE DEF first, left, last, text, more, form
  <2>10. text \o more \in TextFrom(s, r)
    <3>1. <<>> \in TextFrom(r, r) /\ text \in TextFrom(s, r)
      BY <2>1, <2>3, TextsJoin DEF r
    <3> QED
      BY <2>3, <2>9, <3>1, TextsJoin
  <2>11. first \o left \in TasksFrom(r, r)
    BY <2>3, <2>6, <2>7, TasksJoin
  <2>12. (first \o left) \o last \in TasksFrom(r, s)
    BY <2>3, <2>8, <2>11, TasksJoin
  <2> QED
    BY <1>2, <2>3, <2>10, <2>12
<1>4. CASE ~IsLoopHeader(x)
  <2> DEFINE q == IF func[x].terminator = "multiselect" THEN CasesIn(x, s) ELSE s
  <2>1. form.kind = "plain" /\ text \in TextFrom(s, s)
    BY <1>1, <1>4, HeadFits
  <2>2. q \in Stacks
    BY <1>4, CaseScopes
  <2>3. left \in TasksFrom(q, s)
    BY <1>4, <2>1, TerminatorFits DEF Given
  <2>4. first = <<>> /\ last = <<>>
    BY <1>4, <2>1 DEF ChainFirst, ChainLast
  <2>5. more \in TextFrom(s, q)
    <3>1. CASE func[x].terminator = "multiselect"
      BY <3>1, SwitchHeadFits DEF Given
    <3>2. CASE func[x].terminator = "exit"
      <4>1. content.exits[x] \in {"return", "kill", "unreachable"}
        BY <1>1, <3>2 DEF Given, ExitInv
      <4> QED
        BY <3>2, <4>1, ExitFits DEF Given
    <3>3. CASE func[x].terminator \notin {"multiselect", "exit"}
      BY <3>3, TextsJoin
    <3> QED
      BY <3>1, <3>2, <3>3
  <2> HIDE DEF first, left, last, text, more, form, q
  <2>6. text \o more \in TextFrom(s, q)
    BY <2>1, <2>2, <2>5, TextsJoin
  <2>7. first \o left \in TasksFrom(q, s)
    <3>1. <<>> \in TasksFrom(q, q)
      BY <2>2, TasksJoin
    <3> QED
      BY <2>2, <2>3, <2>4, <3>1, TasksJoin
  <2>8. (first \o left) \o last \in TasksFrom(q, s)
    <3>1. <<>> \in TasksFrom(s, s)
      BY TasksJoin
    <3> QED
      BY <2>2, <2>4, <2>7, <3>1, TasksJoin
  <2> QED
    BY <1>2, <2>2, <2>6, <2>8
<1> QED
  BY <1>3, <1>4

-------------------------------------------------------------------------------
(* The other calls.                                                        *)

\* The arguments of a call.
LEMMA Arguments ==
  ASSUME todo \in Seq(Tasks), todo # <<>>
  PROVE  Now \in Tasks /\ Now.x \in Blocks \cup {NoBlock} /\ Now.y \in Blocks \cup {NoBlock}
<1>1. todo[1] \in Tasks
  OBVIOUS
<1> QED
  BY <1>1 DEF Now, Tasks, Later

\* A call which leaves the scopes as they are.
LEMMA CallStays ==
  ASSUME NEW tokens, NEW tasks, Now.do \in CallKinds \ {"end loop", "end do"},
         \A s \in Stacks : CallStep(Now, s, s) => tokens \in TextFrom(s, s) /\ tasks \in TasksFrom(s, s)
  PROVE  CallIsReplaced(tokens, tasks)
<1> SUFFICES ASSUME NEW s \in Stacks, NEW r \in Stacks, TaskStep(todo[1], s, r)
             PROVE  \E q \in Stacks : tokens \in TextFrom(s, q) /\ tasks \in TasksFrom(q, r)
  BY DEF CallIsReplaced
<1>1. CallStep(Now, s, r)
  BY DEF TaskStep, CallKinds, Now
<1>2. r = s
  BY <1>1 DEF CallStep
<1> QED
  BY <1>1, <1>2

\* The calls which are left, and jumps.
LEMMA ChainFits ==
  ASSUME NEW y \in Numbered, NEW s \in Stacks, Fits(y, s)
  PROVE  <<Chain(y)>> \in TasksFrom(s, s)
<1>1. "chain" \in CallKinds /\ y \in Blocks
  BY DEF CallKinds, Numbered
<1>2. CallStep(Task("chain", y, NoBlock), s, s)
  <2>1. Task("chain", y, NoBlock).do = "chain" /\ Task("chain", y, NoBlock).x = y
    BY DEF Task
  <2> QED
    BY <2>1 DEF CallStep
<1> QED
  BY <1>1, <1>2, CallFits DEF Chain

LEMMA ContinueCallFits ==
  ASSUME NEW x \in Blocks \cup {NoBlock}, NEW y \in Blocks \cup {NoBlock}, NEW s \in Stacks,
         x = y \/ (y \in Numbered /\ Fits(y, s) /\ Holds(s, Loops))
  PROVE  <<Task("continue", x, y)>> \in TasksFrom(s, s)
<1>1. "continue" \in CallKinds
  BY DEF CallKinds
<1>2. CallStep(Task("continue", x, y), s, s)
  <2>1. Task("continue", x, y).do = "continue" /\ Task("continue", x, y).x = x /\ Task("continue", x, y).y = y
    BY DEF Task
  <2> QED
    BY <2>1 DEF CallStep
<1> QED
  BY <1>1, <1>2, CallFits

LEMMA JumpTexts ==
  ASSUME NEW s \in Stacks
  PROVE  /\ Holds(s, Loops) => <<Plain("continue")>> \in TextFrom(s, s)
         /\ Holds(s, Breakable) => <<Plain("break")>> \in TextFrom(s, s)
         /\ \A x \in Blocks \cup {NoBlock} : Holds(s, Breakable) => <<Of("test", x)>> \in TextFrom(s, s)
<1>1. "continue" \in AllOps /\ "break" \in AllOps /\ "test" \in AllOps
  BY DEF AllOps
<1>2. /\ Plain("continue") \in Texts /\ Plain("continue").op = "continue"
      /\ Plain("break") \in Texts /\ Plain("break").op = "break"
  BY <1>1, TokensAreTexts
<1>3. ASSUME NEW x \in Blocks \cup {NoBlock}, Holds(s, Breakable) PROVE <<Of("test", x)>> \in TextFrom(s, s)
  <2>1. Of("test", x) \in Texts /\ Of("test", x).op = "test"
    BY <1>1, TokensAreTexts
  <2>2. TokenStep(Of("test", x), s, s)
    BY <1>3, <2>1 DEF TokenStep
  <2> QED
    BY <2>1, <2>2, TextsJoin
<1>4. Holds(s, Loops) => TokenStep(Plain("continue"), s, s)
  BY <1>2 DEF TokenStep
<1>5. Holds(s, Breakable) => TokenStep(Plain("break"), s, s)
  BY <1>2 DEF TokenStep
<1> QED
  BY <1>2, <1>3, <1>4, <1>5, TextsJoin

\* A ladder leads through switches in the loop.
LEMMA LadderIsOfStack ==
  ASSUME NEW S, switch_stack \in Seq(S), NEW m
  PROVE  /\ Ladder(m) \in Seq(S)
         /\ \A x \in Elements(Ladder(m)) : loop_dominator[x] # NoBlock
<1> DEFINE Leaves(k) == /\ loop_dominator[switch_stack[k]] # NoBlock
                        /\ merge_block(loop_dominator[switch_stack[k]]) = m
           n == Len(switch_stack)
           held == {k \in 0 .. n : \A j \in k + 1 .. n : Leaves(j)}
           lowest == CHOOSE k \in held : \A j \in held : k <= j
<1>1. n \in Nat
  OBVIOUS
<1>2. lowest \in held
  <2>1. n \in held
    <3>1. n + 1 .. n = {}
      BY <1>1
    <3> QED
      BY <1>1, <3>1
  <2>2. held \in SUBSET Nat
    BY <1>1
  <2> HIDE DEF held
  <2> QED
    BY <2>1, <2>2, LeastNatural
<1>3. Ladder(m) = SubSeq(switch_stack, lowest + 1, n)
  BY DEF Ladder
<1>4. lowest \in 0 .. n /\ \A j \in lowest + 1 .. n : loop_dominator[switch_stack[j]] # NoBlock
  BY <1>2
<1> HIDE DEF lowest
<1>5. \A k \in lowest + 1 .. n : k \in 1 .. n
  BY <1>1, <1>4
<1>6. SubSeq(switch_stack, lowest + 1, n) \in Seq(S)
  BY <1>1, <1>4, <1>5
<1>7. ASSUME NEW k \in DOMAIN SubSeq(switch_stack, lowest + 1, n)
      PROVE  loop_dominator[SubSeq(switch_stack, lowest + 1, n)[k]] # NoBlock
  <2>1. k \in 1 .. n - lowest /\ SubSeq(switch_stack, lowest + 1, n)[k] = switch_stack[lowest + k]
    BY <1>1, <1>4
  <2>2. lowest + k \in lowest + 1 .. n
    BY <1>1, <1>4, <2>1
  <2> QED
    BY <1>4, <2>1, <2>2
<1> QED
  BY <1>3, <1>6, <1>7 DEF Elements

\* The texts and tasks of branch(from, to).
LEMMA BranchReplaced ==
  ASSUME Given, NEW x \in Numbered, NEW y, <<x, y>> \in RealFlow, NEW s \in Stacks, FitsEnd(x, s),
         switch_stack \in Seq(Blocks \cup {NoBlock})
  PROVE  LET phis == flush_phi(x, y)
             ladder == IF is_loop_break(y) THEN Ladder(y) ELSE <<>>
             sets == [k \in DOMAIN ladder |-> Of("set", ladder[Len(ladder) + 1 - k])]
             merges == meta[y] \cap {"loop merge", "switch merge", "selection merge"} # {}
             left == IF is_continue(y) \/ x = y
                     THEN IF is_continue(y) /\ merges THEN <<>> ELSE <<Task("continue", x, y)>>
                     ELSE IF is_conditional(y) THEN <<>> ELSE <<Chain(y)>>
         IN /\ phis \in TextFrom(s, s) /\ <<>> \in TasksFrom(s, s)
            /\ loop_dominator[x] = y => phis \o <<Plain("continue")>> \in TextFrom(s, s)
            /\ x # y /\ is_break(y) => phis \o sets \o <<Plain("break")>> \in TextFrom(s, s)
            /\ left \in TasksFrom(s, s)
<1> DEFINE phis == flush_phi(x, y)
           ladder == IF is_loop_break(y) THEN Ladder(y) ELSE <<>>
           sets == [k \in DOMAIN ladder |-> Of("set", ladder[Len(ladder) + 1 - k])]
           merges == meta[y] \cap {"loop merge", "switch merge", "selection merge"} # {}
           left == IF is_continue(y) \/ x = y
                   THEN IF is_continue(y) /\ merges THEN <<>> ELSE <<Task("continue", x, y)>>
                   ELSE IF is_conditional(y) THEN <<>> ELSE <<Chain(y)>>
<1>1. x \in Ids /\ x \in Blocks /\ func \in Functions
  BY FlowsNest DEF Given, Rules, Built, IInv, TypeInv
<1>2. y \in Elements(func[x].targets)
  BY FlowEdges
<1>3. y \in Numbered /\ Fits(y, s) /\ y \in Ids /\ y \in Blocks /\ y # NoBlock
  BY <1>1, <1>2, BranchFits, Fields DEF Given
<1>4. phis \in TextFrom(s, s) /\ <<>> \in TasksFrom(s, s)
  BY <1>1, <1>3, Statements, TextsJoin, TasksJoin
<1>5. loop_dominator[x] = y => phis \o <<Plain("continue")>> \in TextFrom(s, s)
  <2> SUFFICES ASSUME loop_dominator[x] = y PROVE phis \o <<Plain("continue")>> \in TextFrom(s, s)
    OBVIOUS
  <2>1. Holds(s, Loops)
    BY <1>3 DEF Given, LoopInv, FitsEnd, Fits
  <2>2. <<Plain("continue")>> \in TextFrom(s, s)
    BY <2>1, JumpTexts
  <2> QED
    BY <1>4, <2>2, TextsJoin
<1>6. sets \in TextFrom(s, s)
  <2>1. ladder \in Seq(Blocks \cup {NoBlock})
    BY LadderIsOfStack
  <2>2. Len(ladder) \in Nat /\ DOMAIN ladder = 1 .. Len(ladder) /\ \A k \in 1 .. Len(ladder) : Len(ladder) + 1 - k \in 1 .. Len(ladder)
    BY <2>1
  <2>3. "set" \in AllOps /\ "set" \in QuietOps
    BY DEF AllOps, QuietOps
  <2>4. ASSUME NEW k \in 1 .. Len(ladder)
        PROVE  Of("set", ladder[Len(ladder) + 1 - k]) \in Texts /\ Of("set", ladder[Len(ladder) + 1 - k]).op = "set"
    <3>1. ladder[Len(ladder) + 1 - k] \in Blocks \cup {NoBlock}
      BY <2>1, <2>2
    <3> QED
      BY <2>3, <3>1, TokensAreTexts
  <2> HIDE DEF ladder
  <2>5. sets \in Seq(Texts) /\ Len(sets) = Len(ladder) /\ \A k \in 1 .. Len(sets) : sets[k].op = "set"
    BY <2>2, <2>4
  <2>6. IsQuiet(sets)
    BY <2>3, <2>5 DEF IsQuiet
  <2> QED
    BY <2>6, TextsJoin
<1>7. x # y /\ is_break(y) => phis \o sets \o <<Plain("break")>> \in TextFrom(s, s)
  <2> SUFFICES ASSUME x # y, is_break(y) PROVE phis \o sets \o <<Plain("break")>> \in TextFrom(s, s)
    OBVIOUS
  <2>1. Holds(s, Breakable)
    BY BreakFits DEF Given
  <2>2. <<Plain("break")>> \in TextFrom(s, s)
    BY <2>1, JumpTexts
  <2> HIDE DEF sets, phis
  <2>3. phis \o sets \in TextFrom(s, s)
    BY <1>4, <1>6, TextsJoin
  <2> QED
    BY <2>2, <2>3, TextsJoin
<1>8. left \in TasksFrom(s, s)
  <2>1. is_continue(y) => Holds(s, Loops)
    BY <1>3, ContinueFits DEF Given, Fits
  <2>2. is_continue(y) \/ x = y => <<Task("continue", x, y)>> \in TasksFrom(s, s)
    BY <1>1, <1>3, <2>1, ContinueCallFits
  <2>3. <<Chain(y)>> \in TasksFrom(s, s)
    BY <1>3, ChainFits
  <2> QED
    BY <1>4, <2>2, <2>3
<1> QED
  BY <1>4, <1>5, <1>7, <1>8

\* What follows a loop.
LEMMA AfterLoopFits ==
  ASSUME Given, NEW x \in Numbered, IsLoopHeader(x), NEW s \in Stacks, Fits(merge_block(x), s)
  PROVE  AfterLoop(x) \in TasksFrom(s, s)
<1> DEFINE m == merge_block(x)
<1>1. x \in Blocks /\ func[x].merge # "none" /\ m = func[x].merge_block
  BY FlowsNest DEF Given, Rules, IsLoopHeader, merge_block
<1>2. \E r \in Stacks : Fits(x, r)
  <2> DEFINE r == Append(<<>>, "loop")
  <2>1. "loop" \in Openers /\ "loop" \in Loops /\ "loop" \in Breakable
    BY DEF Openers, Breakable, Loops
  <2>e. <<>> \in Stacks
    BY DEF Stacks
  <2>2. r \in Stacks /\ Holds(r, Loops) /\ Holds(r, Breakable)
    BY <2>1, <2>e, Nested
  <2> HIDE DEF r
  <2> QED
    BY <2>2 DEF Fits
<1>3. m \in Numbered /\ m \in Ids /\ m \in Blocks
  <2>1. m \in Numbered
    BY <1>1, <1>2, MergeFits DEF Given
  <2> QED
    BY <2>1, FlowsNest DEF Given, Rules
<1>4. is_continue(m) => Holds(s, Loops)
  BY <1>3, ContinueFits DEF Given, Fits
<1>5. is_continue(m) => <<Task("continue", x, m)>> \in TasksFrom(s, s)
  BY <1>1, <1>3, <1>4, ContinueCallFits
<1>6. <<Chain(m)>> \in TasksFrom(s, s)
  BY <1>3, ChainFits
<1> QED
  BY <1>5, <1>6 DEF AfterLoop

-------------------------------------------------------------------------------
(* The inductive invariant of the emission.                                *)

\* What the finished CFG is built on.
CFGFacts ==
  /\ IInv /\ DomInv /\ UnnumberedInv /\ StructureInv /\ PrecedingInv
  /\ LoopsAreClosed(func) /\ BackEdgesStayInLoops(func) /\ TargetsAreUnique(func)
  /\ ConstructsHaveOneEntry(func) /\ SwitchesHaveMerges(func)

\* A ladder variable is one of a switch in a loop.
LadderInv == \A x \in need_ladder_break : loop_dominator[x] # NoBlock

IsSequence(s) == \E S : s \in Seq(S)

\* What is written and left to do opens and closes scopes in order.
Emitted ==
  /\ out \in Seq(Texts) /\ todo \in Seq(Tasks) /\ switch_stack \in Seq(Blocks \cup {NoBlock})
  /\ Scans(Whole, <<>>, <<>>)

JumpsInv ==
  /\ MarkInv /\ IsSequence(switch_stack) /\ LadderInv
  /\ stage = "cfg" => out = <<>> /\ switch_stack = <<>> /\ need_ladder_break = {}
  /\ stage # "cfg" => phase = "done" /\ LoopInv /\ ExitInv
  /\ stage = "emit" /\ ~force => Emitted
  /\ stage = "run" => out \in Seq(Texts) /\ Scans(Written(out), <<>>, <<>>)

\* What is given stays.
LEMMA GivenKept ==
  ASSUME given' = given
  PROVE  /\ vars' = vars /\ func' = func /\ order' = order /\ phase' = phase /\ content' = content
         /\ loop_dominator' = loop_dominator
         /\ (MarkInv => MarkInv') /\ (LoopInv => LoopInv') /\ (ExitInv => ExitInv')
<1>1. /\ vars' = vars /\ func' = func /\ order' = order /\ phase' = phase /\ meta' = meta /\ header_of' = header_of
      /\ content' = content /\ loop_dominator' = loop_dominator
  BY DEF given, vars, traversal
<1>2. Ids' = Ids /\ Numbered' = Numbered /\ \A x : LoopsAround(x)' = LoopsAround(x)
  BY <1>1 DEF Ids, Numbered, LoopsAround, Headers, Construct, ConstructOf, StructuralFlowOf
<1>3. MarkInv => MarkInv'
  <2>1. func' = func /\ meta' = meta /\ header_of' = header_of /\ Ids' = Ids
    BY <1>1, <1>2
  <2>2. MarkInv' = MarkInv
    BY <2>1 DEF MarkInv
  <2> QED
    BY <2>2
<1>4. LoopInv => LoopInv'
  BY <1>1, <1>2 DEF LoopInv
<1>5. ExitInv => ExitInv'
  BY <1>1, <1>2 DEF ExitInv
<1> QED
  BY <1>1, <1>3, <1>4, <1>5

\* A call which is replaced keeps the invariant.
LEMMA CallKeeps ==
  ASSUME NEW tokens, NEW tasks, CFGFacts, JumpsInv, stage = "emit", todo # <<>>, given' = given,
         Proceed(tokens, tasks), ~force' => ~force,
         IsSequence(switch_stack'), LadderInv',
         Emitted => switch_stack' \in Seq(Blocks \cup {NoBlock}),
         Given /\ Emitted /\ ~force' => CallIsReplaced(tokens, tasks)
  PROVE  JumpsInv'
<1>1. MarkInv' /\ phase' = "done" /\ LoopInv' /\ ExitInv'
  BY GivenKept DEF JumpsInv
<1>2. stage' \in {"emit", "thrown"}
  BY DEF Proceed
<1>3. ASSUME ~force' PROVE Emitted'
  <2>1. Given
    BY DEF Given, Rules, Built, CFGFacts, JumpsInv
  <2>2. Emitted
    BY <1>3 DEF JumpsInv
  <2>3. out' \in Seq(Texts) /\ todo' \in Seq(Tasks) /\ Scans(Whole', <<>>, <<>>)
    BY <1>3, <2>1, <2>2, ScanKept DEF Emitted
  <2>4. Moves' = Moves
    BY MovesKept
  <2>5. Scans(Whole, <<>>, <<>>)'
    BY <2>3, <2>4 DEF Scans, IsScan
  <2>6. Texts' = Texts /\ Tasks' = Tasks
    OBVIOUS
  <2> QED
    BY <2>2, <2>3, <2>5 DEF Emitted
<1> QED
  BY <1>1, <1>2, <1>3 DEF JumpsInv

-------------------------------------------------------------------------------
(* The calls, one by one.                                                  *)

LEMMA ChainKeeps ==
  ASSUME CFGFacts, JumpsInv, emit_block_chain
  PROVE  JumpsInv'
<1> DEFINE x == Now.x
<1>1. /\ stage = "emit" /\ todo # <<>> /\ Now.do = "chain" /\ given' = given /\ need_ladder_break' = need_ladder_break
      /\ Proceed(ChainTokens(x), ChainTasks(x))
      /\ force' = (force \/ FormOf(x).kind = "failed")
      /\ switch_stack' = IF func[x].terminator = "multiselect" THEN Append(switch_stack, x) ELSE switch_stack
  BY DEF emit_block_chain, Calling, Now, ChainTokens, ChainTasks, ChainFirst, ChainLast
<1> HIDE DEF x
<1>2. IsSequence(switch_stack')
  <2>1. PICK S : switch_stack \in Seq(S)
    BY DEF JumpsInv, IsSequence
  <2>2. switch_stack' \in Seq(S \cup {x})
    BY <1>1, <2>1
  <2> QED
    BY <2>2 DEF IsSequence
<1>3. LadderInv'
  BY <1>1, GivenKept DEF LadderInv, JumpsInv
<1>4. Emitted => switch_stack' \in Seq(Blocks \cup {NoBlock})
  BY <1>1, Arguments DEF Emitted, x
<1>5. ASSUME Given, Emitted, ~force' PROVE CallIsReplaced(ChainTokens(x), ChainTasks(x))
  <2>1. FormOf(x).kind # "failed"
    BY <1>1, <1>5
  <2> SUFFICES ASSUME NEW s \in Stacks, NEW r \in Stacks, TaskStep(todo[1], s, r)
               PROVE  \E q \in Stacks : ChainTokens(x) \in TextFrom(s, q) /\ ChainTasks(x) \in TasksFrom(q, r)
    BY DEF CallIsReplaced
  <2>2. x \in Numbered /\ Fits(x, s) /\ r = s
    BY <1>1 DEF TaskStep, CallStep, Now, x
  <2> QED
    BY <1>5, <2>1, <2>2, ChainReplaced
<1> QED
  BY <1>1, <1>2, <1>3, <1>4, <1>5, CallKeeps

LEMMA BranchKeeps ==
  ASSUME CFGFacts, JumpsInv, branch
  PROVE  JumpsInv'
<1> DEFINE x == Now.x
           y == Now.y
           phis == flush_phi(x, y)
           ladder == IF is_loop_break(y) THEN Ladder(y) ELSE <<>>
           sets == [k \in DOMAIN ladder |-> Of("set", ladder[Len(ladder) + 1 - k])]
           merges == meta[y] \cap {"loop merge", "switch merge", "selection merge"} # {}
           left == IF is_continue(y) \/ x = y
                   THEN IF is_continue(y) /\ merges THEN <<>> ELSE <<Task("continue", x, y)>>
                   ELSE IF is_conditional(y) THEN <<>> ELSE <<Chain(y)>>
           goes == phis \o <<Plain("continue")>>
           breaks == phis \o sets \o <<Plain("break")>>
<1>1. /\ stage = "emit" /\ todo # <<>> /\ Now.do = "branch" /\ given' = given /\ switch_stack' = switch_stack
      /\ \/ /\ loop_dominator[x] = y /\ Proceed(goes, <<>>)
            /\ need_ladder_break' = need_ladder_break /\ force' = force
         \/ /\ x # y /\ is_break(y) /\ Proceed(breaks, <<>>)
            /\ need_ladder_break' = need_ladder_break \cup Elements(ladder)
            /\ force' = (force \/ ~(Elements(ladder) \subseteq need_ladder_break))
         \/ /\ Proceed(phis, left) /\ need_ladder_break' = need_ladder_break /\ force' = force
  <2>1. stage = "emit" /\ todo # <<>> /\ Now.do = "branch"
    BY DEF branch, Calling, Now
  <2>2. UNCHANGED <<given, complex_continue, disable_block_optimization, ignore_phi_from_block,
                    switch_stack, fallthrough, passes, execution>>
    BY DEF branch
  <2>3. given' = given /\ switch_stack' = switch_stack
    BY <2>2
  <2>4. IF "header" \in meta[y] /\ loop_dominator[x] = y
        THEN Proceed(goes, <<>>) /\ UNCHANGED <<need_ladder_break, force>>
        ELSE IF x # y /\ is_break(y)
        THEN /\ Proceed(breaks, <<>>)
             /\ need_ladder_break' = need_ladder_break \cup Elements(ladder)
             /\ force' = (force \/ ~(Elements(ladder) \subseteq need_ladder_break))
        ELSE Proceed(phis, left) /\ UNCHANGED <<need_ladder_break, force>>
    BY DEF branch
  <2> HIDE DEF x, y, phis, left, goes, breaks, ladder
  <2> QED
    BY <2>1, <2>3, <2>4
<1>2. /\ IsSequence(switch_stack') /\ (Emitted => switch_stack' \in Seq(Blocks \cup {NoBlock}))
      /\ loop_dominator' = loop_dominator
  BY <1>1, GivenKept DEF JumpsInv, Emitted
<1>3. \A z \in Elements(ladder) : loop_dominator[z] # NoBlock
  <2>1. PICK S : switch_stack \in Seq(S)
    BY DEF JumpsInv, IsSequence
  <2>2. \A z \in Elements(Ladder(y)) : loop_dominator[z] # NoBlock
    BY <2>1, LadderIsOfStack
  <2>3. Elements(<<>>) = {}
    BY DEF Elements
  <2> QED
    BY <2>2, <2>3
<1>4. Given /\ Emitted =>
        /\ CallIsReplaced(phis, left)
        /\ loop_dominator[x] = y => CallIsReplaced(goes, <<>>)
        /\ x # y /\ is_break(y) => CallIsReplaced(breaks, <<>>)
  <2> SUFFICES ASSUME Given, Emitted
               PROVE  /\ CallIsReplaced(phis, left)
                      /\ loop_dominator[x] = y => CallIsReplaced(goes, <<>>)
                      /\ x # y /\ is_break(y) => CallIsReplaced(breaks, <<>>)
    OBVIOUS
  <2>1. ASSUME NEW s \in Stacks, CallStep(Now, s, s)
        PROVE  /\ phis \in TextFrom(s, s) /\ <<>> \in TasksFrom(s, s) /\ left \in TasksFrom(s, s)
               /\ loop_dominator[x] = y => goes \in TextFrom(s, s)
               /\ x # y /\ is_break(y) => breaks \in TextFrom(s, s)
    <3>1. x \in Numbered /\ <<x, y>> \in RealFlow /\ FitsEnd(x, s)
      BY <1>1, <2>1 DEF CallStep
    <3>2. switch_stack \in Seq(Blocks \cup {NoBlock})
      BY DEF Emitted
    <3> HIDE DEF x, y
    <3> QED
      BY <3>1, <3>2, BranchReplaced
  <2>2. Now.do \in CallKinds \ {"end loop", "end do"}
    BY <1>1 DEF CallKinds
  <2> HIDE DEF x, y, phis, left, goes, breaks
  <2> QED
    BY <2>1, <2>2, CallStays
<1> HIDE DEF x, y, phis, left, goes, breaks, ladder
<1>5. CASE /\ loop_dominator[x] = y /\ Proceed(goes, <<>>)
           /\ need_ladder_break' = need_ladder_break /\ force' = force
  <2>1. LadderInv'
    BY <1>2, <1>5 DEF JumpsInv, LadderInv
  <2> QED
    BY <1>1, <1>2, <1>4, <1>5, <2>1, CallKeeps
<1>6. CASE /\ x # y /\ is_break(y) /\ Proceed(breaks, <<>>)
           /\ need_ladder_break' = need_ladder_break \cup Elements(ladder)
           /\ force' = (force \/ ~(Elements(ladder) \subseteq need_ladder_break))
  <2>1. LadderInv'
    BY <1>2, <1>3, <1>6 DEF JumpsInv, LadderInv
  <2> QED
    BY <1>1, <1>2, <1>4, <1>6, <2>1, CallKeeps
<1>7. CASE Proceed(phis, left) /\ need_ladder_break' = need_ladder_break /\ force' = force
  <2>1. LadderInv'
    BY <1>2, <1>7 DEF JumpsInv, LadderInv
  <2> QED
    BY <1>1, <1>2, <1>4, <1>7, <2>1, CallKeeps
<1> QED
  BY <1>1, <1>5, <1>6, <1>7

\* A call which changes neither the stack of switches nor the ladders.
LEMMA OtherCallKeeps ==
  ASSUME NEW tokens, NEW tasks, CFGFacts, JumpsInv, stage = "emit", todo # <<>>, given' = given,
         Proceed(tokens, tasks), ~force' => ~force, switch_stack' = switch_stack,
         need_ladder_break' = need_ladder_break,
         Given /\ Emitted /\ ~force' => CallIsReplaced(tokens, tasks)
  PROVE  JumpsInv'
<1>1. IsSequence(switch_stack') /\ (Emitted => switch_stack' \in Seq(Blocks \cup {NoBlock}))
  BY DEF JumpsInv, Emitted
<1>2. LadderInv'
  BY GivenKept DEF JumpsInv, LadderInv
<1> QED
  BY <1>1, <1>2, CallKeeps

LEMMA ContinueKeeps ==
  ASSUME CFGFacts, JumpsInv, branch_to_continue
  PROVE  JumpsInv'
<1> DEFINE x == Now.x
           y == Now.y
<1>1. PICK tokens, tasks :
        /\ Proceed(tokens, tasks) /\ tokens \in {<<>>, <<Plain("continue")>>} /\ tasks \in {<<>>, <<Chain(y)>>}
        /\ x = y => tokens = <<>> /\ tasks = <<>>
  BY DEF branch_to_continue
<1>2. /\ stage = "emit" /\ todo # <<>> /\ Now.do = "continue" /\ given' = given /\ switch_stack' = switch_stack
      /\ need_ladder_break' = need_ladder_break /\ force' = force
  <2>1. stage = "emit" /\ todo # <<>> /\ Now.do = "continue"
    BY DEF branch_to_continue, Calling, Now
  <2>2. UNCHANGED <<given, speculation, switch_stack, fallthrough, force, passes, execution>>
    BY DEF branch_to_continue
  <2>3. given' = given /\ speculation' = speculation /\ switch_stack' = switch_stack /\ force' = force
    BY <2>2
  <2>4. need_ladder_break' = need_ladder_break
    BY <2>3 DEF speculation
  <2> QED
    BY <2>1, <2>3, <2>4
<1>3. ASSUME Given, Emitted, ~force' PROVE CallIsReplaced(tokens, tasks)
  <2>1. ASSUME NEW s \in Stacks, CallStep(Now, s, s) PROVE tokens \in TextFrom(s, s) /\ tasks \in TasksFrom(s, s)
    <3>1. x = y \/ (y \in Numbered /\ Fits(y, s) /\ Holds(s, Loops))
      BY <1>2, <2>1 DEF CallStep
    <3>2. <<>> \in TextFrom(s, s) /\ <<>> \in TasksFrom(s, s)
      BY TextsJoin, TasksJoin
    <3> HIDE DEF x, y
    <3>3. CASE x = y
      BY <1>1, <3>2, <3>3
    <3>4. CASE y \in Numbered /\ Fits(y, s) /\ Holds(s, Loops)
      <4>1. <<Chain(y)>> \in TasksFrom(s, s) /\ <<Plain("continue")>> \in TextFrom(s, s)
        BY <3>4, ChainFits, JumpTexts
      <4> QED
        BY <1>1, <3>2, <4>1
    <3> QED
      BY <3>1, <3>3, <3>4
  <2>2. Now.do \in CallKinds \ {"end loop", "end do"}
    BY <1>2 DEF CallKinds
  <2> QED
    BY <2>1, <2>2, CallStays
<1> QED
  BY <1>1, <1>2, <1>3, OtherCallKeeps

LEMMA NextBlockKeeps ==
  ASSUME CFGFacts, JumpsInv, emit_next_block
  PROVE  JumpsInv'
<1> DEFINE x == Now.x
           y == Now.y
           tokens == (IF func[x].merge # "selection" THEN flush_phi(x, y) ELSE <<>>)
                       \o (IF ~fallthrough /\ is_loop_break(y) THEN <<Plain("break")>> ELSE <<>>)
           tasks == IF fallthrough \/ is_loop_break(y) THEN <<>>
                    ELSE IF is_continue(y) THEN <<Task("continue", x, y)>>
                    ELSE IF x = y THEN <<>> ELSE <<Chain(y)>>
<1>1. /\ stage = "emit" /\ todo # <<>> /\ Now.do = "next" /\ given' = given /\ switch_stack' = switch_stack
      /\ need_ladder_break' = need_ladder_break /\ force' = force /\ Proceed(tokens, tasks)
  <2>1. stage = "emit" /\ todo # <<>> /\ Now.do = "next"
    BY DEF emit_next_block, Calling, Now
  <2>2. UNCHANGED <<given, speculation, switch_stack, fallthrough, force, passes, execution>>
    BY DEF emit_next_block
  <2>3. given' = given /\ speculation' = speculation /\ switch_stack' = switch_stack /\ force' = force
    BY <2>2
  <2>4. need_ladder_break' = need_ladder_break
    BY <2>3 DEF speculation
  <2>5. Proceed(tokens, tasks)
    BY DEF emit_next_block
  <2> QED
    BY <2>1, <2>3, <2>4, <2>5
<1>2. ASSUME Given, Emitted, ~force' PROVE CallIsReplaced(tokens, tasks)
  <2>1. ASSUME NEW s \in Stacks, CallStep(Now, s, s) PROVE tokens \in TextFrom(s, s) /\ tasks \in TasksFrom(s, s)
    <3>1. y \in Numbered /\ Fits(y, s) /\ ~is_loop_break(y)
      BY <1>1, <2>1 DEF CallStep
    <3>2. <<>> \in TextFrom(s, s) /\ <<>> \in TasksFrom(s, s)
      BY TextsJoin, TasksJoin
    <3>3. x \in Blocks \cup {NoBlock} /\ y \in Blocks \cup {NoBlock}
      BY <1>1, <1>2, Arguments DEF Emitted
    <3>4. y \in Ids
      BY <1>2, <3>1, FlowsNest DEF Given, Rules
    <3> DEFINE phis == IF func[x].merge # "selection" THEN flush_phi(x, y) ELSE <<>>
    <3> HIDE DEF x, y
    <3>5. phis \in TextFrom(s, s)
      BY <3>2, <3>3, Statements, TextsJoin
    <3>6. tokens \in TextFrom(s, s)
      <4>1. tokens = phis \o <<>>
        BY <3>1
      <4> HIDE DEF phis, tokens
      <4> QED
        BY <3>2, <3>5, <4>1, TextsJoin
    <3>7. is_continue(y) => <<Task("continue", x, y)>> \in TasksFrom(s, s)
      <4>1. is_continue(y) => Holds(s, Loops)
        BY <1>2, <3>1, <3>4, ContinueFits DEF Given, Fits
      <4> QED
        BY <3>1, <3>3, <4>1, ContinueCallFits
    <3>8. <<Chain(y)>> \in TasksFrom(s, s)
      BY <3>1, ChainFits
    <3> QED
      BY <3>2, <3>6, <3>7, <3>8
  <2>2. Now.do \in CallKinds \ {"end loop", "end do"}
    BY <1>1 DEF CallKinds
  <2> HIDE DEF tokens, tasks
  <2> QED
    BY <2>1, <2>2, CallStays
<1> HIDE DEF tokens, tasks
<1> QED
  BY <1>1, <1>2, OtherCallKeeps

\* The token which closes a loop.
LEMMA CloserTexts ==
  ASSUME NEW s \in Stacks, s # <<>>, NEW op \in Closers, NEW x \in Blocks \cup {NoBlock}
  PROVE  Outer(s) \in Stacks /\ <<Of(op, x)>> \in TextFrom(s, Outer(s)) /\ <<Plain(op)>> \in TextFrom(s, Outer(s))
<1>1. op \in AllOps
  BY DEF AllOps
<1>2. Of(op, x) \in Texts /\ Of(op, x).op = op /\ Plain(op) \in Texts /\ Plain(op).op = op
  BY <1>1, TokensAreTexts
<1>3. Outer(s) \in Stacks
  BY DEF Outer, Stacks
<1>4. TokenStep(Of(op, x), s, Outer(s)) /\ TokenStep(Plain(op), s, Outer(s))
  BY <1>2 DEF TokenStep
<1> QED
  BY <1>2, <1>3, <1>4, TextsJoin

\* The end of a loop is written and what follows it is left to do.
LEMMA LoopEndReplaced ==
  ASSUME Given, Now.do \in {"end loop", "end do"}, NEW tokens, NEW tasks,
         Now.x \in Numbered => tasks = AfterLoop(Now.x),
         \A s \in Stacks : s # <<>> /\ Now.x \in Numbered /\ IsLoopHeader(Now.x) /\ Now.y = func[Now.x].continue_block
           => tokens \in TextFrom(s, Outer(s))
  PROVE  CallIsReplaced(tokens, tasks)
<1> SUFFICES ASSUME NEW s \in Stacks, NEW r \in Stacks, TaskStep(todo[1], s, r)
             PROVE  \E q \in Stacks : tokens \in TextFrom(s, q) /\ tasks \in TasksFrom(q, r)
  BY DEF CallIsReplaced
<1>1. CallStep(Now, s, r)
  BY DEF TaskStep, Now
<1>2. /\ Now.x \in Numbered /\ IsLoopHeader(Now.x) /\ Now.y = func[Now.x].continue_block
      /\ s # <<>> /\ r = Outer(s) /\ Fits(merge_block(Now.x), r)
  BY <1>1 DEF CallStep
<1>3. tokens \in TextFrom(s, r)
  BY <1>2
<1>4. tasks \in TasksFrom(r, r)
  BY <1>2, AfterLoopFits
<1> QED
  BY <1>3, <1>4

LEMMA EndLoopKeeps ==
  ASSUME CFGFacts, JumpsInv, EndLoop
  PROVE  JumpsInv'
<1> DEFINE tokens == <<Plain("end")>>
           tasks == AfterLoop(Now.x)
<1>1. /\ stage = "emit" /\ todo # <<>> /\ Now.do = "end loop" /\ given' = given /\ switch_stack' = switch_stack
      /\ need_ladder_break' = need_ladder_break /\ force' = force /\ Proceed(tokens, tasks)
  <2>1. stage = "emit" /\ todo # <<>> /\ Now.do = "end loop"
    BY DEF EndLoop, Calling, Now
  <2>2. UNCHANGED <<given, speculation, switch_stack, fallthrough, force, passes, execution>>
    BY DEF EndLoop
  <2>3. given' = given /\ speculation' = speculation /\ switch_stack' = switch_stack /\ force' = force
    BY <2>2
  <2>4. need_ladder_break' = need_ladder_break
    BY <2>3 DEF speculation
  <2>5. Proceed(tokens, tasks)
    BY DEF EndLoop
  <2> QED
    BY <2>1, <2>3, <2>4, <2>5
<1>2. ASSUME Given, Emitted, ~force' PROVE CallIsReplaced(tokens, tasks)
  <2>1. "end" \in Closers
    BY DEF Closers
  <2>2. \A s \in Stacks : s # <<>> => tokens \in TextFrom(s, Outer(s))
    BY <2>1, CloserTexts
  <2> HIDE DEF tokens
  <2> QED
    BY <1>1, <1>2, <2>2, LoopEndReplaced
<1> HIDE DEF tokens, tasks
<1> QED
  BY <1>1, <1>2, OtherCallKeeps

LEMMA EndDoKeeps ==
  ASSUME CFGFacts, JumpsInv, EndDo
  PROVE  JumpsInv'
<1> DEFINE x == Now.x
           c == Now.y
           positive == execution_is_noop(true_block(c), loop_dominator[c])
           stamped == emit_continue_block(c, positive, ~positive)
           head == IF Plain("throw") \in Elements(stamped) THEN stamped ELSE <<>>
           op == IF positive THEN "again if" ELSE "again unless"
           tokens == head \o <<Of(op, c)>>
           tasks == AfterLoop(Now.x)
<1>1. /\ stage = "emit" /\ todo # <<>> /\ Now.do = "end do" /\ given' = given /\ switch_stack' = switch_stack
      /\ need_ladder_break' = need_ladder_break /\ (force => force') /\ Proceed(tokens, tasks)
  <2>1. stage = "emit" /\ todo # <<>> /\ Now.do = "end do"
    BY DEF EndDo, Calling, Now
  <2>2. UNCHANGED <<given, disable_block_optimization, need_ladder_break, ignore_phi_from_block,
                    switch_stack, fallthrough, passes, execution>>
    BY DEF EndDo
  <2>3. given' = given /\ switch_stack' = switch_stack /\ need_ladder_break' = need_ladder_break
    BY <2>2
  <2>4. Proceed(tokens, tasks) /\ force' = (force \/ stamped # <<>>)
    BY DEF EndDo
  <2> HIDE DEF tokens, tasks, stamped
  <2> QED
    BY <2>1, <2>3, <2>4
<1>2. ASSUME Given, Emitted, ~force' PROVE CallIsReplaced(tokens, tasks)
  <2>1. op \in Closers
    BY DEF Closers
  <2>2. func \in Functions /\ Numbered \subseteq Ids /\ Ids \subseteq Blocks
    BY <1>2, FlowsNest DEF Given, Rules, Built, IInv, TypeInv
  <2>3. ASSUME NEW s \in Stacks, s # <<>>, x \in Numbered, IsLoopHeader(x), c = func[x].continue_block
        PROVE  tokens \in TextFrom(s, Outer(s))
    <3>1. c \in Ids
      BY <2>2, <2>3, Fields DEF IsLoopHeader
    <3> HIDE DEF c, x
    <3>2. IsQuiet(stamped)
      BY <2>2, <3>1, ContinueIsQuiet
    <3> HIDE DEF stamped
    <3>3. head \in TextFrom(s, s)
      BY <3>2, TextsJoin
    <3>4. Outer(s) \in Stacks /\ <<Of(op, c)>> \in TextFrom(s, Outer(s))
      BY <2>1, <2>2, <2>3, <3>1, CloserTexts
    <3> HIDE DEF head, op
    <3> QED
      BY <3>3, <3>4, TextsJoin
  <2> HIDE DEF tokens
  <2> QED
    BY <1>1, <1>2, <2>3, LoopEndReplaced
<1> HIDE DEF tokens, tasks
<1> QED
  BY <1>1, <1>2, OtherCallKeeps

LEMMA LeaveSwitchKeeps ==
  ASSUME CFGFacts, JumpsInv, LeaveSwitch
  PROVE  JumpsInv'
<1> DEFINE x == Now.x
           tokens == IF x \in need_ladder_break THEN <<Of("test", x)>> ELSE <<>>
           tasks == <<>>
<1>1. /\ stage = "emit" /\ todo # <<>> /\ Now.do = "leave switch" /\ given' = given
      /\ switch_stack' = SubSeq(switch_stack, 1, Len(switch_stack) - 1)
      /\ need_ladder_break' = need_ladder_break /\ force' = force /\ Proceed(tokens, tasks)
  <2>1. stage = "emit" /\ todo # <<>> /\ Now.do = "leave switch"
    BY DEF LeaveSwitch, Calling, Now
  <2>2. UNCHANGED <<given, speculation, fallthrough, force, passes, execution>>
    BY DEF LeaveSwitch
  <2>3. given' = given /\ speculation' = speculation /\ force' = force
    BY <2>2
  <2>4. need_ladder_break' = need_ladder_break
    BY <2>3 DEF speculation
  <2>5. Proceed(tokens, tasks) /\ switch_stack' = SubSeq(switch_stack, 1, Len(switch_stack) - 1)
    BY DEF LeaveSwitch
  <2> QED
    BY <2>1, <2>3, <2>4, <2>5
<1>2. \A S : switch_stack \in Seq(S) => switch_stack' \in Seq(S)
  <2> SUFFICES ASSUME NEW S, switch_stack \in Seq(S) PROVE SubSeq(switch_stack, 1, Len(switch_stack) - 1) \in Seq(S)
    BY <1>1
  <2> QED
    OBVIOUS
<1>3. IsSequence(switch_stack') /\ (Emitted => switch_stack' \in Seq(Blocks \cup {NoBlock}))
  <2>1. PICK S : switch_stack \in Seq(S)
    BY DEF JumpsInv, IsSequence
  <2>2. switch_stack' \in Seq(S)
    BY <1>2, <2>1
  <2> QED
    BY <1>2, <2>2 DEF IsSequence, Emitted
<1>4. LadderInv'
  BY <1>1, GivenKept DEF JumpsInv, LadderInv
<1>5. ASSUME Given, Emitted, ~force' PROVE CallIsReplaced(tokens, tasks)
  <2>1. ASSUME NEW s \in Stacks, CallStep(Now, s, s) PROVE tokens \in TextFrom(s, s) /\ tasks \in TasksFrom(s, s)
    <3>1. loop_dominator[x] # NoBlock => Holds(s, Breakable)
      BY <1>1, <2>1 DEF CallStep
    <3>2. <<>> \in TextFrom(s, s) /\ <<>> \in TasksFrom(s, s)
      BY TextsJoin, TasksJoin
    <3>3. x \in Blocks \cup {NoBlock}
      BY <1>1, <1>5, Arguments DEF Emitted
    <3> HIDE DEF x
    <3>4. CASE x \in need_ladder_break
      <4>1. Holds(s, Breakable)
        BY <3>1, <3>4 DEF JumpsInv, LadderInv
      <4>2. <<Of("test", x)>> \in TextFrom(s, s)
        BY <3>3, <4>1, JumpTexts
      <4> QED
        BY <3>2, <3>4, <4>2
    <3>5. CASE x \notin need_ladder_break
      BY <3>2, <3>5
    <3> QED
      BY <3>4, <3>5
  <2>2. Now.do \in CallKinds \ {"end loop", "end do"}
    BY <1>1 DEF CallKinds
  <2> HIDE DEF tokens, tasks
  <2> QED
    BY <2>1, <2>2, CallStays
<1> HIDE DEF tokens, tasks
<1> QED
  BY <1>1, <1>3, <1>4, <1>5, CallKeeps

\* A call which writes nothing but assignments.
LEMMA QuietCallKeeps ==
  ASSUME NEW tokens, CFGFacts, JumpsInv, stage = "emit", todo # <<>>, given' = given,
         Now.do \in CallKinds \ {"end loop", "end do"}, Proceed(tokens, <<>>), force' = force,
         switch_stack' = switch_stack, need_ladder_break' = need_ladder_break, Emitted => IsQuiet(tokens)
  PROVE  JumpsInv'
<1>1. ASSUME Given, Emitted, ~force' PROVE CallIsReplaced(tokens, <<>>)
  <2>1. \A s \in Stacks : tokens \in TextFrom(s, s) /\ <<>> \in TasksFrom(s, s)
    BY <1>1, TextsJoin, TasksJoin
  <2> QED
    BY <2>1, CallStays
<1> QED
  BY <1>1, OtherCallKeeps

LEMMA FlushEdgeKeeps ==
  ASSUME CFGFacts, JumpsInv, FlushEdge
  PROVE  JumpsInv'
<1>1. stage = "emit" /\ todo # <<>> /\ Now.do = "flush" /\ Proceed(flush_phi(Now.x, Now.y), <<>>)
  BY DEF FlushEdge, Calling, Now
<1>2. UNCHANGED <<given, speculation, switch_stack, fallthrough, force, passes, execution>>
  BY DEF FlushEdge
<1>3. given' = given /\ speculation' = speculation /\ switch_stack' = switch_stack /\ force' = force
  BY <1>2
<1>4. need_ladder_break' = need_ladder_break
  BY <1>3 DEF speculation
<1>5. Emitted => IsQuiet(flush_phi(Now.x, Now.y))
  BY <1>1, Arguments, Statements DEF Emitted
<1>6. Now.do \in CallKinds \ {"end loop", "end do"}
  BY <1>1 DEF CallKinds
<1> QED
  BY <1>1, <1>3, <1>4, <1>5, <1>6, QuietCallKeeps

LEMMA SetFallthroughKeeps ==
  ASSUME CFGFacts, JumpsInv, SetFallthrough
  PROVE  JumpsInv'
<1>1. stage = "emit" /\ todo # <<>> /\ Now.do \in {"fall through", "break out"} /\ Proceed(<<>>, <<>>)
  BY DEF SetFallthrough, Calling, Now
<1>2. UNCHANGED <<given, speculation, switch_stack, force, passes, execution>>
  BY DEF SetFallthrough
<1>3. given' = given /\ speculation' = speculation /\ switch_stack' = switch_stack /\ force' = force
  BY <1>2
<1>4. need_ladder_break' = need_ladder_break
  BY <1>3 DEF speculation
<1>5. Now.do \in CallKinds \ {"end loop", "end do"}
  BY <1>1 DEF CallKinds
<1> QED
  BY <1>1, <1>3, <1>4, <1>5, QuietParts, QuietCallKeeps

LEMMA SetComplexKeeps ==
  ASSUME CFGFacts, JumpsInv, SetComplex
  PROVE  JumpsInv'
<1>1. stage = "emit" /\ todo # <<>> /\ Now.do \in {"complex", "simple"} /\ Proceed(<<>>, <<>>)
  BY DEF SetComplex, Calling, Now
<1>2. UNCHANGED <<given, disable_block_optimization, need_ladder_break, ignore_phi_from_block,
                  switch_stack, fallthrough, force, passes, execution>>
  BY DEF SetComplex
<1>3. given' = given /\ switch_stack' = switch_stack /\ force' = force /\ need_ladder_break' = need_ladder_break
  BY <1>2
<1>4. Now.do \in CallKinds \ {"end loop", "end do"}
  BY <1>1 DEF CallKinds
<1> QED
  BY <1>1, <1>3, <1>4, QuietParts, QuietCallKeeps

-------------------------------------------------------------------------------
(* Passes.                                                                 *)

\* The entry is in no construct but its own.
LEMMA EntryFits ==
  ASSUME Rules, NEW s
  PROVE  Entry \in Numbered /\ Fits(Entry, s)
<1>1. Entry \in Numbered /\ TypeInv
  BY TheTree DEF Rules, Built, IInv
<1>2. ASSUME NEW h \in Ids, func[h].merge # "none", h # Entry PROVE Entry \notin Construct(h)
  <2>1. Entry \in Without(h)
    BY <1>1, <1>2, WithoutIsClosed
  <2> QED
    BY <1>2, <2>1, ConstructIsDominated DEF Rules
<1>3. LoopsAround(Entry) = {}
  BY <1>2 DEF LoopsAround, Headers, Ids
<1>4. SwitchesAround(Entry) = {}
  <2>1. ASSUME NEW h \in Ids, func[h].terminator = "multiselect" PROVE func[h].merge # "none"
    BY <2>1 DEF Rules, SwitchesHaveMerges, Ids
  <2> QED
    BY <1>2, <2>1 DEF SwitchesAround
<1> QED
  BY <1>1, <1>3, <1>4 DEF Fits

\* A pass begins.
Begins == Rules /\ out = <<>> /\ todo = <<Chain(Entry)>> /\ switch_stack = <<>>

\* A pass begins with the entry, outside of all scopes.
LEMMA PassBegins == Begins => Emitted
<1> SUFFICES ASSUME Begins PROVE Emitted
  OBVIOUS
<1>1. <<>> \in Stacks
  BY DEF Stacks
<1>2. Entry \in Numbered /\ Fits(Entry, <<>>)
  BY EntryFits DEF Begins
<1>3. <<Chain(Entry)>> \in TasksFrom(<<>>, <<>>)
  BY <1>1, <1>2, ChainFits
<1>4. Whole = <<Chain(Entry)>>
  <2>1. Whole = <<>> \o <<Chain(Entry)>>
    BY WrittenNone DEF Whole, Begins
  <2>2. <<Chain(Entry)>> \in Seq(Tasks)
    BY <1>3 DEF TasksFrom
  <2> HIDE DEF Chain
  <2> QED
    BY <2>1, <2>2
<1>5. Scans(Whole, <<>>, <<>>) /\ todo \in Seq(Tasks)
  BY <1>3, <1>4 DEF TasksFrom, Begins
<1>6. out \in Seq(Texts) /\ switch_stack \in Seq(Blocks \cup {NoBlock})
  <2>1. \A S : <<>> \in Seq(S)
    OBVIOUS
  <2> QED
    BY <2>1 DEF Begins
<1> QED
  BY <1>5, <1>6 DEF Emitted

LEMMA MarksKept ==
  ASSUME func' = func, meta' = meta, header_of' = header_of
  PROVE  MarkInv => MarkInv'
<1>1. func' = func /\ meta' = meta /\ header_of' = header_of /\ Ids' = Ids
  BY DEF Ids
<1>2. MarkInv' = MarkInv
  BY <1>1 DEF MarkInv
<1> QED
  BY <1>2

LEMMA EmptySequence == IsSequence(<<>>)
<1>1. <<>> \in Seq({})
  OBVIOUS
<1> QED
  BY <1>1 DEF IsSequence

LEMMA RecompileKeeps ==
  ASSUME CFGFacts, CFGFacts', JumpsInv, Recompile
  PROVE  JumpsInv'
<1>1. /\ stage = "emit" /\ stage' \in {"emit", "thrown"}
      /\ out' = <<>> /\ todo' = <<Chain(Entry)>> /\ switch_stack' = <<>>
  BY DEF Recompile
<1>2. UNCHANGED <<given, speculation, fallthrough, execution>>
  BY DEF Recompile
<1>3. given' = given /\ speculation' = speculation
  BY <1>2
<1>4. need_ladder_break' = need_ladder_break
  BY <1>3 DEF speculation
<1>5. MarkInv' /\ LoopInv' /\ ExitInv' /\ phase' = "done" /\ loop_dominator' = loop_dominator
  BY <1>1, <1>3, GivenKept DEF JumpsInv
<1>6. Emitted'
  <2>1. Rules'
    BY <1>5 DEF Rules, Built, CFGFacts
  <2>2. Begins'
    BY <1>1, <2>1 DEF Begins, Chain, Task
  <2> QED
    BY <2>2, PassBegins, PTL
<1>7. LadderInv' /\ IsSequence(switch_stack')
  BY <1>1, <1>4, <1>5, EmptySequence DEF JumpsInv, LadderInv
<1> QED
  BY <1>1, <1>5, <1>6, <1>7 DEF JumpsInv

LEMMA BeginEmissionKeeps ==
  ASSUME CFGFacts, CFGFacts', JumpsInv, BeginEmission
  PROVE  JumpsInv'
<1>1. /\ stage = "cfg" /\ phase = "done" /\ stage' = "emit" /\ todo' = <<Chain(Entry)>> /\ content' \in Contents(func)
  BY DEF BeginEmission
<1>2. UNCHANGED <<vars, meta, header_of, out, speculation, switch_stack, fallthrough, force, passes, execution>>
  BY DEF BeginEmission
<1>3. vars' = vars /\ meta' = meta /\ header_of' = header_of /\ out' = out /\ speculation' = speculation /\ switch_stack' = switch_stack
  BY <1>2
<1>4. func' = func /\ phase' = phase /\ need_ladder_break' = need_ladder_break
  BY <1>3 DEF vars, speculation
<1>5. MarkInv /\ out = <<>> /\ switch_stack = <<>> /\ need_ladder_break = {}
  BY <1>1 DEF JumpsInv
<1>6. MarkInv'
  BY <1>3, <1>4, <1>5, MarksKept
<1>7. LoopInv'
  <2>1. Rules
    BY <1>1 DEF Rules, Built, CFGFacts
  <2> QED
    BY <1>5, <2>1, LoopsAreFound
<1>8. ExitInv'
  <2>1. func \in Functions
    BY DEF CFGFacts, IInv, TypeInv
  <2>2. \A x \in DOMAIN func : func[x].terminator = "exit" => content'.exits[x] \in {"return", "kill", "unreachable"}
    BY <1>1, <2>1, ContentsAssumption
  <2> QED
    BY <1>4, <2>2 DEF ExitInv, Ids
<1>9. Emitted'
  <2>1. Rules'
    BY <1>1, <1>4 DEF Rules, Built, CFGFacts
  <2>2. Begins'
    BY <1>1, <1>3, <1>5, <2>1 DEF Begins, Chain, Task
  <2> QED
    BY <2>2, PassBegins, PTL
<1>10. LadderInv' /\ IsSequence(switch_stack')
  BY <1>3, <1>4, <1>5, EmptySequence DEF LadderInv
<1> QED
  BY <1>1, <1>4, <1>6, <1>7, <1>8, <1>9, <1>10 DEF JumpsInv

LEMMA BuildCFGKeeps ==
  ASSUME JumpsInv, BuildCFG
  PROVE  JumpsInv'
<1>1. stage = "cfg" /\ Next
  BY DEF BuildCFG
<1>2. UNCHANGED <<meta, header_of, content, loop_dominator, stage, emission, execution>>
  BY DEF BuildCFG
<1>3. meta' = meta /\ header_of' = header_of /\ stage' = stage /\ emission' = emission
  BY <1>2
<1>4. out' = out /\ switch_stack' = switch_stack /\ need_ladder_break' = need_ladder_break
  BY <1>3 DEF emission, speculation
<1>5. func' = func
  BY <1>1, FuncKept
<1>6. MarkInv'
  BY <1>3, <1>5, MarksKept DEF JumpsInv
<1>7. out = <<>> /\ switch_stack = <<>> /\ need_ladder_break = {}
  BY <1>1 DEF JumpsInv
<1>8. LadderInv' /\ IsSequence(switch_stack')
  BY <1>4, <1>7, EmptySequence DEF LadderInv
<1> QED
  BY <1>1, <1>3, <1>4, <1>6, <1>7, <1>8 DEF JumpsInv

\* The program which runs does not change.
LEMMA RunKeeps ==
  ASSUME JumpsInv, given' = given, emission' = emission,
         \/ stage = "run" /\ stage' \in {"run", "end"}
         \/ stage' = stage
         \/ stage = "emit" /\ todo = <<>> /\ ~force /\ stage' = "run"
  PROVE  JumpsInv'
<1>1. /\ todo' = todo /\ out' = out /\ switch_stack' = switch_stack /\ force' = force
      /\ need_ladder_break' = need_ladder_break
  BY DEF emission, speculation
<1>2. /\ phase' = phase /\ loop_dominator' = loop_dominator
      /\ (MarkInv => MarkInv') /\ (LoopInv => LoopInv') /\ (ExitInv => ExitInv')
  BY GivenKept
<1>3. LadderInv' /\ IsSequence(switch_stack')
  BY <1>1, <1>2 DEF JumpsInv, LadderInv
<1>4. stage # "cfg" => stage' # "cfg"
  OBVIOUS
<1>5. stage' = "cfg" => stage = "cfg"
  OBVIOUS
<1>6. Moves' = Moves /\ Texts' = Texts /\ Tasks' = Tasks
  BY MovesKept
<1>7. \A t, s, r : Scans(t, s, r)' <=> Scans(t, s, r)
  BY MovesKept
<1>8. Emitted => Emitted'
  <2>1. Whole' = Whole
    BY <1>1 DEF Whole, Written
  <2>2. Scans(Whole, <<>>, <<>>) => Scans(Whole, <<>>, <<>>)'
    BY <1>6, <2>1 DEF Scans, IsScan
  <2> QED
    BY <1>1, <1>6, <2>2 DEF Emitted
<1>9. ASSUME stage' = "run" PROVE (out \in Seq(Texts) /\ Scans(Written(out), <<>>, <<>>))'
  <2>1. out \in Seq(Texts) /\ Scans(Written(out), <<>>, <<>>)
    <3>1. CASE stage = "run"
      BY <3>1 DEF JumpsInv
    <3>2. CASE stage = "emit" /\ todo = <<>> /\ ~force
      <4>1. Emitted
        BY <3>2 DEF JumpsInv
      <4>2. out \in Seq(Texts) /\ Written(out) \in Seq(Tasks) /\ Scans(Whole, <<>>, <<>>)
        BY <4>1, WrittenText DEF Emitted
      <4>3. Whole = Written(out)
        BY <3>2, <4>2 DEF Whole
      <4> QED
        BY <4>2, <4>3
    <3> QED
      BY <1>9, <3>1, <3>2
  <2>2. Written(out)' = Written(out)
    BY <1>1 DEF Written
  <2>3. Scans(Written(out), <<>>, <<>>)'
    BY <1>6, <2>1, <2>2 DEF Scans, IsScan
  <2> QED
    BY <1>1, <1>6, <2>1, <2>3
<1>10. stage' = "emit" /\ ~force' => Emitted'
  BY <1>1, <1>8 DEF JumpsInv
<1>11. stage' = "cfg" => out' = <<>> /\ switch_stack' = <<>> /\ need_ladder_break' = {}
  BY <1>1, <1>5 DEF JumpsInv
<1>12. stage' # "cfg" => phase' = "done" /\ LoopInv' /\ ExitInv'
  BY <1>2 DEF JumpsInv
<1> QED
  BY <1>2, <1>3, <1>9, <1>10, <1>11, <1>12 DEF JumpsInv

LEMMA ExecuteKeeps ==
  ASSUME JumpsInv, Execute
  PROVE  JumpsInv'
<1>1. stage = "run"
  BY DEF Execute, RunStatements, Decide, Select, Jump, Exit, Running
<1>2. UNCHANGED <<given, emission>>
  BY DEF Execute, RunStatements, Decide, Select, Jump, Exit
<1>3. stage' \in {"run", "end"}
  BY <1>1 DEF Execute, RunStatements, Decide, Select, Jump, Exit
<1> QED
  BY <1>1, <1>2, <1>3, RunKeeps

LEMMA FinishKeeps ==
  ASSUME JumpsInv, Finish
  PROVE  JumpsInv'
<1>1. stage = "emit" /\ todo = <<>> /\ ~force /\ stage' = "run"
  BY DEF Finish
<1>2. UNCHANGED <<given, emission, ladders, picked>>
  BY DEF Finish
<1> QED
  BY <1>1, <1>2, RunKeeps

\* Every step keeps the invariant.
LEMMA JumpsStep == CFGFacts /\ CFGFacts' /\ JumpsInv /\ [StructurizerNext]_structurizer_vars => JumpsInv'
<1> SUFFICES ASSUME CFGFacts, CFGFacts', JumpsInv, [StructurizerNext]_structurizer_vars PROVE JumpsInv'
  OBVIOUS
<1>1. CASE BuildCFG
  BY <1>1, BuildCFGKeeps
<1>2. CASE BeginEmission
  BY <1>2, BeginEmissionKeeps
<1>3. CASE Emit
  BY <1>3, ChainKeeps, BranchKeeps, ContinueKeeps, NextBlockKeeps, EndLoopKeeps, EndDoKeeps, LeaveSwitchKeeps,
     FlushEdgeKeeps, SetFallthroughKeeps, SetComplexKeeps, RecompileKeeps, FinishKeeps DEF Emit
<1>4. CASE Execute
  BY <1>4, ExecuteKeeps
<1>5. CASE UNCHANGED structurizer_vars
  <2>1. given' = given /\ emission' = emission /\ stage' = stage
    BY <1>5 DEF structurizer_vars
  <2> QED
    BY <2>1, RunKeeps
<1> QED
  BY <1>1, <1>2, <1>3, <1>4, <1>5 DEF StructurizerNext

LEMMA JumpsInit ==
  ASSUME StructurizerInit, \A f \in SourcesOf(func) : LoopsAreKept(f)
  PROVE  JumpsInv
<1>1. stage = "cfg" /\ out = <<>> /\ switch_stack = <<>> /\ need_ladder_break = {} /\ func \in Functions
  BY DEF StructurizerInit, Init
<1>2. PICK f \in SourcesOf(func) : func = Blocks_of(f) /\ meta = block_meta(f) /\ header_of = header_of_continue(f)
  BY DEF StructurizerInit
<1>3. MarkInv
  <2>1. \A h \in DOMAIN f : f[h] \in Instructions
    BY <1>1, <1>2, SourcesAssumption
  <2> QED
    BY <1>2, <2>1, MarksAreRight
<1> QED
  BY <1>1, <1>3, EmptySequence DEF JumpsInv, LadderInv

-------------------------------------------------------------------------------
(* A program which is read from its beginning to its end.                  *)

\* The tokens of a program open and close the scopes of the stacks g.
Nests(text, g) ==
  /\ g \in [0 .. Len(text) -> Stacks] /\ g[0] = <<>> /\ g[Len(text)] = <<>>
  /\ \A k \in 1 .. Len(text) : TokenStep(text[k], g[k - 1], g[k])

\* Texts which can be read nest.
LEMMA ScannedTextNests ==
  ASSUME NEW text \in Seq(Texts), Scans(Written(text), <<>>, <<>>)
  PROVE  \E g : Nests(text, g)
<1>1. PICK g : IsScan(g, Written(text), <<>>, <<>>)
  BY DEF Scans
<1>2. Len(Written(text)) = Len(text) /\ \A k \in 1 .. Len(text) : Written(text)[k] = Later(text[k])
  BY WrittenText
<1>3. ASSUME NEW k \in 1 .. Len(text) PROVE TokenStep(text[k], g[k - 1], g[k])
  <2>1. <<Later(text[k]), g[k - 1], g[k]>> \in Moves
    BY <1>1, <1>2 DEF IsScan
  <2>2. TaskStep(Later(text[k]), g[k - 1], g[k])
    BY <2>1 DEF Moves
  <2>3. Later(text[k]).do = "write" /\ Later(text[k]).token = text[k]
    BY DEF Later
  <2> QED
    BY <2>2, <2>3 DEF TaskStep, CallStep
<1> QED
  BY <1>1, <1>2, <1>3 DEF IsScan, Nests

\* What a token does to the depth.
LEMMA TokenDepth ==
  ASSUME NEW token, NEW s \in Stacks, NEW r \in Stacks, TokenStep(token, s, r)
  PROVE  /\ Len(s) \in Nat /\ Len(r) \in Nat
         /\ token.op \in Openers => token.op \notin Closers /\ r = Append(s, token.op) /\ Len(r) = Len(s) + 1
         /\ token.op \in Closers => r = Outer(s) /\ Len(r) = Len(s) - 1
         /\ token.op \notin Openers \cup Closers => r = s
         /\ token.op \in {"break", "test"} => Holds(s, Breakable)
         /\ token.op = "continue" => Holds(s, Loops)
<1>1. /\ \A op \in Closers : op \notin Openers \cup QuietOps \cup {"break", "test", "continue"}
      /\ \A op \in Openers : op \notin Closers \cup QuietOps \cup {"break", "test", "continue"}
      /\ \A op \in {"break", "test", "continue"} : op \notin QuietOps \cup Openers \cup Closers
  BY DEF Closers, Openers, Breakable, Loops, QuietOps
<1>2. Len(s) \in Nat /\ Len(r) \in Nat
  BY DEF Stacks
<1>3. ASSUME token.op \in Openers PROVE token.op \notin Closers /\ r = Append(s, token.op) /\ Len(r) = Len(s) + 1
  <2>1. token.op \notin Closers /\ r = Append(s, token.op)
    BY <1>1, <1>3 DEF TokenStep
  <2>2. Len(Append(s, token.op)) = Len(s) + 1
    BY DEF Stacks
  <2> QED
    BY <2>1, <2>2
<1>4. ASSUME token.op \in Closers PROVE r = Outer(s) /\ Len(r) = Len(s) - 1
  <2>1. s # <<>> /\ r = Outer(s)
    BY <1>1, <1>4 DEF TokenStep
  <2>2. Len(Outer(s)) = Len(s) - 1
    <3>1. s \in Seq(Openers)
      BY DEF Stacks
    <3>2. Len(s) \in Nat /\ Len(s) # 0
      BY <2>1, <3>1
    <3>3. \A n \in 0 .. Len(s) : Len(SubSeq(s, 1, n)) = n
      BY <3>1, <3>2
    <3>4. Len(s) - 1 \in 0 .. Len(s)
      BY <3>2
    <3> QED
      BY <3>3, <3>4 DEF Outer
  <2> QED
    BY <2>1, <2>2
<1>5. token.op \notin Openers \cup Closers => r = s
  BY DEF TokenStep
<1>6. token.op \in {"break", "test"} => Holds(s, Breakable)
  <2> SUFFICES ASSUME token.op \in {"break", "test"} PROVE Holds(s, Breakable)
    OBVIOUS
  <2>1. token.op \notin QuietOps /\ token.op \notin Openers /\ token.op \notin Closers /\ token.op # "continue"
    BY <1>1
  <2> QED
    BY <2>1 DEF TokenStep
<1>7. token.op = "continue" => Holds(s, Loops)
  <2> SUFFICES ASSUME token.op = "continue" PROVE Holds(s, Loops)
    OBVIOUS
  <2>1. token.op \notin QuietOps /\ token.op \notin Openers /\ token.op \notin Closers /\ token.op \notin {"break", "test"}
    BY <1>1
  <2> QED
    BY <2>1 DEF TokenStep
<1> QED
  BY <1>2, <1>3, <1>4, <1>5, <1>6, <1>7

\* The search for the end of a scope.
LEMMA CloserIsSearched ==
  ASSUME NEW text \in Seq(Texts), NEW j \in 1 .. Len(text)
  PROVE  \E f \in [(j + 1 .. Len(text) + 1) \X Nat -> Nat] :
           /\ CloserOf(text, j) = f[<<j + 1, 0>>]
           /\ \A k \in j + 1 .. Len(text) + 1 : \A e \in Nat :
                f[<<k, e>>] = IF k > Len(text) THEN k
                              ELSE IF text[k].op \in Openers THEN f[<<k + 1, e + 1>>]
                              ELSE IF text[k].op \in Closers /\ e = 0 THEN k
                              ELSE IF text[k].op \in Closers THEN f[<<k + 1, e - 1>>]
                              ELSE f[<<k + 1, e>>]
<1> DEFINE n == Len(text)
           S == (j + 1 .. n + 1) \X Nat
           T == {p \in S : p[1] > n \/ (text[p[1]].op \notin Openers /\ text[p[1]].op \in Closers /\ p[2] = 0)}
           v == [p \in S |-> p[1]]
           More(p) == IF text[p[1]].op \in Openers THEN p[2] + 1
                      ELSE IF text[p[1]].op \in Closers THEN p[2] - 1 ELSE p[2]
           next == [p \in S |-> IF p \in T THEN p ELSE <<p[1] + 1, More(p)>>]
           G == [q \in S \X Nat |-> q[2]]
           r == [p \in S |-> n + 1 - p[1]]
           Body(f, p) == IF p[1] > Len(text) THEN p[1]
                         ELSE IF text[p[1]].op \in Openers THEN f[<<p[1] + 1, p[2] + 1>>]
                         ELSE IF text[p[1]].op \in Closers /\ p[2] = 0 THEN p[1]
                         ELSE IF text[p[1]].op \in Closers THEN f[<<p[1] + 1, p[2] - 1>>]
                         ELSE f[<<p[1] + 1, p[2]>>]
           Is(f) == f = [p \in (j + 1 .. Len(text) + 1) \X Nat |-> Body(f, p)]
<1>1. n \in Nat /\ j \in Nat /\ 1 <= j /\ j <= n
  OBVIOUS
<1> HIDE DEF n
<1>2. ASSUME NEW p \in S, p \notin T
      PROVE  <<p[1] + 1, More(p)>> \in S /\ n + 1 - (p[1] + 1) < n + 1 - p[1]
  <2>1. p[1] \in j + 1 .. n /\ p[2] \in Nat /\ (text[p[1]].op \in Openers \/ text[p[1]].op \notin Closers \/ p[2] # 0)
    BY <1>1, <1>2
  <2>2. More(p) \in Nat
    BY <2>1
  <2>3. p[1] + 1 \in j + 1 .. n + 1 /\ n + 1 - (p[1] + 1) < n + 1 - p[1]
    BY <1>1, <2>1
  <2> HIDE DEF More
  <2> QED
    BY <2>2, <2>3
<1>3. next \in [S -> S] /\ \A p \in S : p \notin T => next[p] = <<p[1] + 1, More(p)>> /\ r[next[p]] < r[p]
  <2> HIDE DEF T, S, More
  <2>1. next \in [S -> S] /\ \A p \in S : p \notin T => next[p] = <<p[1] + 1, More(p)>>
    BY <1>2
  <2> QED
    BY <1>2, <2>1
<1>4. IsRecursion(S, Nat, T, v, next, G, r)
  <2>1. v \in [S -> Nat]
    BY <1>1
  <2>2. G \in [S \X Nat -> Nat]
    <3> HIDE DEF S
    <3> QED
      OBVIOUS
  <2>3. r \in [S -> Nat]
    BY <1>1
  <2> HIDE DEF S, T, v, next, G, r
  <2> QED
    BY <1>3, <2>1, <2>2, <2>3 DEF IsRecursion, IsRanked
<1>5. \E f : Is(f) /\ f \in [S -> Nat]
  <2>1. PICK f : Solves(f, S, Nat, T, v, next, G)
    <3> HIDE DEF S, T, v, next, G, r
    <3> QED
      BY <1>4, RecursiveFunctionExists
  <2>2. f \in [S -> Nat] /\ \A p \in S : f[p] = IF p \in T THEN v[p] ELSE G[<<p, f[next[p]]>>]
    <3> HIDE DEF S, T, v, next, G, r
    <3> QED
      BY <2>1 DEF Solves
  <2>3. ASSUME NEW p \in S PROVE f[p] = Body(f, p)
    <3>1. CASE p \in T
      <4>1. f[p] = v[p]
        <5> HIDE DEF T, v, S
        <5> QED
          BY <2>2, <3>1
      <4>2. v[p] = p[1]
        OBVIOUS
      <4> QED
        BY <1>1, <3>1, <4>1, <4>2 DEF n
    <3>2. CASE p \notin T
      <4>1. next[p] = <<p[1] + 1, More(p)>> /\ next[p] \in S
        <5> HIDE DEF T, S, next, More
        <5> QED
          BY <1>3, <3>2
      <4>2. f[next[p]] \in Nat /\ f[p] = G[<<p, f[next[p]]>>]
        <5> HIDE DEF T, v, S, next, G
        <5> QED
          BY <2>2, <3>2, <4>1
      <4>3. f[p] = f[<<p[1] + 1, More(p)>>]
        <5> HIDE DEF T, v, S, next, More
        <5> QED
          BY <4>1, <4>2
      <4>4. ~(p[1] > n) /\ (text[p[1]].op \in Openers \/ text[p[1]].op \notin Closers \/ p[2] # 0)
        BY <3>2
      <4> HIDE DEF T, S
      <4> QED
        BY <4>3, <4>4 DEF n
    <3> QED
      BY <3>1, <3>2
  <2>4. f = [p \in S |-> f[p]]
    BY <2>2
  <2>5. Is(f)
    <3>1. f = [p \in S |-> Body(f, p)]
      <4> HIDE DEF S, Body
      <4> QED
        BY <2>3, <2>4
    <3> QED
      BY <3>1 DEF n
  <2> QED
    BY <2>2, <2>5
<1> DEFINE d == CHOOSE f : Is(f)
<1>6. Is(d)
  <2> HIDE DEF Is
  <2> QED
    BY <1>5
<1>7. CloserOf(text, j) = d[<<j + 1, 0>>]
  BY DEF CloserOf, EndOf
<1> HIDE DEF d
<1>8. \A p \in S : d[p] = Body(d, p)
  <2> HIDE DEF Body
  <2> QED
    BY <1>6 DEF n
<1>9. d = [p \in S |-> d[p]]
  <2> HIDE DEF Body
  <2> QED
    BY <1>6 DEF n
<1> DEFINE Bad == {p \in S : d[p] \notin Nat}
<1>10. ASSUME NEW p \in Bad PROVE \E q \in Bad : r[q] < r[p]
  <2>1. p \in S /\ d[p] \notin Nat /\ p[1] \in j + 1 .. n + 1 /\ p[2] \in Nat
    OBVIOUS
  <2>2. p[1] \in Nat
    BY <1>1, <2>1
  <2>3. p \notin T
    <3> SUFFICES ASSUME p \in T PROVE d[p] = p[1]
      BY <2>1, <2>2
    <3> QED
      BY <1>8, <2>1 DEF n
  <2>4. next[p] \in S /\ next[p] = <<p[1] + 1, More(p)>> /\ r[next[p]] < r[p]
    <3> HIDE DEF T, S, next, More, r
    <3> QED
      BY <1>3, <2>1, <2>3
  <2>5. d[p] = d[<<p[1] + 1, More(p)>>]
    BY <1>8, <2>1, <2>3 DEF n
  <2> HIDE DEF next, r, More, S
  <2> QED
    BY <2>1, <2>4, <2>5
<1>11. Bad = {}
  <2>1. r \in [S -> Nat] /\ Bad \in SUBSET S
    BY <1>1
  <2> HIDE DEF r, Bad, S
  <2> QED
    BY <1>10, <2>1, RankInduction
<1>12. d \in [S -> Nat]
  <2> HIDE DEF S
  <2> QED
    BY <1>9, <1>11
<1>13. ASSUME NEW k \in j + 1 .. n + 1, NEW e \in Nat PROVE d[<<k, e>>] = Body(d, <<k, e>>)
  <2>1. <<k, e>> \in S
    OBVIOUS
  <2> HIDE DEF S, Body
  <2> QED
    BY <1>8, <2>1
<1>14. d \in [(j + 1 .. Len(text) + 1) \X Nat -> Nat]
  BY <1>12 DEF n
<1>15. \A k \in j + 1 .. Len(text) + 1 : \A e \in Nat :
         d[<<k, e>>] = IF k > Len(text) THEN k
                       ELSE IF text[k].op \in Openers THEN d[<<k + 1, e + 1>>]
                       ELSE IF text[k].op \in Closers /\ e = 0 THEN k
                       ELSE IF text[k].op \in Closers THEN d[<<k + 1, e - 1>>]
                       ELSE d[<<k + 1, e>>]
  BY <1>13 DEF n
<1> HIDE DEF Body, S, T, v, More, next, G, r, Bad
<1> QED
  BY <1>7, <1>14, <1>15

\* How many scopes are open after the first k tokens.
LEMMA NestingSteps ==
  ASSUME NEW text \in Seq(Texts), NEW g, Nests(text, g)
  PROVE  /\ \A k \in 0 .. Len(text) : g[k] \in Stacks /\ Len(g[k]) \in Nat
         /\ Len(g[0]) = 0 /\ Len(g[Len(text)]) = 0
         /\ \A k \in 1 .. Len(text) :
              /\ g[k - 1] \in Stacks /\ g[k] \in Stacks /\ Len(g[k - 1]) \in Nat /\ Len(g[k]) \in Nat
              /\ text[k].op \in Openers => text[k].op \notin Closers /\ g[k] = Append(g[k - 1], text[k].op)
                                           /\ Len(g[k]) = Len(g[k - 1]) + 1
              /\ text[k].op \in Closers => g[k] = Outer(g[k - 1]) /\ Len(g[k]) = Len(g[k - 1]) - 1
              /\ text[k].op \notin Openers \cup Closers => g[k] = g[k - 1]
<1>1. /\ Len(text) \in Nat /\ \A k \in 0 .. Len(text) : g[k] \in Stacks
      /\ g[0] = <<>> /\ g[Len(text)] = <<>> /\ \A k \in 1 .. Len(text) : TokenStep(text[k], g[k - 1], g[k])
  BY DEF Nests
<1>2. \A s \in Stacks : Len(s) \in Nat
  BY DEF Stacks
<1>3. ASSUME NEW k \in 1 .. Len(text)
      PROVE  /\ g[k - 1] \in Stacks /\ g[k] \in Stacks /\ Len(g[k - 1]) \in Nat /\ Len(g[k]) \in Nat
             /\ text[k].op \in Openers => text[k].op \notin Closers /\ g[k] = Append(g[k - 1], text[k].op)
                                          /\ Len(g[k]) = Len(g[k - 1]) + 1
             /\ text[k].op \in Closers => g[k] = Outer(g[k - 1]) /\ Len(g[k]) = Len(g[k - 1]) - 1
             /\ text[k].op \notin Openers \cup Closers => g[k] = g[k - 1]
  <2>1. k \in 0 .. Len(text) /\ k - 1 \in 0 .. Len(text)
    BY <1>1
  <2>2. g[k] \in Stacks /\ g[k - 1] \in Stacks /\ TokenStep(text[k], g[k - 1], g[k])
    BY <1>1, <2>1
  <2> QED
    BY <2>2, TokenDepth
<1>4. Len(g[0]) = 0 /\ Len(g[Len(text)]) = 0
  BY <1>1
<1> QED
  BY <1>1, <1>2, <1>3, <1>4

\* A scope ends, and not before it is left.
LEMMA ScopesEnd ==
  ASSUME NEW text \in Seq(Texts), NEW g, Nests(text, g), NEW j \in 1 .. Len(text), text[j].op \in Openers
  PROVE  /\ CloserOf(text, j) \in Nat /\ CloserOf(text, j) <= Len(text)
         /\ \A k \in j + 1 .. Len(text) :
              (\A i \in j .. k - 1 : Len(g[i]) >= Len(g[j])) => k <= CloserOf(text, j)
<1> DEFINE n == Len(text)
           S == (j + 1 .. n + 1) \X Nat
           r == [p \in S |-> n + 1 - p[1]]
           depth == [i \in 0 .. n |-> Len(g[i])]
<1>1. PICK f \in [S -> Nat] :
        /\ CloserOf(text, j) = f[<<j + 1, 0>>]
        /\ \A k \in j + 1 .. n + 1 : \A e \in Nat :
             f[<<k, e>>] = IF k > n THEN k
                           ELSE IF text[k].op \in Openers THEN f[<<k + 1, e + 1>>]
                           ELSE IF text[k].op \in Closers /\ e = 0 THEN k
                           ELSE IF text[k].op \in Closers THEN f[<<k + 1, e - 1>>]
                           ELSE f[<<k + 1, e>>]
  BY CloserIsSearched
<1>2. n \in Nat /\ j \in Nat /\ 1 <= j /\ j <= n
  OBVIOUS
<1>3. /\ depth \in [0 .. n -> Nat] /\ depth[n] = 0 /\ depth[j] > 0
      /\ \A k \in 1 .. n : /\ text[k].op \in Openers => text[k].op \notin Closers /\ depth[k] = depth[k - 1] + 1
                           /\ text[k].op \in Closers => depth[k] = depth[k - 1] - 1
                           /\ text[k].op \notin Openers \cup Closers => depth[k] = depth[k - 1]
      /\ \A i \in 0 .. n : depth[i] = Len(g[i])
  <2>1. /\ \A k \in 0 .. n : Len(g[k]) \in Nat
        /\ \A k \in 1 .. n : k \in 0 .. n /\ k - 1 \in 0 .. n
    BY <1>2, NestingSteps
  <2>2. \A i \in 0 .. n : depth[i] = Len(g[i])
    OBVIOUS
  <2>3. depth \in [0 .. n -> Nat]
    BY <2>1
  <2>4. n \in 0 .. n /\ j \in 1 .. n
    BY <1>2
  <2>5. \A k \in 1 .. n : /\ text[k].op \in Openers => text[k].op \notin Closers /\ Len(g[k]) = Len(g[k - 1]) + 1
                          /\ text[k].op \in Closers => Len(g[k]) = Len(g[k - 1]) - 1
                          /\ text[k].op \notin Openers \cup Closers => g[k] = g[k - 1]
    BY NestingSteps
  <2>6. depth[n] = 0
    BY <2>2, <2>4, NestingSteps
  <2> HIDE DEF depth, n
  <2>7. \A k \in 1 .. n : /\ text[k].op \in Openers => text[k].op \notin Closers /\ depth[k] = depth[k - 1] + 1
                          /\ text[k].op \in Closers => depth[k] = depth[k - 1] - 1
                          /\ text[k].op \notin Openers \cup Closers => depth[k] = depth[k - 1]
    BY <2>1, <2>2, <2>5
  <2>8. depth[j] > 0
    <3>1. depth[j] = depth[j - 1] + 1 /\ j - 1 \in 0 .. n
      BY <2>1, <2>4, <2>7
    <3>2. depth[j - 1] \in Nat
      BY <2>3, <3>1
    <3> QED
      BY <3>1, <3>2
  <2> QED
    BY <2>2, <2>3, <2>6, <2>7, <2>8
<1> HIDE DEF depth, n
<1>4. \A p \in S : p[1] \in j + 1 .. n + 1 /\ p[2] \in Nat /\ p = <<p[1], p[2]>>
  OBVIOUS
<1>5. r \in [S -> Nat] /\ \A k \in j + 1 .. n : \A e \in Nat : \A d \in Nat :
        <<k, e>> \in S /\ <<k + 1, d>> \in S /\ r[<<k + 1, d>>] < r[<<k, e>>]
  <2>1. ASSUME NEW p \in S PROVE n + 1 - p[1] \in Nat
    BY <1>2, <1>4
  <2>2. ASSUME NEW k \in j + 1 .. n, NEW e \in Nat, NEW d \in Nat
        PROVE  <<k, e>> \in S /\ <<k + 1, d>> \in S /\ r[<<k + 1, d>>] < r[<<k, e>>]
    <3>1. k \in j + 1 .. n + 1 /\ k + 1 \in j + 1 .. n + 1 /\ k \in Int
      BY <1>2
    <3>2. <<k, e>> \in S /\ <<k + 1, d>> \in S
      BY <3>1
    <3>3. r[<<k, e>>] = n + 1 - k /\ r[<<k + 1, d>>] = n + 1 - (k + 1)
      BY <3>2
    <3> QED
      BY <1>2, <3>1, <3>2, <3>3
  <2> HIDE DEF S
  <2> QED
    BY <2>1, <2>2
<1> HIDE DEF r
\* The search does not go back.
<1>6. \A p \in S : f[p] >= p[1]
  <2> DEFINE Bad == {p \in S : ~(f[p] >= p[1])}
  <2>1. ASSUME NEW p \in Bad PROVE \E q \in Bad : r[q] < r[p]
    <3>1. p \in S /\ ~(f[p] >= p[1])
      OBVIOUS
    <3> DEFINE k == p[1]
               e == p[2]
    <3>2. k \in j + 1 .. n + 1 /\ e \in Nat /\ p = <<k, e>> /\ k \in Nat
      BY <1>2, <1>4, <3>1
    <3> HIDE DEF k, e, S
    <3>3. ~(f[<<k, e>>] >= k) /\ <<k, e>> \in S
      BY <3>1, <3>2 DEF k
    <3>4. ~(k > n) /\ ~(text[k].op \notin Openers /\ text[k].op \in Closers /\ e = 0)
      <4>1. k > n => f[<<k, e>>] = k
        BY <1>1, <3>2
      <4>2. ~(k > n) /\ text[k].op \notin Openers /\ text[k].op \in Closers /\ e = 0 => f[<<k, e>>] = k
        BY <1>1, <3>2
      <4>3. k >= k
        BY <3>2
      <4> QED
        BY <3>3, <4>1, <4>2, <4>3
    <3>5. PICK d \in Nat : f[<<k, e>>] = f[<<k + 1, d>>]
      <4>1. e + 1 \in Nat /\ (e # 0 => e - 1 \in Nat)
        BY <3>2
      <4> QED
        BY <1>1, <3>2, <3>4, <4>1
    <3>6. k \in j + 1 .. n
      BY <1>2, <3>2, <3>4
    <3>7. <<k + 1, d>> \in S /\ r[<<k + 1, d>>] < r[p]
      BY <1>5, <3>2, <3>6
    <3>8. ~(f[<<k + 1, d>>] >= k + 1)
      <4>1. f[<<k + 1, d>>] \in Nat
        BY <1>1, <3>7
      <4> QED
        BY <3>2, <3>3, <3>5, <4>1
    <3>9. <<k + 1, d>>[1] = k + 1
      OBVIOUS
    <3> QED
      BY <3>7, <3>8, <3>9
  <2>2. Bad \in SUBSET S
    OBVIOUS
  <2> HIDE DEF Bad, S
  <2>3. Bad = {}
    BY <1>5, <2>1, <2>2, RankInduction
  <2> QED
    BY <2>3 DEF Bad
\* How deep the search is.
<1>7. ASSUME NEW k \in j + 1 .. n, NEW e \in Nat, e = depth[k - 1] - depth[j], ~(text[k].op \in Closers /\ e = 0)
      PROVE  \E d \in Nat : d = depth[k] - depth[j] /\ f[<<k, e>>] = f[<<k + 1, d>>]
  <2>1. k \in 1 .. n /\ k \in 0 .. n /\ k - 1 \in 0 .. n /\ j \in 0 .. n /\ k \in j + 1 .. n + 1 /\ ~(k > n)
    BY <1>2
  <2>2. depth[k] \in Nat /\ depth[k - 1] \in Nat /\ depth[j] \in Nat
    BY <1>3, <2>1
  <2>3. CASE text[k].op \in Openers
    <3>1. f[<<k, e>>] = f[<<k + 1, e + 1>>]
      BY <1>1, <2>1, <2>3
    <3>2. e + 1 = depth[k] - depth[j] /\ e + 1 \in Nat
      BY <1>3, <1>7, <2>1, <2>2, <2>3
    <3> QED
      BY <3>1, <3>2
  <2>4. CASE text[k].op \in Closers
    <3>1. e # 0 /\ text[k].op \notin Openers
      BY <1>3, <1>7, <2>1, <2>4
    <3>2. f[<<k, e>>] = f[<<k + 1, e - 1>>]
      BY <1>1, <2>1, <2>4, <3>1
    <3>3. e - 1 = depth[k] - depth[j] /\ e - 1 \in Nat
      BY <1>3, <1>7, <2>1, <2>2, <2>4, <3>1
    <3> QED
      BY <3>2, <3>3
  <2>5. CASE text[k].op \notin Openers \cup Closers
    <3>1. f[<<k, e>>] = f[<<k + 1, e>>]
      BY <1>1, <2>1, <2>5
    <3>2. e = depth[k] - depth[j]
      BY <1>3, <1>7, <2>1, <2>5
    <3> QED
      BY <3>1, <3>2
  <2> QED
    BY <2>3, <2>4, <2>5
<1>8. <<j + 1, 0>> \in S /\ 0 = depth[(j + 1) - 1] - depth[j] /\ f[<<j + 1, 0>>] \in Nat
  <2>1. j + 1 \in j + 1 .. n + 1 /\ (j + 1) - 1 = j /\ j \in 0 .. n
    BY <1>2
  <2>2. depth[j] \in Nat
    BY <1>3, <2>1
  <2>3. <<j + 1, 0>> \in S
    BY <2>1
  <2> HIDE DEF S
  <2> QED
    BY <1>1, <2>1, <2>2, <2>3
<1>9. f[<<j + 1, 0>>] <= n
  <2> DEFINE Bad == {p \in S : p[2] = depth[p[1] - 1] - depth[j] /\ ~(f[p] <= n)}
  <2>1. ASSUME NEW p \in Bad PROVE \E q \in Bad : r[q] < r[p]
    <3> DEFINE k == p[1]
               e == p[2]
    <3>1. p \in S /\ e = depth[k - 1] - depth[j] /\ ~(f[p] <= n)
      OBVIOUS
    <3>2. k \in j + 1 .. n + 1 /\ e \in Nat /\ p = <<k, e>> /\ k \in Nat
      BY <1>2, <1>4, <3>1
    <3> HIDE DEF k, e, S
    <3>3. k \in j + 1 .. n
      <4> SUFFICES ASSUME k = n + 1 PROVE FALSE
        BY <1>2, <3>2
      <4>1. k - 1 = n /\ j \in 0 .. n /\ n \in 0 .. n
        BY <1>2
      <4>2. depth[j] \in Nat /\ depth[n] = 0 /\ depth[j] > 0
        BY <1>3, <4>1
      <4> QED
        BY <3>1, <3>2, <4>1, <4>2
    <3>4. ~(text[k].op \in Closers /\ e = 0)
      <4> SUFFICES ASSUME text[k].op \in Closers, e = 0 PROVE FALSE
        OBVIOUS
      <4>1. k \in 1 .. n /\ ~(k > n) /\ k <= n
        BY <1>2, <3>3
      <4>2. text[k].op \notin Openers
        BY <1>3, <4>1
      <4>3. f[<<k, e>>] = k
        BY <1>1, <3>2, <4>1, <4>2
      <4> QED
        BY <3>1, <3>2, <4>1, <4>3
    <3>5. PICK d \in Nat : d = depth[k] - depth[j] /\ f[<<k, e>>] = f[<<k + 1, d>>]
      BY <1>7, <3>1, <3>2, <3>3, <3>4
    <3>6. <<k + 1, d>> \in S /\ r[<<k + 1, d>>] < r[p]
      BY <1>5, <3>2, <3>3
    <3>7. (k + 1) - 1 = k /\ ~(f[<<k + 1, d>>] <= n)
      BY <3>1, <3>2, <3>5
    <3>8. <<k + 1, d>>[1] = k + 1 /\ <<k + 1, d>>[2] = d
      OBVIOUS
    <3>9. <<k + 1, d>> \in Bad
      BY <3>5, <3>6, <3>7, <3>8
    <3> QED
      BY <3>6, <3>9
  <2>2. Bad \in SUBSET S
    OBVIOUS
  <2> HIDE DEF Bad, S
  <2>3. Bad = {}
    BY <1>5, <2>1, <2>2, RankInduction
  <2>4. <<j + 1, 0>>[1] = j + 1 /\ <<j + 1, 0>>[2] = 0
    OBVIOUS
  <2> QED
    BY <1>8, <2>3, <2>4 DEF Bad
<1>10. ASSUME NEW k \in j + 1 .. n, \A i \in j .. k - 1 : Len(g[i]) >= Len(g[j])
       PROVE  k <= f[<<j + 1, 0>>]
  <2> DEFINE Bad == {p \in S : p[1] <= k /\ p[2] = depth[p[1] - 1] - depth[j] /\ ~(k <= f[p])}
  <2>0. k \in Nat /\ j < k /\ k <= n
    BY <1>2
  <2>1. ASSUME NEW p \in Bad PROVE \E q \in Bad : r[q] < r[p]
    <3> DEFINE l == p[1]
               e == p[2]
    <3>1. p \in S /\ e = depth[l - 1] - depth[j] /\ ~(k <= f[p]) /\ l <= k
      OBVIOUS
    <3>2. l \in j + 1 .. n + 1 /\ e \in Nat /\ p = <<l, e>> /\ l \in Nat /\ j < l
      BY <1>2, <1>4, <3>1
    <3>i. f[p] >= l
      BY <1>6, <3>1
    <3> HIDE DEF l, e, S
    <3>3. l < k /\ l \in j + 1 .. n /\ l \in j .. k - 1 /\ l \in 1 .. n /\ l \in 0 .. n /\ j \in 0 .. n /\ j \in j .. k - 1
      <4>1. f[p] \in Nat
        BY <1>1, <3>1
      <4> QED
        BY <1>2, <2>0, <3>1, <3>2, <3>i, <4>1
    <3>4. ~(text[l].op \in Closers /\ e = 0)
      <4> SUFFICES ASSUME text[l].op \in Closers, e = 0 PROVE FALSE
        OBVIOUS
      <4>1. depth[l] = depth[l - 1] - 1 /\ depth[l] \in Nat /\ depth[j] \in Nat
        BY <1>3, <3>3
      <4>2. depth[l] >= depth[j]
        BY <1>3, <1>10, <3>3
      <4>3. l - 1 \in 0 .. n
        <5>1. l \in 1 .. n
          BY <3>3
        <5> QED
          BY <1>2, <5>1
      <4>4. depth[l - 1] \in Nat
        BY <1>3, <4>3
      <4> QED
        BY <3>1, <4>1, <4>2, <4>4
    <3>5. PICK d \in Nat : d = depth[l] - depth[j] /\ f[<<l, e>>] = f[<<l + 1, d>>]
      BY <1>7, <3>1, <3>2, <3>3, <3>4
    <3>6. <<l + 1, d>> \in S /\ r[<<l + 1, d>>] < r[p]
      BY <1>5, <3>2, <3>3
    <3>7. (l + 1) - 1 = l /\ ~(k <= f[<<l + 1, d>>]) /\ l + 1 <= k
      BY <2>0, <3>1, <3>2, <3>3, <3>5
    <3>8. <<l + 1, d>>[1] = l + 1 /\ <<l + 1, d>>[2] = d
      OBVIOUS
    <3>9. <<l + 1, d>> \in Bad
      BY <3>5, <3>6, <3>7, <3>8
    <3> QED
      BY <3>6, <3>9
  <2>2. Bad \in SUBSET S
    OBVIOUS
  <2> HIDE DEF Bad, S
  <2>r. r \in [S -> Nat]
    BY <1>5
  <2>3. Bad = {}
    BY <2>1, <2>2, <2>r, RankInduction
  <2>4. <<j + 1, 0>>[1] = j + 1 /\ <<j + 1, 0>>[2] = 0 /\ j + 1 <= k
    BY <1>2, <2>0
  <2> QED
    BY <1>8, <2>3, <2>4 DEF Bad
<1> HIDE DEF S
<1> QED
  BY <1>1, <1>8, <1>9, <1>10 DEF n

\* A scope which is open is one around the token.
LEMMA OpenScopeIsAround ==
  ASSUME NEW text \in Seq(Texts), NEW g, Nests(text, g), NEW k \in 1 .. Len(text),
         NEW kinds \in SUBSET Openers, Holds(g[k - 1], kinds)
  PROVE  Around(text, k, kinds) # 0
<1> DEFINE n == Len(text)
           open == {j \in 1 .. k - 1 : text[j].op \in kinds /\ CloserOf(text, j) >= k}
<1>1. n \in Nat /\ k \in Nat /\ 1 <= k /\ k <= n
  OBVIOUS
<1> HIDE DEF n
<1>2. /\ \A m \in 0 .. n : g[m] \in Stacks /\ Len(g[m]) \in Nat
      /\ Len(g[0]) = 0
      /\ \A m \in 1 .. n : /\ text[m].op \in Openers => g[m] = Append(g[m - 1], text[m].op) /\ Len(g[m]) = Len(g[m - 1]) + 1
                           /\ text[m].op \in Closers => g[m] = Outer(g[m - 1]) /\ Len(g[m]) = Len(g[m - 1]) - 1
                           /\ text[m].op \notin Openers \cup Closers => g[m] = g[m - 1]
  BY NestingSteps DEF n
<1>3. PICK i \in 1 .. Len(g[k - 1]) : g[k - 1][i] \in kinds
  <2>1. k - 1 \in 0 .. n
    BY <1>1
  <2>2. g[k - 1] \in Seq(Openers)
    BY <1>2, <2>1 DEF Stacks
  <2>3. DOMAIN g[k - 1] = 1 .. Len(g[k - 1])
    BY <2>2
  <2> QED
    BY <2>3 DEF Holds
<1>i. i \in Nat /\ 1 <= i /\ Len(g[k - 1]) >= i /\ k - 1 \in 0 .. n
  BY <1>1, <1>2
\* Where the scope was opened.
<1> DEFINE low == {m \in Nat : m < k - 1 /\ Len(g[m]) < i}
<1>4. PICK q \in low : \A m \in low : m <= q
  <2>1. 0 \in low
    <3>1. k - 1 # 0
      BY <1>2, <1>i
    <3> QED
      BY <1>1, <1>2, <1>i, <3>1
  <2>2. low \in SUBSET Nat /\ \A m \in low : m <= k
    BY <1>1
  <2> HIDE DEF low
  <2> QED
    BY <1>1, <2>1, <2>2, GreatestNatural
<1> DEFINE j == q + 1
<1>5. j \in 1 .. n /\ j <= k - 1 /\ j - 1 = q /\ q \in 0 .. n /\ j \in Nat /\ Len(g[q]) < i
  BY <1>1, <1>4
<1>6. \A m \in j .. k - 1 : m \in 0 .. n /\ Len(g[m]) >= i
  <2>1. ASSUME NEW m \in j .. k - 1 PROVE m \in 0 .. n /\ Len(g[m]) >= i
    <3>1. m \in 0 .. n /\ m \in Nat
      BY <1>1, <1>5
    <3>2. Len(g[m]) \in Nat
      BY <1>2, <3>1
    <3>3. CASE m = k - 1
      BY <1>i, <3>1, <3>3
    <3>4. CASE m # k - 1
      <4>1. m < k - 1 /\ ~(m <= q)
        BY <1>1, <1>5, <3>1, <3>4
      <4>2. m \notin low
        BY <1>4, <4>1
      <4> QED
        BY <1>i, <3>1, <3>2, <4>1, <4>2
    <3> QED
      BY <3>3, <3>4
  <2> QED
    BY <2>1
<1> HIDE DEF low
<1>7. /\ text[j].op \in Openers /\ Len(g[j]) = i /\ g[j][i] = text[j].op
  <2>1. j \in j .. k - 1
    BY <1>1, <1>5
  <2>2. Len(g[j]) >= i /\ Len(g[q]) < i /\ Len(g[j]) \in Nat /\ Len(g[q]) \in Nat /\ g[q] \in Stacks
    BY <1>2, <1>5, <1>6, <2>1
  <2>3. /\ text[j].op \in Openers => g[j] = Append(g[q], text[j].op) /\ Len(g[j]) = Len(g[q]) + 1
        /\ text[j].op \in Closers => Len(g[j]) = Len(g[q]) - 1
        /\ text[j].op \notin Openers \cup Closers => g[j] = g[q]
    <3> HIDE DEF j
    <3> QED
      BY <1>2, <1>5
  <2> HIDE DEF j
  <2>4. text[j].op \in Openers
    BY <1>i, <2>2, <2>3
  <2>5. Len(g[j]) = i /\ i = Len(g[q]) + 1
    BY <1>i, <2>2, <2>3, <2>4
  <2>6. Append(g[q], text[j].op)[Len(g[q]) + 1] = text[j].op
    BY <2>2 DEF Stacks
  <2> QED
    BY <2>3, <2>4, <2>5, <2>6
<1> HIDE DEF j
\* The scope is still the same.
<1>8. g[k - 1][i] = text[j].op
  <2> DEFINE Bad == {m \in Nat : m \in j .. k - 1 /\ g[m][i] # text[j].op}
  <2>1. Bad = {}
    <3> SUFFICES ASSUME Bad # {} PROVE FALSE
      OBVIOUS
    <3>1. PICK m \in Bad : \A l \in Bad : m <= l
      <4>1. Bad \in SUBSET Nat
        OBVIOUS
      <4> HIDE DEF Bad
      <4> QED
        BY <4>1, LeastNatural
    <3>2. m \in j .. k - 1 /\ g[m][i] # text[j].op /\ m \in Nat
      OBVIOUS
    <3>3. m # j
      BY <1>7, <3>2
    <3>4. m \in 1 .. n /\ m - 1 \in j .. k - 1 /\ m - 1 \in 0 .. n /\ m - 1 \in Nat /\ ~(m <= m - 1)
      BY <1>1, <1>5, <3>2, <3>3
    <3>5. g[m - 1][i] = text[j].op
      BY <3>1, <3>4
    <3>6. /\ Len(g[m]) >= i /\ Len(g[m - 1]) >= i /\ g[m - 1] \in Seq(Openers)
          /\ Len(g[m]) \in Nat /\ Len(g[m - 1]) \in Nat
      <4>1. m \in 0 .. n /\ Len(g[m]) >= i /\ Len(g[m - 1]) >= i
        BY <1>6, <3>2, <3>4
      <4> QED
        BY <1>2, <3>4, <4>1 DEF Stacks
    <3>7. /\ text[m].op \in Openers => g[m] = Append(g[m - 1], text[m].op)
          /\ text[m].op \in Closers => g[m] = Outer(g[m - 1]) /\ Len(g[m]) = Len(g[m - 1]) - 1
          /\ text[m].op \notin Openers \cup Closers => g[m] = g[m - 1]
      BY <1>2, <3>4
    <3>8. \A s \in Seq(Openers) : \A op \in Openers : \A l \in 1 .. Len(s) : Append(s, op)[l] = s[l]
      OBVIOUS
    <3>9. \A s \in Seq(Openers) : \A l \in 1 .. Len(s) - 1 : SubSeq(s, 1, Len(s) - 1)[l] = s[l]
      OBVIOUS
    <3>10. i \in 1 .. Len(g[m - 1])
      BY <1>i, <3>6
    <3> HIDE DEF Bad
    <3>11. CASE text[m].op \in Openers
      BY <3>2, <3>5, <3>6, <3>7, <3>8, <3>10, <3>11
    <3>12. CASE text[m].op \in Closers
      <4>1. i \in 1 .. Len(g[m - 1]) - 1
        BY <1>i, <3>6, <3>7, <3>12
      <4>2. Outer(g[m - 1])[i] = g[m - 1][i]
        BY <3>6, <3>9, <4>1 DEF Outer
      <4> QED
        BY <3>2, <3>5, <3>7, <3>12, <4>2
    <3>13. CASE text[m].op \notin Openers \cup Closers
      BY <3>2, <3>5, <3>7, <3>13
    <3> QED
      BY <3>11, <3>12, <3>13
  <2>2. k - 1 \in j .. k - 1 /\ k - 1 \in Nat
    BY <1>1, <1>5
  <2> QED
    BY <2>1, <2>2
<1>9. j \in open
  <2>1. text[j].op \in kinds
    BY <1>3, <1>8
  <2>2. CloserOf(text, j) \in Nat /\ \A m \in j + 1 .. Len(text) :
          (\A l \in j .. m - 1 : Len(g[l]) >= Len(g[j])) => m <= CloserOf(text, j)
    BY <1>5, <1>7, ScopesEnd DEF n
  <2>3. k \in j + 1 .. Len(text)
    BY <1>1, <1>5 DEF n
  <2>4. \A l \in j .. k - 1 : Len(g[l]) >= Len(g[j])
    BY <1>6, <1>7
  <2>5. CloserOf(text, j) >= k
    <3>1. k <= CloserOf(text, j)
      BY <2>2, <2>3, <2>4
    <3> QED
      BY <1>1, <2>2, <3>1
  <2>6. j \in 1 .. k - 1
    BY <1>1, <1>5
  <2> QED
    BY <2>1, <2>5, <2>6
<1>10. \E m \in open : \A l \in open : l <= m
  <2>1. open \in SUBSET Nat /\ \A m \in open : m <= k
    BY <1>1
  <2> HIDE DEF open
  <2> QED
    BY <1>1, <1>9, <2>1, GreatestNatural
<1>11. Around(text, k, kinds) \in open
  <2>1. Around(text, k, kinds) = CHOOSE m \in open : \A l \in open : l <= m
    BY <1>9 DEF Around
  <2> HIDE DEF open
  <2> QED
    BY <1>10, <2>1
<1>12. \A m \in open : m # 0
  BY <1>1
<1> HIDE DEF open
<1> QED
  BY <1>11, <1>12

\* As many scopes are opened as are closed.
LEMMA ScopesBalance ==
  ASSUME NEW text \in Seq(Texts), NEW g, Nests(text, g)
  PROVE  Cardinality({k \in DOMAIN text : text[k].op \in Openers})
           = Cardinality({k \in DOMAIN text : text[k].op \in Closers})
<1> DEFINE n == Len(text)
           Opening(m) == {k \in 1 .. m : text[k].op \in Openers}
           Closing(m) == {k \in 1 .. m : text[k].op \in Closers}
           Bad == {m \in Nat : m <= n /\ ~(Cardinality(Opening(m)) = Cardinality(Closing(m)) + Len(g[m]))}
<1>1. n \in Nat /\ DOMAIN text = 1 .. n
  OBVIOUS
<1> HIDE DEF n
<1>2. /\ \A k \in 0 .. n : Len(g[k]) \in Nat
      /\ Len(g[0]) = 0 /\ Len(g[n]) = 0
      /\ \A k \in 1 .. n :
           /\ text[k].op \in Openers => text[k].op \notin Closers /\ Len(g[k]) = Len(g[k - 1]) + 1
           /\ text[k].op \in Closers => Len(g[k]) = Len(g[k - 1]) - 1
           /\ text[k].op \notin Openers \cup Closers => g[k] = g[k - 1]
  BY NestingSteps DEF n
<1>3. \A m \in Nat : IsFiniteSet(Opening(m)) /\ IsFiniteSet(Closing(m))
                     /\ Cardinality(Opening(m)) \in Nat /\ Cardinality(Closing(m)) \in Nat
  <2> SUFFICES ASSUME NEW m \in Nat PROVE IsFiniteSet(Opening(m)) /\ IsFiniteSet(Closing(m))
    BY FS_CardinalityType
  <2>1. IsFiniteSet(1 .. m)
    BY FS_Interval
  <2>2. Opening(m) \subseteq 1 .. m /\ Closing(m) \subseteq 1 .. m
    OBVIOUS
  <2> QED
    BY <2>1, <2>2, FS_Subset
<1>4. ASSUME NEW m \in 1 .. n
      PROVE  /\ Cardinality(Opening(m)) = Cardinality(Opening(m - 1)) + (IF text[m].op \in Openers THEN 1 ELSE 0)
             /\ Cardinality(Closing(m)) = Cardinality(Closing(m - 1)) + (IF text[m].op \in Closers THEN 1 ELSE 0)
  <2>1. m \in Nat /\ m - 1 \in Nat /\ 1 .. m = (1 .. m - 1) \cup {m} /\ m \notin 1 .. m - 1
    BY <1>1
  <2>2. /\ text[m].op \in Openers => Opening(m) = Opening(m - 1) \cup {m}
        /\ text[m].op \notin Openers => Opening(m) = Opening(m - 1)
        /\ text[m].op \in Closers => Closing(m) = Closing(m - 1) \cup {m}
        /\ text[m].op \notin Closers => Closing(m) = Closing(m - 1)
        /\ m \notin Opening(m - 1) /\ m \notin Closing(m - 1)
    BY <2>1
  <2>3. /\ IsFiniteSet(Opening(m - 1)) /\ IsFiniteSet(Closing(m - 1))
        /\ Cardinality(Opening(m - 1)) \in Nat /\ Cardinality(Closing(m - 1)) \in Nat
    BY <1>3, <2>1
  <2> HIDE DEF Opening, Closing
  <2>4. /\ Cardinality(Opening(m - 1) \cup {m}) = Cardinality(Opening(m - 1)) + 1
        /\ Cardinality(Closing(m - 1) \cup {m}) = Cardinality(Closing(m - 1)) + 1
    BY <2>2, <2>3, FS_AddElement
  <2>5. Cardinality(Opening(m)) = Cardinality(Opening(m - 1)) + (IF text[m].op \in Openers THEN 1 ELSE 0)
    <3>1. CASE text[m].op \in Openers
      BY <2>2, <2>4, <3>1
    <3>2. CASE text[m].op \notin Openers
      BY <2>2, <2>3, <3>2
    <3> QED
      BY <3>1, <3>2
  <2>6. Cardinality(Closing(m)) = Cardinality(Closing(m - 1)) + (IF text[m].op \in Closers THEN 1 ELSE 0)
    <3>1. CASE text[m].op \in Closers
      BY <2>2, <2>4, <3>1
    <3>2. CASE text[m].op \notin Closers
      BY <2>2, <2>3, <3>2
    <3> QED
      BY <3>1, <3>2
  <2> QED
    BY <2>5, <2>6
<1>5. Bad = {}
  <2> SUFFICES ASSUME Bad # {} PROVE FALSE
    OBVIOUS
  <2>1. PICK m \in Bad : \A l \in Bad : m <= l
    <3>1. Bad \in SUBSET Nat
      OBVIOUS
    <3> HIDE DEF Bad
    <3> QED
      BY <3>1, LeastNatural
  <2>2. m \in Nat /\ m <= n /\ ~(Cardinality(Opening(m)) = Cardinality(Closing(m)) + Len(g[m]))
    OBVIOUS
  <2>3. m # 0
    <3> SUFFICES ASSUME m = 0 PROVE FALSE
      OBVIOUS
    <3>1. Opening(0) = {} /\ Closing(0) = {}
      OBVIOUS
    <3>2. Cardinality({}) = 0
      BY FS_EmptySet
    <3> HIDE DEF Opening, Closing
    <3>3. Cardinality(Opening(m)) = 0 /\ Cardinality(Closing(m)) = 0 /\ Len(g[m]) = 0
      BY <1>2, <3>1, <3>2
    <3> QED
      BY <2>2, <3>3
  <2>4. m \in 1 .. n /\ m - 1 \in Nat /\ m - 1 <= n /\ ~(m <= m - 1) /\ m \in 0 .. n /\ m - 1 \in 0 .. n
    BY <1>1, <2>2, <2>3
  <2>5. Cardinality(Opening(m - 1)) = Cardinality(Closing(m - 1)) + Len(g[m - 1])
    BY <2>1, <2>4
  <2> HIDE DEF Opening, Closing, Bad
  <2>6. /\ Cardinality(Opening(m)) \in Nat /\ Cardinality(Closing(m)) \in Nat
        /\ Cardinality(Opening(m - 1)) \in Nat /\ Cardinality(Closing(m - 1)) \in Nat
        /\ Len(g[m]) \in Nat /\ Len(g[m - 1]) \in Nat
    BY <1>2, <1>3, <2>2, <2>4
  <2>7. /\ Cardinality(Opening(m)) = Cardinality(Opening(m - 1)) + (IF text[m].op \in Openers THEN 1 ELSE 0)
        /\ Cardinality(Closing(m)) = Cardinality(Closing(m - 1)) + (IF text[m].op \in Closers THEN 1 ELSE 0)
    BY <1>4, <2>4
  <2>8. /\ text[m].op \in Openers => text[m].op \notin Closers /\ Len(g[m]) = Len(g[m - 1]) + 1
        /\ text[m].op \in Closers => Len(g[m]) = Len(g[m - 1]) - 1
        /\ text[m].op \notin Openers \cup Closers => Len(g[m]) = Len(g[m - 1])
    BY <1>2, <2>4
  <2>9. Cardinality(Opening(m)) = Cardinality(Closing(m)) + Len(g[m])
    <3>1. CASE text[m].op \in Openers
      BY <2>5, <2>6, <2>7, <2>8, <3>1
    <3>2. CASE text[m].op \in Closers
      <4>1. text[m].op \notin Openers
        BY <2>8, <3>2
      <4> QED
        BY <2>5, <2>6, <2>7, <2>8, <3>2, <4>1
    <3>3. CASE text[m].op \notin Openers \cup Closers
      BY <2>5, <2>6, <2>7, <2>8, <3>3
    <3> QED
      BY <3>1, <3>2, <3>3
  <2> QED
    BY <2>2, <2>9
<1>6. Cardinality(Opening(n)) = Cardinality(Closing(n)) + Len(g[n]) /\ Cardinality(Closing(n)) \in Nat
  <2>1. n <= n /\ n \in Nat
    BY <1>1
  <2>2. n \notin Bad
    BY <1>5
  <2> QED
    BY <1>3, <2>1, <2>2
<1>7. Cardinality(Opening(n)) = Cardinality(Closing(n))
  <2> HIDE DEF Opening, Closing
  <2> QED
    BY <1>2, <1>6
<1> QED
  BY <1>1, <1>7

\* A program which is read from its beginning to its end is well formed.
LEMMA ScannedTextIsWellFormed ==
  ASSUME NEW text \in Seq(Texts), Scans(Written(text), <<>>, <<>>)
  PROVE  IsWellFormed(text)
<1>1. PICK g : Nests(text, g)
  BY ScannedTextNests
<1>2. DOMAIN text = 1 .. Len(text) /\ Breakable \in SUBSET Openers /\ Loops \in SUBSET Openers
  BY DEF Openers, Breakable
<1>3. ASSUME NEW k \in 1 .. Len(text)
      PROVE  /\ text[k].op \in {"break", "test"} => Around(text, k, Breakable) # 0
             /\ text[k].op = "continue" => Around(text, k, Loops) # 0
             /\ text[k].op \in Openers => CloserOf(text, k) <= Len(text)
  <2>1. g[k - 1] \in Stacks /\ g[k] \in Stacks /\ TokenStep(text[k], g[k - 1], g[k])
    BY <1>1, NestingSteps DEF Nests
  <2>2. /\ text[k].op \in {"break", "test"} => Holds(g[k - 1], Breakable)
        /\ text[k].op = "continue" => Holds(g[k - 1], Loops)
    BY <2>1, TokenDepth
  <2>3. /\ text[k].op \in {"break", "test"} => Around(text, k, Breakable) # 0
        /\ text[k].op = "continue" => Around(text, k, Loops) # 0
    BY <1>1, <1>2, <2>2, OpenScopeIsAround
  <2>4. text[k].op \in Openers => CloserOf(text, k) <= Len(text)
    BY <1>1, ScopesEnd
  <2> QED
    BY <2>3, <2>4
<1>4. Cardinality({k \in DOMAIN text : text[k].op \in Openers})
        = Cardinality({k \in DOMAIN text : text[k].op \in Closers})
  BY <1>1, ScopesBalance
<1> QED
  BY <1>2, <1>3, <1>4 DEF IsWellFormed

-------------------------------------------------------------------------------
(* The theorem.                                                            *)

\* The CFG is built as Spec says.
LEMMA StructurizerBuildsCFG == StructurizerSpec => Spec
<1>1. StructurizerInit => Init
  BY DEF StructurizerInit
<1>2. [StructurizerNext]_structurizer_vars => [Next]_vars
  <2> SUFFICES ASSUME [StructurizerNext]_structurizer_vars PROVE [Next]_vars
    OBVIOUS
  <2>1. CASE BuildCFG
    BY <2>1 DEF BuildCFG
  <2>2. CASE BeginEmission
    BY <2>2 DEF BeginEmission
  <2>3. CASE Emit
    <3>1. given' = given
      BY <2>3 DEF Emit, emit_block_chain, branch, branch_to_continue, emit_next_block, EndLoop, EndDo,
                  LeaveSwitch, FlushEdge, SetFallthrough, SetComplex, Recompile, Finish
    <3> QED
      BY <3>1 DEF given
  <2>4. CASE Execute
    <3>1. given' = given
      BY <2>4 DEF Execute, RunStatements, Decide, Select, Jump, Exit
    <3> QED
      BY <3>1 DEF given
  <2>5. CASE UNCHANGED structurizer_vars
    BY <2>5 DEF structurizer_vars, given
  <2> QED
    BY <2>1, <2>2, <2>3, <2>4, <2>5 DEF StructurizerNext
<1> QED
  BY <1>1, <1>2, PTL DEF StructurizerSpec, Spec

\* The rules are about the function, which stays the same.
LEMMA EntriesInvariance ==
  Spec /\ ConstructsHaveOneEntry(func) /\ SwitchesHaveMerges(func)
    => [](ConstructsHaveOneEntry(func) /\ SwitchesHaveMerges(func))
<1>1. ConstructsHaveOneEntry(func) /\ SwitchesHaveMerges(func) /\ [Next]_vars
        => (ConstructsHaveOneEntry(func) /\ SwitchesHaveMerges(func))'
  <2> SUFFICES ASSUME ConstructsHaveOneEntry(func), SwitchesHaveMerges(func), [Next]_vars
               PROVE  (ConstructsHaveOneEntry(func) /\ SwitchesHaveMerges(func))'
    OBVIOUS
  <2>1. func' = func
    BY FuncKept
  <2> QED
    BY <2>1 DEF ConstructsHaveOneEntry, SwitchesHaveMerges, ConstructOf, StructuralFlowOf
<1> QED
  BY <1>1, PTL DEF Spec

\* What the emission takes for granted of a function.
EmissionRules ==
  /\ FollowsRules(func) /\ LoopsAreClosed(func) /\ BackEdgesStayInLoops(func) /\ TargetsAreUnique(func)
  /\ ConstructsHaveOneEntry(func) /\ SwitchesHaveMerges(func)
  /\ \A f \in SourcesOf(func) : LoopsAreKept(f)

LEMMA JumpsInvariance == StructurizerSpec /\ EmissionRules => []JumpsInv
<1>1. StructurizerSpec /\ EmissionRules => []CFGFacts
  <2>1. EmissionRules => /\ FollowsRules(func) /\ LoopsAreClosed(func) /\ BackEdgesStayInLoops(func)
                         /\ TargetsAreUnique(func) /\ ConstructsHaveOneEntry(func) /\ SwitchesHaveMerges(func)
    BY DEF EmissionRules
  <2>2. /\ IInv /\ DomInv /\ UnnumberedInv /\ StructureInv /\ PrecedingInv
        /\ LoopsAreClosed(func) /\ BackEdgesStayInLoops(func) /\ TargetsAreUnique(func)
        /\ ConstructsHaveOneEntry(func) /\ SwitchesHaveMerges(func)
      => CFGFacts
    BY DEF CFGFacts
  <2> QED
    BY <2>1, <2>2, StructurizerBuildsCFG, Invariance, DomInvariance, UnnumberedInvariance, StructureInvariance,
       PrecedingInvariance, ClosedInvariance, BackEdgesInvariance, UniqueInvariance, EntriesInvariance, PTL
<1>2. StructurizerInit /\ EmissionRules => JumpsInv
  BY JumpsInit DEF EmissionRules
<1> QED
  BY <1>1, <1>2, JumpsStep, PTL DEF StructurizerSpec

\* Every break of the program is in a loop or a switch, every continue in a loop, and every
\* scope which begin_scope opens is closed: for every function which follows the rules,
\* whatever is in its blocks, and however many passes it takes.
THEOREM JumpsAlwaysHaveTargets == StructurizerSpec /\ EmissionRules => []JumpsHaveTargets
<1>1. JumpsInv => JumpsHaveTargets
  BY ScannedTextIsWellFormed DEF JumpsInv, JumpsHaveTargets
<1> QED
  BY <1>1, JumpsInvariance, PTL

===============================================================================
