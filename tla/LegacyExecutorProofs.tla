------------------------ MODULE LegacyExecutorProofs ------------------------
(***************************************************************************)
(* Proofs about LegacyExecutor.                                            *)
(*                                                                         *)
(* Of every workflow: the types (TypeCorrect), max_concurrency             *)
(* (WidthsHold) and that the scheduler never waits in vain                 *)
(* (NeverWaitsInVain).  Of every structured workflow: JoinsAndLoops and    *)
(* ResumesRepeatNothing.  Of every complete one: RunsToTheEnd.  Structured *)
(* and Complete are defined in LegacyExecutor.                             *)
(*                                                                         *)
(* The queue is put together by joining sequences (Flat), and what runs    *)
(* again after a resume by going down the edges step by step (Below).      *)
(* Where induction over their lengths is needed, the proofs take a least   *)
(* counterexample (LeastNumber) instead.                                   *)
(***************************************************************************)
EXTENDS LegacyExecutor, FiniteSetTheorems, WellFoundedInduction, TLAPS

\* The loop or for_each node that a node is part of, NULL if of none.
CONSTANT Inside

-----------------------------------------------------------------------------
(* Sequences that are put together of others.                              *)

\* A nonempty set of numbers has a least one.
LEMMA LeastNumber ==
  ASSUME NEW T, T \subseteq Nat, T # {}
  PROVE  \E x \in T : \A y \in T : x <= y
<1> DEFINE R == OpToRel(<, Nat)
<1>1. IsWellFoundedOn(R, Nat)
  BY NatLessThanWellFounded
<1>2. \A x, y \in Nat : y < x => <<y, x>> \in R
  BY DEF OpToRel
<1> HIDE DEF R
<1>3. PICK x \in T : \A y \in T : <<y, x>> \notin R
  BY <1>1, WFMin
<1>4. ASSUME NEW y \in T PROVE x <= y
  <2>1. x \in Nat /\ y \in Nat
    OBVIOUS
  <2>2. ~(y < x)
    BY <1>2, <1>3, <2>1
  <2> QED
    BY <2>1, <2>2
<1> QED
  BY <1>4

\* What holds of 0 and of every number after one of which it holds, holds up to n.
LEMMA UpTo ==
  ASSUME NEW n \in Nat, NEW P, 0 \in P,
         \A k \in 0 .. n : k \in P /\ k # n => k + 1 \in P
  PROVE  \A k \in 0 .. n : k \in P
<1> SUFFICES ASSUME NEW k \in 0 .. n, k \notin P PROVE FALSE
  OBVIOUS
<1> DEFINE T == {i \in 0 .. n : i \notin P}
<1>1. T \subseteq Nat /\ T # {}
  OBVIOUS
<1>2. PICK m \in T : \A y \in T : m <= y
  BY <1>1, LeastNumber
<1>3. m # 0 /\ m \in 0 .. n /\ m \notin P
  BY <1>2
<1>4. m - 1 \in 0 .. n /\ m - 1 # n /\ ~(m <= m - 1)
  BY <1>3
<1>5. m - 1 \in P
  BY <1>2, <1>4
<1>6. (m - 1) + 1 \in P
  BY <1>4, <1>5
<1> QED
  BY <1>3, <1>6

\* What it is to be an element.
LEMMA InElements == \A s, x : x \in Elements(s) <=> \E i \in 1 .. Len(s) : x = s[i]
BY DEF Elements

\* No element is there twice.
OneToOne(s) == \A i, j \in 1 .. Len(s) : s[i] = s[j] => i = j

\* The concatenations of the first sequences of ss, as far as the m-th.
Chain(f, ss, S, m) ==
  /\ f \in [0 .. m -> Seq(S)]
  /\ f[0] = <<>>
  /\ \A k \in 1 .. m : f[k] = f[k - 1] \o ss[k]

\* What is put together of the first k goes on to the first k + 1.
LEMMA ChainGrows ==
  ASSUME NEW S, NEW ss \in Seq(Seq(S)), NEW k \in Nat, k + 1 \in 1 .. Len(ss),
         NEW f, Chain(f, ss, S, k)
  PROVE  \E g : Chain(g, ss, S, k + 1)
<1> DEFINE g == [i \in 0 .. k + 1 |-> IF i = k + 1 THEN f[k] \o ss[k + 1] ELSE f[i]]
<1>1. f[k] \in Seq(S) /\ ss[k + 1] \in Seq(S) /\ f[0] = <<>>
  BY DEF Chain
<1>2. f[k] \o ss[k + 1] \in Seq(S)
  BY <1>1
<1>3. g \in [0 .. k + 1 -> Seq(S)]
  BY <1>2 DEF Chain
<1>4. g[0] = <<>>
  BY <1>1
<1>5. ASSUME NEW i \in 1 .. k + 1 PROVE g[i] = g[i - 1] \o ss[i]
  <2>1. CASE i = k + 1
    <3>1. k \in 0 .. k + 1 /\ k # k + 1 /\ k + 1 \in 0 .. k + 1 /\ i - 1 = k
      BY <2>1
    <3>2. g[k] = f[k] /\ g[k + 1] = f[k] \o ss[k + 1]
      BY <3>1
    <3> HIDE DEF g
    <3> QED
      BY <2>1, <3>1, <3>2
  <2>2. CASE i # k + 1
    <3>1. i \in 1 .. k /\ i - 1 \in 0 .. k + 1 /\ i - 1 # k + 1 /\ i \in 0 .. k + 1
      BY <2>2
    <3>2. g[i - 1] = f[i - 1] /\ g[i] = f[i]
      BY <2>2, <3>1
    <3> HIDE DEF g
    <3> QED
      BY <3>1, <3>2 DEF Chain
  <2> QED
    BY <2>1, <2>2
<1> QED
  BY <1>3, <1>4, <1>5 DEF Chain

\* Flat concatenates: it is the last of a chain of sequences.
LEMMA FlatChain ==
  ASSUME NEW S, NEW ss \in Seq(Seq(S))
  PROVE  \E f : Chain(f, ss, S, Len(ss)) /\ Flat(ss) = f[Len(ss)]
<1> DEFINE n == Len(ss)
           P == {m \in 0 .. n : \E f : Chain(f, ss, S, m)}
<1>1. n \in Nat
  OBVIOUS
<1>2. 0 \in P
  <2> DEFINE f == [k \in 0 .. 0 |-> <<>>]
  <2>1. f[0] = <<>> /\ f \in [0 .. 0 -> Seq(S)]
    OBVIOUS
  <2> HIDE DEF f
  <2>2. Chain(f, ss, S, 0)
    BY <2>1 DEF Chain
  <2> QED
    BY <1>1, <2>2
<1>3. ASSUME NEW k \in 0 .. n, k \in P, k # n PROVE k + 1 \in P
  <2>1. PICK f : Chain(f, ss, S, k)
    BY <1>3
  <2>2. k + 1 \in 1 .. n /\ k \in Nat /\ k + 1 \in 0 .. n
    BY <1>1, <1>3
  <2>3. \E g : Chain(g, ss, S, k + 1)
    BY <2>1, <2>2, ChainGrows
  <2> QED
    BY <2>2, <2>3
<1>4. \A k \in 0 .. n : k \in P
  <2> HIDE DEF P, n
  <2>1. \A k \in 0 .. n : k \in P /\ k # n => k + 1 \in P
    BY <1>3
  <2> QED
    BY <1>1, <1>2, <2>1, UpTo
<1>5. PICK f : Chain(f, ss, S, n)
  BY <1>1, <1>4
<1> DEFINE Def(h) == h = [k \in 0 .. n |-> IF k = 0 THEN <<>> ELSE h[k - 1] \o ss[k]]
           h == CHOOSE g : Def(g)
<1>6. Def(f)
  BY <1>5 DEF Chain
<1>7. Def(h)
  BY <1>6
<1>8. Flat(ss) = h[n]
  BY DEF Flat
<1> HIDE DEF h
<1>9. DOMAIN h = 0 .. n /\ h[0] = <<>> /\ \A k \in 1 .. n : h[k] = h[k - 1] \o ss[k]
  <2>1. DOMAIN h = 0 .. n
    BY <1>7
  <2>2. \A k \in 0 .. n : h[k] = IF k = 0 THEN <<>> ELSE h[k - 1] \o ss[k]
    BY <1>7
  <2> QED
    BY <1>1, <2>1, <2>2
<1>10. h \in [0 .. n -> Seq(S)]
  <2> DEFINE Q == {m \in 0 .. n : h[m] \in Seq(S)}
  <2>1. 0 \in Q
    <3>1. 0 \in 0 .. n /\ h[0] = <<>> /\ <<>> \in Seq(S)
      BY <1>1, <1>9
    <3> QED
      BY <3>1
  <2>2. ASSUME NEW k \in 0 .. n, k \in Q, k # n PROVE k + 1 \in Q
    <3>1. k + 1 \in 1 .. n /\ k + 1 \in 0 .. n /\ (k + 1) - 1 = k
      BY <1>1, <2>2
    <3>2. h[k + 1] = h[k] \o ss[k + 1]
      BY <1>9, <3>1
    <3>3. h[k] \in Seq(S) /\ ss[k + 1] \in Seq(S)
      BY <2>2, <3>1
    <3>4. h[k + 1] \in Seq(S)
      BY <3>2, <3>3
    <3> QED
      BY <3>1, <3>4
  <2>3. \A k \in 0 .. n : k \in Q
    <3> HIDE DEF Q, n
    <3>1. \A k \in 0 .. n : k \in Q /\ k # n => k + 1 \in Q
      BY <2>2
    <3> QED
      BY <1>1, <2>1, <3>1, UpTo
  <2>4. h = [k \in 0 .. n |-> h[k]]
    BY <1>7, <1>9
  <2> QED
    BY <2>3, <2>4
<1>11. Chain(h, ss, S, n)
  BY <1>9, <1>10 DEF Chain
<1> QED
  BY <1>8, <1>11

\* The elements of a concatenation.
LEMMA ConcatElements ==
  ASSUME NEW S, NEW s \in Seq(S), NEW u \in Seq(S)
  PROVE  /\ s \o u \in Seq(S)
         /\ Elements(s \o u) = Elements(s) \union Elements(u)
<1>1. s \o u \in Seq(S) /\ Len(s) \in Nat /\ Len(u) \in Nat /\ Len(s \o u) = Len(s) + Len(u)
  OBVIOUS
<1>2. \A i \in 1 .. Len(s) : (s \o u)[i] = s[i]
  OBVIOUS
<1>3. \A i \in 1 .. Len(u) : (s \o u)[Len(s) + i] = u[i]
  OBVIOUS
<1>4. ASSUME NEW i \in 1 .. Len(s \o u) PROVE (s \o u)[i] \in Elements(s) \union Elements(u)
  <2>1. CASE i \in 1 .. Len(s)
    BY <1>2, <2>1 DEF Elements
  <2>2. CASE i \notin 1 .. Len(s)
    <3>1. i - Len(s) \in 1 .. Len(u) /\ i = Len(s) + (i - Len(s))
      BY <1>1, <2>2
    <3>2. (s \o u)[i] = u[i - Len(s)]
      BY <1>3, <3>1
    <3> QED
      BY <3>1, <3>2 DEF Elements
  <2> QED
    BY <2>1, <2>2
<1>5. ASSUME NEW i \in 1 .. Len(s) PROVE s[i] \in Elements(s \o u)
  <2>1. i \in 1 .. Len(s \o u)
    BY <1>1
  <2> QED
    BY <1>2, <2>1 DEF Elements
<1>6. ASSUME NEW i \in 1 .. Len(u) PROVE u[i] \in Elements(s \o u)
  <2>1. Len(s) + i \in 1 .. Len(s \o u)
    BY <1>1
  <2> QED
    BY <1>3, <2>1 DEF Elements
<1> QED
  BY <1>1, <1>4, <1>5, <1>6 DEF Elements

\* A concatenation repeats nothing if neither part does and they have nothing in common.
LEMMA ConcatOneToOne ==
  ASSUME NEW S, NEW s \in Seq(S), NEW u \in Seq(S), OneToOne(s), OneToOne(u),
         Elements(s) \intersect Elements(u) = {}
  PROVE  OneToOne(s \o u)
<1>1. s \o u \in Seq(S) /\ Len(s) \in Nat /\ Len(u) \in Nat /\ Len(s \o u) = Len(s) + Len(u)
  OBVIOUS
<1>2. \A i \in 1 .. Len(s) : (s \o u)[i] = s[i] /\ s[i] \in Elements(s)
  BY DEF Elements
<1>3. \A i \in 1 .. Len(u) : (s \o u)[Len(s) + i] = u[i]
  OBVIOUS
<1>4. ASSUME NEW i \in 1 .. Len(s \o u), i \notin 1 .. Len(s)
      PROVE  i - Len(s) \in 1 .. Len(u) /\ (s \o u)[i] = u[i - Len(s)] /\ u[i - Len(s)] \in Elements(u)
  <2>1. i - Len(s) \in 1 .. Len(u) /\ i = Len(s) + (i - Len(s))
    BY <1>1, <1>4
  <2> QED
    BY <1>3, <2>1 DEF Elements
<1> SUFFICES ASSUME NEW i \in 1 .. Len(s \o u), NEW j \in 1 .. Len(s \o u), (s \o u)[i] = (s \o u)[j]
             PROVE  i = j
  BY DEF OneToOne
<1>5. CASE i \in 1 .. Len(s) /\ j \in 1 .. Len(s)
  BY <1>2, <1>5 DEF OneToOne
<1>6. CASE i \notin 1 .. Len(s) /\ j \notin 1 .. Len(s)
  <2>1. i - Len(s) = j - Len(s)
    BY <1>4, <1>6 DEF OneToOne
  <2> QED
    BY <1>1, <2>1
<1>7. CASE i \in 1 .. Len(s) /\ j \notin 1 .. Len(s)
  BY <1>2, <1>4, <1>7
<1>8. CASE i \notin 1 .. Len(s) /\ j \in 1 .. Len(s)
  BY <1>2, <1>4, <1>8
<1> QED
  BY <1>5, <1>6, <1>7, <1>8

\* What Flat makes of sequences: it has their elements, and repeats none of them if
\* none of them does and no two have anything in common.
LEMMA FlatIs ==
  ASSUME NEW S, NEW ss \in Seq(Seq(S))
  PROVE  /\ Flat(ss) \in Seq(S)
         /\ Elements(Flat(ss)) = UNION {Elements(ss[k]) : k \in 1 .. Len(ss)}
         /\ (\A k \in 1 .. Len(ss) : OneToOne(ss[k]))
              /\ (\A j, k \in 1 .. Len(ss) : j # k => Elements(ss[j]) \intersect Elements(ss[k]) = {})
            => OneToOne(Flat(ss))
<1> DEFINE n == Len(ss)
           Apart == /\ \A k \in 1 .. n : OneToOne(ss[k])
                    /\ \A j, k \in 1 .. n : j # k => Elements(ss[j]) \intersect Elements(ss[k]) = {}
<1>1. PICK f : Chain(f, ss, S, n) /\ Flat(ss) = f[n]
  BY FlatChain
<1>2. n \in Nat /\ \A k \in 0 .. n : f[k] \in Seq(S)
  <2>1. f \in [0 .. n -> Seq(S)]
    BY <1>1, Zenon DEF Chain
  <2> QED
    BY <2>1
<1>3. f[0] = <<>> /\ \A k \in 1 .. n : f[k] = f[k - 1] \o ss[k]
  BY <1>1, Zenon DEF Chain
<1> DEFINE P == {k \in 0 .. n : /\ Elements(f[k]) = UNION {Elements(ss[j]) : j \in 1 .. k}
                                /\ Apart => OneToOne(f[k])}
<1>4. 0 \in P
  <2>1. Elements(<<>>) = {} /\ OneToOne(<<>>)
    BY DEF Elements, OneToOne
  <2>2. UNION {Elements(ss[j]) : j \in 1 .. 0} = {}
    OBVIOUS
  <2>3. 0 \in 0 .. n
    BY <1>2
  <2> HIDE DEF Apart, n
  <2> QED
    BY <1>3, <2>1, <2>2, <2>3
<1>5. ASSUME NEW k \in 0 .. n, k \in P, k # n PROVE k + 1 \in P
  <2>1. k \in Nat /\ k + 1 \in 1 .. n /\ k + 1 \in 0 .. n /\ (k + 1) - 1 = k
    BY <1>2, <1>5
  <2>2. f[k + 1] = f[k] \o ss[k + 1] /\ f[k] \in Seq(S) /\ ss[k + 1] \in Seq(S)
    <3>1. f[k + 1] = f[(k + 1) - 1] \o ss[k + 1]
      BY <1>3, <2>1, Zenon
    <3>2. f[k] \in Seq(S) /\ ss[k + 1] \in Seq(S)
      BY <1>2, <2>1
    <3> QED
      BY <2>1, <3>1, <3>2, Zenon
  <2>3. Elements(f[k]) = UNION {Elements(ss[j]) : j \in 1 .. k} /\ (Apart => OneToOne(f[k]))
    BY <1>5
  <2>4. Elements(f[k + 1]) = Elements(f[k]) \union Elements(ss[k + 1])
    BY <2>2, ConcatElements
  <2>5. \A j \in 1 .. k : j \in 1 .. n /\ j # k + 1
    BY <2>1
  <2>6. \A j : j \in 1 .. k + 1 <=> (j \in 1 .. k \/ j = k + 1)
    BY <2>1
  <2>7. Elements(f[k + 1]) = UNION {Elements(ss[j]) : j \in 1 .. k + 1}
    <3> HIDE DEF Apart
    <3> QED
      BY <2>3, <2>4, <2>6
  <2>8. ASSUME Apart PROVE OneToOne(f[k + 1])
    <3>1. OneToOne(f[k]) /\ OneToOne(ss[k + 1])
      BY <2>1, <2>3, <2>8
    <3>2. ASSUME NEW x \in Elements(f[k]), x \in Elements(ss[k + 1]) PROVE FALSE
      <4>1. PICK j \in 1 .. k : x \in Elements(ss[j])
        BY <2>3
      <4>2. j \in 1 .. n /\ j # k + 1 /\ k + 1 \in 1 .. n
        BY <2>1, <2>5
      <4> QED
        BY <2>8, <3>2, <4>1, <4>2
    <3>3. Elements(f[k]) \intersect Elements(ss[k + 1]) = {}
      BY <3>2
    <3> QED
      BY <2>2, <3>1, <3>3, ConcatOneToOne
  <2> HIDE DEF Apart, n
  <2> QED
    BY <2>1, <2>7, <2>8
<1>6. n \in P
  <2> HIDE DEF P, n
  <2>1. \A k \in 0 .. n : k \in P /\ k # n => k + 1 \in P
    BY <1>5
  <2>2. n \in 0 .. n
    BY <1>2
  <2> QED
    BY <1>2, <1>4, <2>1, <2>2, UpTo
<1>7. Flat(ss) \in Seq(S)
  BY <1>1, <1>2
<1> QED
  BY <1>1, <1>6, <1>7

\* ss has, for each element of x, that element alone if its index is in W, or nothing.
Picks(S, W, x, ss) ==
  /\ x \in Seq(S)
  /\ ss \in [1 .. Len(x) -> Seq(S)]
  /\ \A i \in 1 .. Len(x) : ss[i] = IF i \in W THEN <<x[i]>> ELSE <<>>

\* s holds the elements of x at the positions W, each once if x does.
Picked(S, W, x, s) ==
  /\ s \in Seq(S)
  /\ \A y : y \in Elements(s) <=> \E i \in 1 .. Len(x) : i \in W /\ y = x[i]
  /\ (\A i, j \in 1 .. Len(x) : i \in W /\ j \in W /\ x[i] = x[j] => i = j) => OneToOne(s)

\* Choosing from the elements of a sequence.
LEMMA Chosen ==
  \A S, W, x, ss : Picks(S, W, x, ss) => Picked(S, W, x, Flat(ss))
<1> SUFFICES ASSUME NEW S, NEW W, NEW x, NEW ss, Picks(S, W, x, ss)
             PROVE  Picked(S, W, x, Flat(ss))
  OBVIOUS
<1> DEFINE n == Len(x)
<1>0. /\ x \in Seq(S) /\ n \in Nat /\ ss \in [1 .. n -> Seq(S)]
      /\ \A i \in 1 .. n : ss[i] = IF i \in W THEN <<x[i]>> ELSE <<>>
  BY DEF Picks
<1> HIDE DEF n
<1>1. \A y : Elements(<<y>>) = {y} /\ OneToOne(<<y>>)
  BY DEF Elements, OneToOne
<1>2. Elements(<<>>) = {} /\ OneToOne(<<>>)
  BY DEF Elements, OneToOne
<1>3. ss \in Seq(Seq(S)) /\ Len(ss) = n
  BY <1>0
<1>4. \A i \in 1 .. n : /\ OneToOne(ss[i])
                        /\ Elements(ss[i]) = IF i \in W THEN {x[i]} ELSE {}
  BY <1>0, <1>1, <1>2
<1>5. \A y : y \in Elements(Flat(ss)) <=> \E i \in 1 .. n : i \in W /\ y = x[i]
  <2>1. Elements(Flat(ss)) = UNION {Elements(ss[k]) : k \in 1 .. n}
    BY <1>3, FlatIs
  <2>2. \A k \in 1 .. n : \A y : y \in Elements(ss[k]) <=> (k \in W /\ y = x[k])
    BY <1>4
  <2> QED
    BY <2>1, <2>2
<1>6. ASSUME \A i, j \in 1 .. n : i \in W /\ j \in W /\ x[i] = x[j] => i = j
      PROVE  OneToOne(Flat(ss))
  <2>1. \A k \in 1 .. n : \A y : y \in Elements(ss[k]) <=> (k \in W /\ y = x[k])
    BY <1>4
  <2>2. \A j, k \in 1 .. n : j # k => Elements(ss[j]) \intersect Elements(ss[k]) = {}
    BY <1>6, <2>1
  <2> QED
    BY <1>3, <1>4, <2>2, FlatIs
<1>7. Flat(ss) \in Seq(S)
  BY <1>3, FlatIs
<1> QED
  BY <1>5, <1>6, <1>7 DEF Picked, n

-----------------------------------------------------------------------------
(* The edges of a node.                                                    *)

\* An edge of the workflow.
Edge == [from : Nodes, to : Nodes, when : Conditions]

\* Edges are edges between nodes.
LEMMA EdgesTyped ==
  /\ Edges \in Seq(Edge)
  /\ Elements(Edges) \subseteq Edge
  /\ \A e, f \in Elements(Edges) : e.from = f.from /\ e.to = f.to => e = f
<1>1. Edges \in Seq(Edge)
  BY GraphAssumption DEF Edge
<1>2. Elements(Edges) \subseteq Edge
  BY <1>1 DEF Elements
<1> QED
  BY <1>1, <1>2, GraphAssumption DEF Elements

\* Fresh drops what is pending.
LEMMA FreshIs ==
  ASSUME NEW ts \in Seq(Task), NEW pending
  PROVE  /\ Fresh(ts, pending) \in Seq(Task)
         /\ Elements(Fresh(ts, pending)) = Elements(ts) \ pending
         /\ OneToOne(ts) => OneToOne(Fresh(ts, pending))
<1> DEFINE W == {i \in 1 .. Len(ts) : ts[i] \notin pending}
           ss == [i \in 1 .. Len(ts) |-> If(ts[i] \notin pending, ts[i])]
<1>1. Picks(Task, W, ts, ss)
  BY DEF If, Picks
<1>2. Fresh(ts, pending) = Flat(ss)
  BY DEF Fresh
<1>3. \A i \in 1 .. Len(ts) : i \in W <=> ts[i] \notin pending
  OBVIOUS
<1> HIDE DEF W, ss
<1>4. Picked(Task, W, ts, Fresh(ts, pending))
  BY <1>1, <1>2, Chosen
<1>5. \A y : y \in Elements(Fresh(ts, pending)) <=> y \in Elements(ts) \ pending
  BY <1>3, <1>4, InElements DEF Picked
<1> QED
  BY <1>4, <1>5 DEF OneToOne, Picked

\* What ReceiveBreak leaves in the queue.
LEMMA OutsideIs ==
  ASSUME NEW ts \in Seq(Task), NEW l
  PROVE  /\ Outside(l, ts) \in Seq(Task)
         /\ Elements(Outside(l, ts)) = {t \in Elements(ts) : t.origin # l}
         /\ OneToOne(ts) => OneToOne(Outside(l, ts))
<1> DEFINE W == {i \in 1 .. Len(ts) : ts[i].origin # l}
           ss == [i \in 1 .. Len(ts) |-> If(ts[i].origin # l, ts[i])]
<1>1. Picks(Task, W, ts, ss)
  BY DEF If, Picks
<1>2. Outside(l, ts) = Flat(ss)
  BY DEF Outside
<1>3. \A i \in 1 .. Len(ts) : i \in W <=> ts[i].origin # l
  OBVIOUS
<1> HIDE DEF W, ss
<1>4. Picked(Task, W, ts, Outside(l, ts))
  BY <1>1, <1>2, Chosen
<1>5. \A y : y \in Elements(Outside(l, ts)) <=> y \in Elements(ts) /\ y.origin # l
  BY <1>3, <1>4, InElements DEF Picked
<1> QED
  BY <1>4, <1>5 DEF OneToOne, Picked

\* The edges of a node, in their order.
LEMMA EdgesFromIs ==
  ASSUME NEW n \in Nodes
  PROVE  /\ EdgesFrom(n) \in Seq(Edge)
         /\ Elements(EdgesFrom(n)) = {e \in Elements(Edges) : e.from = n}
         /\ OneToOne(EdgesFrom(n))
         /\ \A i, j \in 1 .. Len(EdgesFrom(n)) : EdgesFrom(n)[i].to = EdgesFrom(n)[j].to => i = j
<1> DEFINE W == {k \in 1 .. Len(Edges) : Edges[k].from = n}
           ss == [k \in 1 .. Len(Edges) |-> If(Edges[k].from = n, Edges[k])]
<1>1. Picks(Edge, W, Edges, ss)
  BY EdgesTyped DEF If, Picks
<1>2. EdgesFrom(n) = Flat(ss)
  BY DEF EdgesFrom, Outgoing
<1>3. \A k \in 1 .. Len(Edges) : k \in W <=> Edges[k].from = n
  OBVIOUS
<1> HIDE DEF W, ss
<1>4. Picked(Edge, W, Edges, EdgesFrom(n))
  BY <1>1, <1>2, Chosen
<1>5. \A y : y \in Elements(EdgesFrom(n)) <=> y \in Elements(Edges) /\ y.from = n
  BY <1>3, <1>4, InElements DEF Picked
<1>6. Elements(EdgesFrom(n)) = {e \in Elements(Edges) : e.from = n}
  BY <1>5
<1>7. OneToOne(EdgesFrom(n))
  BY <1>4, GraphAssumption DEF Picked
<1>8. ASSUME NEW i \in 1 .. Len(EdgesFrom(n)), NEW j \in 1 .. Len(EdgesFrom(n)),
             EdgesFrom(n)[i].to = EdgesFrom(n)[j].to
      PROVE  i = j
  <2>1. EdgesFrom(n)[i] \in Elements(EdgesFrom(n)) /\ EdgesFrom(n)[j] \in Elements(EdgesFrom(n))
    BY DEF Elements
  <2>2. EdgesFrom(n)[i] = EdgesFrom(n)[j]
    BY <1>6, <1>8, <2>1, EdgesTyped
  <2> QED
    BY <1>7, <2>2 DEF OneToOne
<1> QED
  BY <1>4, <1>6, <1>7, <1>8 DEF Picked

\* Each of the tasks once.
LEMMA UniqueIs ==
  ASSUME NEW ts \in Seq(Task)
  PROVE  Unique(ts) \in Seq(Task) /\ Elements(Unique(ts)) = Elements(ts) /\ OneToOne(Unique(ts))
<1> DEFINE W == {i \in 1 .. Len(ts) : \A j \in 1 .. i - 1 : ts[j] # ts[i]}
           ss == [i \in 1 .. Len(ts) |-> If(\A j \in 1 .. i - 1 : ts[j] # ts[i], ts[i])]
<1>1. Picks(Task, W, ts, ss)
  BY DEF If, Picks
<1>2. Unique(ts) = Flat(ss)
  BY DEF Unique
<1>3. \A i \in 1 .. Len(ts) : i \in W <=> \A j \in 1 .. i - 1 : ts[j] # ts[i]
  OBVIOUS
<1> HIDE DEF W, ss
<1>4. Picked(Task, W, ts, Unique(ts))
  BY <1>1, <1>2, Chosen
<1>6. ASSUME NEW k \in 1 .. Len(ts) PROVE \E i \in 1 .. Len(ts) : i \in W /\ ts[i] = ts[k]
  <2> DEFINE T == {i \in 1 .. Len(ts) : ts[i] = ts[k]}
  <2>1. T \subseteq Nat /\ T # {}
    OBVIOUS
  <2>2. PICK m \in T : \A y \in T : m <= y
    BY <2>1, LeastNumber
  <2>3. \A j \in 1 .. m - 1 : j \in 1 .. Len(ts) /\ ~(m <= j)
    OBVIOUS
  <2>4. \A j \in 1 .. m - 1 : ts[j] # ts[m]
    BY <2>2, <2>3
  <2> QED
    BY <1>3, <2>4
<1>7. Elements(Unique(ts)) = Elements(ts)
  BY <1>4, <1>6 DEF Elements, Picked
<1>8. ASSUME NEW i \in 1 .. Len(ts), NEW j \in 1 .. Len(ts), i \in W, j \in W, ts[i] = ts[j] PROVE i = j
  <2>1. ~(i < j)
    BY <1>3, <1>8
  <2>2. ~(j < i)
    BY <1>3, <1>8
  <2> QED
    BY <2>1, <2>2
<1> QED
  BY <1>4, <1>7, <1>8 DEF Picked

-----------------------------------------------------------------------------
(* The tasks that are queued.                                              *)

\* The empty sequence.
LEMMA EmptyIs == Elements(<<>>) = {} /\ OneToOne(<<>>) /\ Len(<<>>) = 0
BY DEF Elements, OneToOne

\* A sequence of one element.
LEMMA SingleIs == \A x : Elements(<<x>>) = {x} /\ OneToOne(<<x>>)
BY DEF Elements, OneToOne

\* NULL is neither a node nor an index.
LEMMA NullIs == NULL \notin Nodes /\ NULL \notin Nat
BY GraphAssumption

\* Of no loop.
LEMMA NoItemTyped == NoItem \in Item
BY DEF NoItem, Item

\* A task of a root is a task.
LEMMA RootTaskTyped == \A n \in Nodes : RootTask(n) \in Task
BY NoItemTyped DEF RootTask, Task

\* A task after a loop is a task.
LEMMA AfterTaskTyped == \A l, n \in Nodes : AfterTask(l, n) \in Task
BY NoItemTyped DEF AfterTask, Task

\* ss has, for each edge of n, tasks of the node the edge leads to, none of them twice.
PerEdge(n, ss) ==
  /\ ss \in [1 .. Len(EdgesFrom(n)) -> Seq(Task)]
  /\ \A k \in 1 .. Len(EdgesFrom(n)) :
       OneToOne(ss[k]) /\ \A u \in Elements(ss[k]) : u.node = EdgesFrom(n)[k].to

\* One task for each edge that is taken.
LEMMA PerEdgeIs ==
  ASSUME NEW n \in Nodes, NEW ss, PerEdge(n, ss)
  PROVE  /\ Flat(ss) \in Seq(Task)
         /\ OneToOne(Flat(ss))
         /\ \A u : u \in Elements(Flat(ss)) <=> \E k \in 1 .. Len(EdgesFrom(n)) : u \in Elements(ss[k])
<1>1. EdgesFrom(n) \in Seq(Edge) /\ \A i, j \in 1 .. Len(EdgesFrom(n)) : EdgesFrom(n)[i].to = EdgesFrom(n)[j].to => i = j
  BY EdgesFromIs
<1>2. ss \in Seq(Seq(Task)) /\ Len(ss) = Len(EdgesFrom(n))
  BY <1>1 DEF PerEdge
<1>3. \A j, k \in 1 .. Len(ss) : j # k => Elements(ss[j]) \intersect Elements(ss[k]) = {}
  BY <1>1, <1>2 DEF PerEdge
<1>4. \A k \in 1 .. Len(ss) : OneToOne(ss[k])
  BY <1>2 DEF PerEdge
<1>5. Elements(Flat(ss)) = UNION {Elements(ss[k]) : k \in 1 .. Len(ss)}
  BY <1>2, FlatIs
<1> QED
  BY <1>2, <1>3, <1>4, <1>5, FlatIs

\* The number of items a loop starts with.
Each(n) == IF Kind[n] = "infinite" THEN 1 ELSE Least(Width[n], Size[n])

\* How many items start at once.
LEMMA EachIs == \A n \in Nodes : Each(n) \in Nat /\ Least(Width[n], Size[n]) \in Nat
                                 /\ Each(n) <= Width[n] /\ Least(Width[n], Size[n]) <= Width[n]
                                 /\ Least(Width[n], Size[n]) <= Size[n]
<1> SUFFICES ASSUME NEW n \in Nodes
             PROVE Each(n) \in Nat /\ Least(Width[n], Size[n]) \in Nat
                                 /\ Each(n) <= Width[n] /\ Least(Width[n], Size[n]) <= Width[n]
                                 /\ Least(Width[n], Size[n]) <= Size[n]
  OBVIOUS
<1>1. Width[n] \in Nat \ {0} /\ Size[n] \in Nat
  BY GraphAssumption
<1> QED
  BY <1>1 DEF Each, Least

\* Edge e is taken after task t.
Taken(os, e, t, out) ==
  /\ EdgeMatches(e, out)
  /\ e.to \in AwaitAll /\ ~StartsLoop(t.node, out) => AllInputsReady(os, e.to, t.item)

\* The tasks that are queued: for an item of a loop, and after a node.
ItemTask(m, t, i) == [node |-> m, after |-> NULL, origin |-> t.node,
                      item |-> [t.item EXCEPT ![t.node] = i - 1]]
NextTask(m, t) == [node |-> m, after |-> NULL, origin |-> t.origin, item |-> t.item]

\* What is queued are tasks.
LEMMA TaskTyped ==
  ASSUME NEW t \in Task, NEW m \in Nodes
  PROVE  /\ NextTask(m, t) \in Task /\ NextTask(m, t).node = m
         /\ \A i \in Nat \ {0} : ItemTask(m, t, i) \in Task /\ ItemTask(m, t, i).node = m
<1>1. NextTask(m, t) \in Task /\ NextTask(m, t).node = m
  BY DEF NextTask, Task
<1>2. ASSUME NEW i \in Nat \ {0} PROVE ItemTask(m, t, i) \in Task /\ ItemTask(m, t, i).node = m
  <2>1. [t.item EXCEPT ![t.node] = i - 1] \in Item
    BY <1>2 DEF Task, Item
  <2> QED
    BY <2>1 DEF ItemTask, Task
<1> QED
  BY <1>1, <1>2

\* Tasks of different items are different.
LEMMA ItemTasksApart ==
  ASSUME NEW t \in Task, NEW m, NEW i \in Nat, NEW j \in Nat, ItemTask(m, t, i) = ItemTask(m, t, j)
  PROVE  i = j
<1>1. t.item \in [Nodes -> Nat \union {NULL}] /\ t.node \in Nodes
  BY DEF Task, Item
<1>2. [t.item EXCEPT ![t.node] = i - 1] = [t.item EXCEPT ![t.node] = j - 1]
  BY DEF ItemTask
<1>3. [t.item EXCEPT ![t.node] = i - 1][t.node] = i - 1 /\ [t.item EXCEPT ![t.node] = j - 1][t.node] = j - 1
  BY <1>1
<1> QED
  BY <1>2, <1>3

\* The tasks an output queues: for each edge taken, one, or one per item of a loop.
LEMMA SuccessorsAre ==
  ASSUME NEW os, NEW t \in Task, NEW out
  PROVE  /\ Successors(os, t, out) \in Seq(Task)
         /\ OneToOne(Successors(os, t, out))
         /\ \A u : u \in Elements(Successors(os, t, out)) <=>
              \E e \in Elements(Edges) :
                /\ e.from = t.node /\ Taken(os, e, t, out)
                /\ IF StartsLoop(t.node, out)
                   THEN \E i \in 1 .. Each(t.node) : u = ItemTask(e.to, t, i)
                   ELSE u = NextTask(e.to, t)
<1> DEFINE n == t.node
           es == EdgesFrom(n)
           tasks(e) == IF StartsLoop(n, out)
                       THEN [i \in 1 .. Each(n) |-> ItemTask(e.to, t, i)]
                       ELSE <<NextTask(e.to, t)>>
           ss == [k \in 1 .. Len(es) |-> IF Taken(os, es[k], t, out) THEN tasks(es[k]) ELSE <<>>]
<1>1. Successors(os, t, out) = Flat(ss)
  BY DEF Successors, Taken, ItemTask, NextTask, Each
<1>2. n \in Nodes
  BY DEF Task
<1>3. es \in Seq(Edge) /\ Elements(es) = {e \in Elements(Edges) : e.from = n}
  BY <1>2, EdgesFromIs
<1>4. ASSUME NEW k \in 1 .. Len(es)
      PROVE  /\ tasks(es[k]) \in Seq(Task) /\ OneToOne(tasks(es[k]))
             /\ \A u : u \in Elements(tasks(es[k])) <=>
                         IF StartsLoop(n, out)
                         THEN \E i \in 1 .. Each(n) : u = ItemTask(es[k].to, t, i)
                         ELSE u = NextTask(es[k].to, t)
             /\ \A u \in Elements(tasks(es[k])) : u.node = es[k].to
  <2>1. es[k].to \in Nodes
    <3> HIDE DEF es, n, tasks, ss
    <3>1. es[k] \in Edge
      BY <1>3, <1>4
    <3> QED
      BY <3>1 DEF Edge
  <2>2. Each(n) \in Nat
    BY <1>2, EachIs
  <2>3. CASE StartsLoop(n, out)
    <3> DEFINE s == [i \in 1 .. Each(n) |-> ItemTask(es[k].to, t, i)]
    <3>1. tasks(es[k]) = s
      BY <2>3
    <3> HIDE DEF tasks, n, es, ss
    <3>2. \A i \in 1 .. Each(n) : i \in Nat \ {0} /\ ItemTask(es[k].to, t, i) \in Task /\ ItemTask(es[k].to, t, i).node = es[k].to
      <4>1. \A i \in 1 .. Each(n) : i \in Nat \ {0}
        BY <2>2
      <4> QED
        BY <2>1, <4>1, TaskTyped, ZenonT(30)
    <3>3. s \in Seq(Task) /\ Len(s) = Each(n) /\ \A i \in 1 .. Each(n) : s[i] = ItemTask(es[k].to, t, i)
      BY <2>2, <3>2
    <3> HIDE DEF s
    <3>4. OneToOne(s)
      BY <3>2, <3>3, ItemTasksApart DEF OneToOne
    <3>5. \A u : u \in Elements(s) <=> \E i \in 1 .. Each(n) : u = ItemTask(es[k].to, t, i)
      BY <3>3, InElements
    <3> QED
      BY <2>3, <3>1, <3>2, <3>3, <3>4, <3>5
  <2>4. CASE ~StartsLoop(n, out)
    <3>1. tasks(es[k]) = <<NextTask(es[k].to, t)>>
      BY <2>4
    <3>2. NextTask(es[k].to, t) \in Task /\ NextTask(es[k].to, t).node = es[k].to
      BY <2>1, TaskTyped
    <3> HIDE DEF tasks, n, es
    <3>3. tasks(es[k]) \in Seq(Task)
      BY <3>1, <3>2
    <3> QED
      BY <2>4, <3>1, <3>2, <3>3, SingleIs
  <2> QED
    BY <2>3, <2>4
<1> HIDE DEF tasks, n
<1>5. \A k \in 1 .. Len(es) : ss[k] = IF Taken(os, es[k], t, out) THEN tasks(es[k]) ELSE <<>>
  OBVIOUS
<1>6. PerEdge(n, ss)
  <2>1. \A k \in 1 .. Len(es) : ss[k] \in Seq(Task) /\ OneToOne(ss[k]) /\ \A u \in Elements(ss[k]) : u.node = es[k].to
    BY <1>4, <1>5, EmptyIs
  <2> QED
    BY <2>1 DEF PerEdge
<1> HIDE DEF ss, es
<1>7. \A u : u \in Elements(Flat(ss)) <=> \E k \in 1 .. Len(es) : u \in Elements(ss[k])
  BY <1>2, <1>6, PerEdgeIs DEF es
<1>8. \A u : u \in Elements(Flat(ss)) <=> 
         \E k \in 1 .. Len(es) : Taken(os, es[k], t, out) /\ u \in Elements(tasks(es[k]))
  BY <1>5, <1>7, EmptyIs
<1>9. ASSUME NEW u
      PROVE  u \in Elements(Flat(ss)) <=>
              \E e \in Elements(es) :
                /\ Taken(os, e, t, out)
                /\ IF StartsLoop(n, out)
                   THEN \E i \in 1 .. Each(n) : u = ItemTask(e.to, t, i)
                   ELSE u = NextTask(e.to, t)
  <2> DEFINE Made(e) == IF StartsLoop(n, out)
                        THEN \E i \in 1 .. Each(n) : u = ItemTask(e.to, t, i)
                        ELSE u = NextTask(e.to, t)
  <2>1. \A k \in 1 .. Len(es) : u \in Elements(tasks(es[k])) <=> Made(es[k])
    BY <1>4
  <2>2. \A e : e \in Elements(es) <=> \E k \in 1 .. Len(es) : e = es[k]
    BY InElements
  <2> HIDE DEF Made
  <2>3. u \in Elements(Flat(ss)) <=> \E k \in 1 .. Len(es) : Taken(os, es[k], t, out) /\ Made(es[k])
    BY <1>8, <2>1
  <2>4. u \in Elements(Flat(ss)) <=> \E e \in Elements(es) : Taken(os, e, t, out) /\ Made(e)
    BY <2>2, <2>3
  <2> QED
    BY <2>4 DEF Made
<1>10. Flat(ss) \in Seq(Task) /\ OneToOne(Flat(ss))
  BY <1>2, <1>6, PerEdgeIs
<1> QED
  BY <1>1, <1>3, <1>9, <1>10 DEF n

\* The tasks that follow a loop that is over: one for each of its after edges.
LEMMA AfterLoopIs ==
  ASSUME NEW l \in Nodes
  PROVE  /\ AfterLoop(l) \in Seq(Task)
         /\ OneToOne(AfterLoop(l))
         /\ \A u : u \in Elements(AfterLoop(l)) <=>
              l \notin done /\ \E e \in Elements(Edges) : e.from = l /\ e.when = "after" /\ u = AfterTask(l, e.to)
<1> DEFINE es == EdgesFrom(l)
           ss == [k \in 1 .. Len(es) |-> If(es[k].when = "after", AfterTask(l, es[k].to))]
<1>1. CASE l \in done
  <2>1. AfterLoop(l) = <<>>
    BY <1>1 DEF AfterLoop
  <2> QED
    BY <1>1, <2>1, EmptyIs
<1>2. CASE l \notin done
  <2>1. AfterLoop(l) = Flat(ss)
    BY <1>2 DEF AfterLoop
  <2>2. es \in Seq(Edge) /\ Elements(es) = {e \in Elements(Edges) : e.from = l}
    BY EdgesFromIs
  <2>3. \A k \in 1 .. Len(es) : ss[k] = IF es[k].when = "after" THEN <<AfterTask(l, es[k].to)>> ELSE <<>>
    BY DEF If
  <2>4. PerEdge(l, ss)
    <3>1. \A k \in 1 .. Len(es) : AfterTask(l, es[k].to) \in Task /\ AfterTask(l, es[k].to).node = es[k].to
      <4> HIDE DEF es
      <4>1. \A k \in 1 .. Len(es) : es[k] \in Edge
        BY <2>2
      <4>2. \A k \in 1 .. Len(es) : es[k].to \in Nodes
        BY <4>1 DEF Edge
      <4> QED
        BY <4>2, AfterTaskTyped DEF AfterTask
    <3>2. \A k \in 1 .. Len(es) : ss[k] \in Seq(Task) /\ OneToOne(ss[k]) /\ \A u \in Elements(ss[k]) : u.node = es[k].to
      <4> HIDE DEF es, ss
      <4> SUFFICES ASSUME NEW k \in 1 .. Len(es)
                   PROVE  ss[k] \in Seq(Task) /\ OneToOne(ss[k]) /\ \A u \in Elements(ss[k]) : u.node = es[k].to
        OBVIOUS
      <4>1. CASE es[k].when = "after"
        <5>1. ss[k] = <<AfterTask(l, es[k].to)>>
          BY <2>3, <4>1
        <5> QED
          BY <3>1, <5>1, SingleIs
      <4>2. CASE ~(es[k].when = "after")
        <5>1. ss[k] = <<>>
          BY <2>3, <4>2
        <5> QED
          BY <5>1, EmptyIs
      <4> QED
        BY <4>1, <4>2
    <3> QED
      BY <3>2 DEF PerEdge
  <2> HIDE DEF ss, es
  <2>5. \A u : u \in Elements(Flat(ss)) <=> \E k \in 1 .. Len(es) : u \in Elements(ss[k])
    BY <2>4, PerEdgeIs DEF es
  <2>6. \A u : u \in Elements(Flat(ss)) <=> \E k \in 1 .. Len(es) : es[k].when = "after" /\ u = AfterTask(l, es[k].to)
    <3>1. ASSUME NEW k \in 1 .. Len(es), NEW u
          PROVE  u \in Elements(ss[k]) <=> es[k].when = "after" /\ u = AfterTask(l, es[k].to)
      <4>1. CASE es[k].when = "after"
        <5>1. ss[k] = <<AfterTask(l, es[k].to)>>
          BY <2>3, <4>1
        <5> QED
          BY <4>1, <5>1, SingleIs
      <4>2. CASE ~(es[k].when = "after")
        <5>1. ss[k] = <<>>
          BY <2>3, <4>2
        <5> QED
          BY <4>2, <5>1, EmptyIs
      <4> QED
        BY <4>1, <4>2
    <3> QED
      BY <2>5, <3>1
  <2>7. \A e : e \in Elements(es) <=> \E k \in 1 .. Len(es) : e = es[k]
    BY InElements
  <2>8. \A u : u \in Elements(Flat(ss)) <=> \E e \in Elements(es) : e.when = "after" /\ u = AfterTask(l, e.to)
    BY <2>6, <2>7
  <2> QED
    BY <1>2, <2>1, <2>2, <2>4, <2>8, PerEdgeIs
<1> QED
  BY <1>1, <1>2

\* A task of item i of the loop of t.
BodyTask(m, t, i) == [node |-> m, after |-> t.after, origin |-> t.origin,
                      item |-> [t.item EXCEPT ![t.origin] = i]]

\* The task for another item of a for_each node.
EachTask(t, i) == [node |-> t.origin, after |-> t.after, origin |-> t.origin,
                   item |-> [t.item EXCEPT ![Source[t.origin]] = i, ![t.origin] = i]]

\* A task for another item of a loop is a task.
LEMMA BodyTaskTyped ==
  ASSUME NEW t \in Task, t.origin # NULL, NEW i \in Nat
  PROVE  /\ t.origin \in Nodes
         /\ \A m \in Nodes : BodyTask(m, t, i) \in Task /\ BodyTask(m, t, i).node = m
         /\ EachTask(t, i) \in Task
<1>1. t.origin \in Nodes /\ t.item \in [Nodes -> Nat \union {NULL}] /\ t.after \in Nodes \union {NULL}
  BY DEF Task, Item
<1>2. [t.item EXCEPT ![t.origin] = i] \in Item
  BY <1>1 DEF Item
<1>3. Source[t.origin] \in Nodes
  <2>1. Source \in [Nodes -> Nodes]
    BY GraphAssumption
  <2> QED
    BY <1>1, <2>1
<1>4. [t.item EXCEPT ![Source[t.origin]] = i, ![t.origin] = i] \in Item
  BY <1>1, <1>3 DEF Item
<1> QED
  BY <1>1, <1>2, <1>4 DEF Task, BodyTask, EachTask

\* A function changed at one point.
LEMMA Updated ==
  ASSUME NEW t \in Task, NEW m, NEW x
  PROVE  [t EXCEPT !.node = m, !.item = x] = [node |-> m, after |-> t.after, origin |-> t.origin, item |-> x]
<1> DEFINE u == [t EXCEPT !.node = m, !.item = x]
           v == [node |-> m, after |-> t.after, origin |-> t.origin, item |-> x]
<1>1. DOMAIN t = {"node", "after", "origin", "item"}
  BY DEF Task
<1>2. u.node = m /\ u.item = x /\ u.after = t.after /\ u.origin = t.origin
  BY <1>1
<1>3. DOMAIN u = {"node", "after", "origin", "item"} /\ u = [k \in DOMAIN u |-> u[k]]
  BY <1>1
<1>4. /\ DOMAIN v = {"node", "after", "origin", "item"} /\ v = [k \in DOMAIN v |-> v[k]]
      /\ v.node = m /\ v.item = x /\ v.after = t.after /\ v.origin = t.origin
  OBVIOUS
<1>5. \A k \in {"node", "after", "origin", "item"} : u[k] = v[k]
  BY <1>2, <1>4
<1> HIDE DEF u, v
<1>6. u = v
  BY <1>3, <1>4, <1>5
<1> QED
  BY <1>6 DEF u, v

\* What starts item i of the loop of t.
LEMMA ItemTasksAre ==
  ASSUME NEW t \in Task, t.origin # NULL, NEW i \in Nat
  PROVE  /\ ItemTasks(t, i) \in Seq(Task)
         /\ OneToOne(ItemTasks(t, i))
         /\ \A u : u \in Elements(ItemTasks(t, i)) <=>
              IF t.origin \in ForEach THEN u = EachTask(t, i)
              ELSE \E e \in Elements(Edges) : e.from = t.origin /\ e.when # "after" /\ u = BodyTask(e.to, t, i)
<1> DEFINE l == t.origin
           es == EdgesFrom(l)
           ss == [k \in 1 .. Len(es) |-> If(es[k].when # "after", BodyTask(es[k].to, t, i))]
<1>1. \A m : [t EXCEPT !.node = m, !.item = [@ EXCEPT ![l] = i]] = BodyTask(m, t, i)
  <2>1. \A m : [t EXCEPT !.node = m, !.item = [@ EXCEPT ![l] = i]] = [t EXCEPT !.node = m, !.item = [t.item EXCEPT ![l] = i]]
    BY DEF Task
  <2> QED
    BY <2>1, Updated DEF BodyTask
<1>2. [t EXCEPT !.node = l, !.item = [@ EXCEPT ![Source[l]] = i, ![l] = i]] = EachTask(t, i)
  <2>1. [t EXCEPT !.node = l, !.item = [@ EXCEPT ![Source[l]] = i, ![l] = i]]
          = [t EXCEPT !.node = l, !.item = [t.item EXCEPT ![Source[l]] = i, ![l] = i]]
    BY DEF Task
  <2> QED
    BY <2>1, Updated DEF EachTask
<1>3. l \in Nodes
  BY BodyTaskTyped
<1>4. CASE l \in ForEach
  <2>1. ItemTasks(t, i) = <<EachTask(t, i)>>
    BY <1>2, <1>4 DEF ItemTasks
  <2>2. EachTask(t, i) \in Task
    BY BodyTaskTyped
  <2> QED
    BY <1>4, <2>1, <2>2, SingleIs
<1>5. CASE l \notin ForEach
  <2>1. ItemTasks(t, i) = Flat(ss)
    <3>1. ss = [k \in 1 .. Len(es) |-> If(es[k].when # "after", [t EXCEPT !.node = es[k].to, !.item = [@ EXCEPT ![l] = i]])]
      BY <1>1
    <3> QED
      BY <1>5, <3>1 DEF ItemTasks
  <2>2. es \in Seq(Edge) /\ Elements(es) = {e \in Elements(Edges) : e.from = l}
    BY <1>3, EdgesFromIs
  <2>3. \A k \in 1 .. Len(es) : ss[k] = IF es[k].when # "after" THEN <<BodyTask(es[k].to, t, i)>> ELSE <<>>
    BY DEF If
  <2>4. PerEdge(l, ss)
    <3>1. \A k \in 1 .. Len(es) : BodyTask(es[k].to, t, i) \in Task /\ BodyTask(es[k].to, t, i).node = es[k].to
      <4> HIDE DEF es
      <4>1. \A k \in 1 .. Len(es) : es[k] \in Edge
        BY <2>2
      <4>2. \A k \in 1 .. Len(es) : es[k].to \in Nodes
        BY <4>1 DEF Edge
      <4> QED
        BY <4>2, BodyTaskTyped
    <3>2. \A k \in 1 .. Len(es) : ss[k] \in Seq(Task) /\ OneToOne(ss[k]) /\ \A u \in Elements(ss[k]) : u.node = es[k].to
      <4> HIDE DEF es, ss
      <4> SUFFICES ASSUME NEW k \in 1 .. Len(es)
                   PROVE  ss[k] \in Seq(Task) /\ OneToOne(ss[k]) /\ \A u \in Elements(ss[k]) : u.node = es[k].to
        OBVIOUS
      <4>1. CASE es[k].when # "after"
        <5>1. ss[k] = <<BodyTask(es[k].to, t, i)>>
          BY <2>3, <4>1
        <5> QED
          BY <3>1, <5>1, SingleIs
      <4>2. CASE ~(es[k].when # "after")
        <5>1. ss[k] = <<>>
          BY <2>3, <4>2
        <5> QED
          BY <5>1, EmptyIs
      <4> QED
        BY <4>1, <4>2
    <3> QED
      BY <3>2 DEF PerEdge
  <2> HIDE DEF ss, es
  <2>5. \A u : u \in Elements(Flat(ss)) <=> \E k \in 1 .. Len(es) : u \in Elements(ss[k])
    BY <1>3, <2>4, PerEdgeIs DEF es
  <2>6. \A u : u \in Elements(Flat(ss)) <=> \E k \in 1 .. Len(es) : es[k].when # "after" /\ u = BodyTask(es[k].to, t, i)
    <3>1. ASSUME NEW k \in 1 .. Len(es), NEW u
          PROVE  u \in Elements(ss[k]) <=> es[k].when # "after" /\ u = BodyTask(es[k].to, t, i)
      <4>1. CASE es[k].when # "after"
        <5>1. ss[k] = <<BodyTask(es[k].to, t, i)>>
          BY <2>3, <4>1
        <5> QED
          BY <4>1, <5>1, SingleIs
      <4>2. CASE ~(es[k].when # "after")
        <5>1. ss[k] = <<>>
          BY <2>3, <4>2
        <5> QED
          BY <4>2, <5>1, EmptyIs
      <4> QED
        BY <4>1, <4>2
    <3> QED
      BY <2>5, <3>1
  <2>7. \A e : e \in Elements(es) <=> \E k \in 1 .. Len(es) : e = es[k]
    BY InElements
  <2>8. \A u : u \in Elements(Flat(ss)) <=> \E e \in Elements(es) : e.when # "after" /\ u = BodyTask(e.to, t, i)
    BY <2>6, <2>7
  <2> QED
    BY <1>3, <1>5, <2>1, <2>2, <2>4, <2>8, PerEdgeIs
<1> QED
  BY <1>4, <1>5

\* A node without an edge from another node.
Top(n) == ~\E e \in Elements(Edges) : e.to = n /\ e.from # n

\* The roots, or, where every node has an input, the first node.
LEMMA RootsAre ==
  /\ Roots \in Seq(Nodes)
  /\ OneToOne(Roots)
  /\ \A n \in Nodes : Top(n) => n \in Elements(Roots)
  /\ \A n \in Elements(Roots) : Top(n) \/ \A m \in Nodes : ~Top(m)
<1> DEFINE W == {i \in 1 .. Len(Order) : Top(Order[i])}
           ss == [i \in 1 .. Len(Order) |-> If(~\E e \in Elements(Edges) : e.to = Order[i] /\ e.from # Order[i], Order[i])]
           roots == Flat(ss)
<1>1. Picks(Nodes, W, Order, ss)
  BY GraphAssumption DEF If, Picks, Top
<1>2. Roots = IF roots # <<>> THEN roots ELSE IF Order = <<>> THEN <<>> ELSE <<Order[1]>>
  BY DEF Roots
<1>3. \A i \in 1 .. Len(Order) : i \in W <=> Top(Order[i])
  OBVIOUS
<1> HIDE DEF W, ss
<1>4. Picked(Nodes, W, Order, roots)
  BY <1>1, Chosen
<1>5. \A n \in Nodes : \E i \in 1 .. Len(Order) : n = Order[i]
  BY GraphAssumption
<1>6. \A n : n \in Elements(roots) <=> n \in Nodes /\ Top(n)
  <2>1. \A i \in 1 .. Len(Order) : Order[i] \in Nodes
    BY GraphAssumption
  <2> QED
    BY <1>3, <1>4, <1>5, <2>1 DEF Picked
<1>7. roots \in Seq(Nodes) /\ OneToOne(roots)
  BY <1>4, GraphAssumption DEF Picked
<1> HIDE DEF roots
<1>8. CASE roots # <<>>
  BY <1>2, <1>6, <1>7, <1>8
<1>9. CASE roots = <<>>
  <2>1. \A m \in Nodes : ~Top(m)
    BY <1>6, <1>9, EmptyIs
  <2>2. CASE Order = <<>>
    BY <1>2, <1>9, <2>1, <2>2, EmptyIs
  <2>3. CASE Order # <<>>
    <3>1. Order[1] \in Nodes
      BY <2>3, GraphAssumption
    <3> QED
      BY <1>2, <1>9, <2>1, <2>3, <3>1, SingleIs
  <2> QED
    BY <2>2, <2>3
<1> QED
  BY <1>8, <1>9

\* Where an execution starts.
LEMMA RootTasksAre ==
  LET q == [i \in 1 .. Len(Roots) |-> RootTask(Roots[i])] IN
  /\ q \in Seq(Task)
  /\ OneToOne(q)
  /\ \A t : t \in Elements(q) <=> \E n \in Elements(Roots) : t = RootTask(n)
<1> DEFINE q == [i \in 1 .. Len(Roots) |-> RootTask(Roots[i])]
<1>1. Roots \in Seq(Nodes) /\ OneToOne(Roots)
  BY RootsAre
<1>2. \A i \in 1 .. Len(Roots) : Roots[i] \in Nodes
  BY <1>1
<1>3. \A m, n : RootTask(m) = RootTask(n) => m = n
  BY DEF RootTask
<1>4. q \in Seq(Task) /\ Len(q) = Len(Roots) /\ \A i \in 1 .. Len(Roots) : q[i] = RootTask(Roots[i])
  BY <1>1, <1>2, RootTaskTyped
<1> HIDE DEF q
<1>5. OneToOne(q)
  BY <1>1, <1>3, <1>4 DEF OneToOne
<1>6. \A t : t \in Elements(q) <=> \E n \in Elements(Roots) : t = RootTask(n)
  BY <1>4, InElements
<1> QED
  BY <1>4, <1>5, <1>6 DEF q

\* Where a resume starts: at the roots not kept and at what follows the kept outputs.
LEMMA FrontierIs ==
  ASSUME NEW os, NEW kept \in SUBSET Nodes
  PROVE  /\ Frontier(os, kept) \in Seq(Task)
         /\ OneToOne(Frontier(os, kept))
         /\ \A t : t \in Elements(Frontier(os, kept)) <=>
              /\ t.node \notin kept
              /\ \/ \E n \in Elements(Roots) : t = RootTask(n)
                 \/ \E n \in kept : t \in Elements(Successors(os, RootTask(n), Latest(os, n).out))
<1> DEFINE follow(n) == IF n \in kept THEN Successors(os, RootTask(n), Latest(os, n).out) ELSE <<>>
           r == [i \in 1 .. Len(Roots) |-> <<RootTask(Roots[i])>>]
           f == [i \in 1 .. Len(Order) |-> follow(Order[i])]
           ss == r \o f
           all == Flat(ss)
           ps == [i \in 1 .. Len(all) |-> If(all[i].node \notin kept, all[i])]
           W == {i \in 1 .. Len(all) : all[i].node \notin kept}
<1>1. Frontier(os, kept) = Unique(Flat(ps))
  BY DEF Frontier
<1>2. /\ r \in Seq(Seq(Task)) /\ Len(r) = Len(Roots)
      /\ \A i \in 1 .. Len(Roots) : r[i] = <<RootTask(Roots[i])>>
  <2>1. Roots \in Seq(Nodes) /\ \A i \in 1 .. Len(Roots) : Roots[i] \in Nodes
    BY RootsAre
  <2>2. \A i \in 1 .. Len(Roots) : <<RootTask(Roots[i])>> \in Seq(Task)
    BY <2>1, RootTaskTyped
  <2> QED
    BY <2>1, <2>2
<1>3. /\ f \in Seq(Seq(Task)) /\ Len(f) = Len(Order)
      /\ \A i \in 1 .. Len(Order) : f[i] = follow(Order[i])
  <2>1. Order \in Seq(Nodes) /\ \A i \in 1 .. Len(Order) : Order[i] \in Nodes
    BY GraphAssumption
  <2>2. \A n \in Nodes : Successors(os, RootTask(n), Latest(os, n).out) \in Seq(Task)
    BY RootTaskTyped, SuccessorsAre
  <2>3. \A i \in 1 .. Len(Order) : follow(Order[i]) \in Seq(Task)
    BY <2>1, <2>2
  <2> HIDE DEF follow
  <2> QED
    BY <2>1, <2>3
<1> HIDE DEF r, f
<1>4. ss \in Seq(Seq(Task)) /\ Len(ss) = Len(r) + Len(f)
      /\ Elements(ss) = Elements(r) \union Elements(f)
  <2> DEFINE S == Seq(Task)
  <2>1. r \in Seq(S) /\ f \in Seq(S)
    BY <1>2, <1>3
  <2> HIDE DEF S
  <2>2. ss \in Seq(S) /\ Len(ss) = Len(r) + Len(f) /\ Elements(ss) = Elements(r) \union Elements(f)
    BY <2>1, ConcatElements
  <2> QED
    BY <2>2 DEF S
<1> HIDE DEF ss
<1>5. all \in Seq(Task) /\ Elements(all) = UNION {Elements(ss[k]) : k \in 1 .. Len(ss)}
  BY <1>4, FlatIs
<1>6. \A t : t \in Elements(all) <=> \E s \in Elements(ss) : t \in Elements(s)
  BY <1>5, InElements
<1>7. \A s : s \in Elements(r) <=> \E n \in Elements(Roots) : s = <<RootTask(n)>>
  <2>1. \A s : s \in Elements(r) <=> \E i \in 1 .. Len(Roots) : s = r[i]
    BY <1>2, InElements
  <2>2. \A n : n \in Elements(Roots) <=> \E i \in 1 .. Len(Roots) : n = Roots[i]
    BY InElements
  <2>3. \A s : s \in Elements(r) <=> \E i \in 1 .. Len(Roots) : s = <<RootTask(Roots[i])>>
    BY <1>2, <2>1
  <2> QED
    BY <2>2, <2>3
<1>8. \A s : s \in Elements(f) <=> \E n \in Nodes : s = follow(n)
  <2>1. Elements(Order) = Nodes
    BY GraphAssumption DEF Elements
  <2> HIDE DEF follow
  <2>2. \A s : s \in Elements(f) <=> \E i \in 1 .. Len(Order) : s = f[i]
    BY <1>3, InElements
  <2>3. \A n : n \in Nodes <=> \E i \in 1 .. Len(Order) : n = Order[i]
    BY <2>1, InElements
  <2>4. \A s : s \in Elements(f) <=> \E i \in 1 .. Len(Order) : s = follow(Order[i])
    BY <1>3, <2>2
  <2> QED
    BY <2>3, <2>4
<1>9. \A t : t \in Elements(all) <=> \/ \E n \in Elements(Roots) : t = RootTask(n)
                                     \/ \E n \in kept : t \in Elements(Successors(os, RootTask(n), Latest(os, n).out))
  <2>1. \A n \in kept : follow(n) = Successors(os, RootTask(n), Latest(os, n).out)
    OBVIOUS
  <2>2. \A n : n \notin kept => Elements(follow(n)) = {}
    BY EmptyIs
  <2>3. kept \subseteq Nodes
    OBVIOUS
  <2> HIDE DEF follow
  <2>4. \A t : t \in Elements(all) <=> (\E s \in Elements(r) : t \in Elements(s)) \/ (\E s \in Elements(f) : t \in Elements(s))
    BY <1>4, <1>6
  <2>5. \A t : (\E s \in Elements(r) : t \in Elements(s)) <=> \E n \in Elements(Roots) : t = RootTask(n)
    <3>1. ASSUME NEW t, NEW s \in Elements(r), t \in Elements(s)
          PROVE \E n \in Elements(Roots) : t = RootTask(n)
      <4>1. PICK n \in Elements(Roots) : s = <<RootTask(n)>>
        BY <1>7
      <4> QED
        BY <3>1, <4>1, SingleIs
    <3>2. ASSUME NEW t, NEW n \in Elements(Roots), t = RootTask(n)
          PROVE \E s \in Elements(r) : t \in Elements(s)
      <4>1. <<RootTask(n)>> \in Elements(r)
        BY <1>7
      <4> QED
        BY <3>2, <4>1, SingleIs
    <3> QED
      BY <3>1, <3>2
  <2>6. \A t : (\E s \in Elements(f) : t \in Elements(s)) <=> \E n \in Nodes : t \in Elements(follow(n))
    BY <1>8
  <2> QED
    BY <2>1, <2>2, <2>3, <2>4, <2>5, <2>6
<1>10. Picks(Task, W, all, ps)
  BY <1>5 DEF If, Picks
<1>11. \A i \in 1 .. Len(all) : i \in W <=> all[i].node \notin kept
  OBVIOUS
<1> HIDE DEF W, ps, all
<1>12. Picked(Task, W, all, Flat(ps))
  BY <1>10, Chosen
<1>13. Flat(ps) \in Seq(Task) /\ \A t : t \in Elements(Flat(ps)) <=> t \in Elements(all) /\ t.node \notin kept
  BY <1>11, <1>12, InElements DEF Picked
<1>14. /\ Frontier(os, kept) \in Seq(Task) /\ OneToOne(Frontier(os, kept))
       /\ Elements(Frontier(os, kept)) = Elements(Flat(ps))
  BY <1>1, <1>13, UniqueIs
<1> QED
  BY <1>9, <1>13, <1>14

-----------------------------------------------------------------------------
(* Receiving a result, in pieces.                                          *)

(* What a received result queues. *)
Due == Successors(Recorded(Received), Received.task, Received.out)
Others == Pending \ {Received.task}
Follow == Fresh(Due, Others)
EmptyLoop == StartsLoop(Received.task.node, Received.out) /\ Follow = <<>>
Skipped == IF EmptyLoop THEN Fresh(AfterLoop(Received.task.node), Others) ELSE <<>>
Waiting == Others \union Elements(Follow) \union Elements(Skipped)
NextStart ==
  IF StartsLoop(Received.task.node, Received.out) /\ next[Received.task.node] = NULL
  THEN [next EXCEPT ![Received.task.node] =
          IF Kind[Received.task.node] = "infinite" THEN 0
          ELSE Least(Width[Received.task.node], Size[Received.task.node])]
  ELSE next
Advances == Follow = <<>> /\ ~stop /\ ItemOver(Received.task, Waiting)
Goes == Advances /\ ~Exhausted(Received.task.origin, NextIndex(Received.task))
Ends == /\ Advances /\ Exhausted(Received.task.origin, NextIndex(Received.task))
        /\ LoopOver(Received.task.origin, Waiting)
More == IF Ends THEN Fresh(AfterLoop(Received.task.origin), Waiting)
        ELSE IF Goes THEN Fresh(ItemTasks(Received.task, NextIndex(Received.task)), Waiting)
        ELSE <<>>

\* ReceiveResult in these words.
LEMMA ResultStep ==
  ASSUME ReceiveResult
  PROVE  /\ Receiving /\ ~Breaks(Received) /\ ~Concludes(Received) /\ ~Halting(Received)
         /\ Take(Received) /\ results' = Tail(results)
         /\ queue' = queue \o Follow \o Skipped \o More
         /\ next' = IF Goes THEN [NextStart EXCEPT ![Received.task.origin] = NextIndex(Received.task) + 1]
                    ELSE NextStart
         /\ done' = done \union (IF EmptyLoop THEN {Received.task.node} ELSE {})
                         \union (IF Ends THEN {Received.task.origin} ELSE {})
         /\ pc' = "dispatch"
         /\ UNCHANGED <<working, broken, ending>>
<1>1. /\ Receiving /\ ~Breaks(Received) /\ ~Concludes(Received) /\ ~Halting(Received)
      /\ Take(Received) /\ results' = Tail(results) /\ pc' = "dispatch"
      /\ UNCHANGED <<working, broken, ending>>
  BY DEF ReceiveResult
<1> DEFINE t == Received.task
           out == Received.out
           n == t.node
           pending == Pending \ {t}
           scheduled == Follow # <<>>
           emptyLoop == StartsLoop(n, out) /\ ~scheduled
           after == IF emptyLoop THEN Fresh(AfterLoop(n), pending) ELSE <<>>
           pending1 == pending \union Elements(Follow) \union Elements(after)
           next1 == IF StartsLoop(n, out) /\ next[n] = NULL
                    THEN [next EXCEPT ![n] = IF Kind[n] = "infinite" THEN 0
                                             ELSE Least(Width[n], Size[n])]
                    ELSE next
           advances == ~scheduled /\ ~stop /\ ItemOver(t, pending1)
           i == IF advances THEN NextIndex(t) ELSE 0
           last == advances /\ Exhausted(t.origin, i)
           over == last /\ LoopOver(t.origin, pending1)
           more == IF over THEN Fresh(AfterLoop(t.origin), pending1)
                   ELSE IF advances /\ ~last THEN Fresh(ItemTasks(t, i), pending1)
                   ELSE <<>>
<1>2. /\ queue' = queue \o Follow \o after \o more
      /\ next' = IF advances /\ ~last THEN [next1 EXCEPT ![t.origin] = i + 1] ELSE next1
      /\ done' = done \union (IF emptyLoop THEN {n} ELSE {})
                      \union (IF over THEN {t.origin} ELSE {})
  <2> DEFINE Queues(successors) ==
        LET scheduled2 == successors # <<>>
            emptyLoop2 == StartsLoop(n, out) /\ ~scheduled2
            after2 == IF emptyLoop2 THEN Fresh(AfterLoop(n), pending) ELSE <<>>
            pending2 == pending \union Elements(successors) \union Elements(after2)
            next2 == IF StartsLoop(n, out) /\ next[n] = NULL
                     THEN [next EXCEPT ![n] = IF Kind[n] = "infinite" THEN 0
                                              ELSE Least(Width[n], Size[n])]
                     ELSE next
            advances2 == ~scheduled2 /\ ~stop /\ ItemOver(t, pending2)
            i2 == IF advances2 THEN NextIndex(t) ELSE 0
            last2 == advances2 /\ Exhausted(t.origin, i2)
            over2 == last2 /\ LoopOver(t.origin, pending2)
            more2 == IF over2 THEN Fresh(AfterLoop(t.origin), pending2)
                     ELSE IF advances2 /\ ~last2 THEN Fresh(ItemTasks(t, i2), pending2)
                     ELSE <<>>
        IN /\ queue' = queue \o successors \o after2 \o more2
           /\ next' = IF advances2 /\ ~last2 THEN [next2 EXCEPT ![t.origin] = i2 + 1] ELSE next2
           /\ done' = done \union (IF emptyLoop2 THEN {n} ELSE {})
                           \union (IF over2 THEN {t.origin} ELSE {})
  <2>1. \E due \in {Due} : Queues(Fresh(due, pending))
    BY Zenon DEF ReceiveResult, Due
  <2>2. Follow = Fresh(Due, pending)
    BY DEF Follow, Others
  <2> HIDE DEF Queues
  <2>3. Queues(Follow)
    BY <2>1, <2>2
  <2> QED
    BY <2>3, Zenon DEF Queues
<1>3. (emptyLoop <=> EmptyLoop) /\ after = Skipped /\ pending1 = Waiting /\ next1 = NextStart
  BY DEF EmptyLoop, Skipped, Waiting, Others, NextStart
<1>4. advances <=> Advances
  BY <1>3 DEF Advances
<1> HIDE DEF pending1, next1, emptyLoop, after, advances
<1>5. CASE Advances
  <2>1. i = NextIndex(t)
    BY <1>4, <1>5
  <2> HIDE DEF i
  <2>2. (over <=> Ends) /\ ((advances /\ ~last) <=> Goes)
    BY <1>3, <1>4, <1>5, <2>1 DEF Ends, Goes
  <2> HIDE DEF over, last
  <2>3. more = More
    BY <1>3, <2>1, <2>2 DEF More
  <2> QED
    BY <1>1, <1>2, <1>3, <2>1, <2>2, <2>3
<1>6. CASE ~Advances
  <2>1. ~Ends /\ ~Goes /\ ~last /\ ~advances
    BY <1>4, <1>6 DEF Ends, Goes
  <2>2. more = <<>> /\ More = <<>> /\ ~over
    BY <2>1 DEF More
  <2> HIDE DEF more, over, last, i
  <2> QED
    BY <1>1, <1>2, <1>3, <2>1, <2>2
<1> QED
  BY <1>5, <1>6

-----------------------------------------------------------------------------
(* Types.                                                                  *)

\* Outputs and results.
Output == [item : Item, out : Outcome]
Result == [task : Task, item : Item, out : Outcome, halt : BOOLEAN]

\* A task is queued or runs, and is there once.
QueueOK ==
  /\ queue \in Seq(Task) /\ OneToOne(queue)
  /\ running \subseteq Task /\ Elements(queue) \intersect running = {}
  /\ \A t \in Pending : t.origin # NULL => t.item[t.origin] \in Nat

\* A coroutine, or a result in the channel, for a task that runs, and never two.
WorkOK ==
  /\ \A w \in working : /\ w = [task |-> w.task, attempt |-> w.attempt]
                        /\ w.task \in running /\ w.attempt \in 1 .. Retries[w.task.node] + 1
  /\ \A v, w \in working : v.task = w.task => v = w
  /\ results \in Seq(Result)
  /\ \A i \in 1 .. Len(results) : results[i].task \in running
  /\ \A i, j \in 1 .. Len(results) : results[i].task = results[j].task => i = j
  /\ \A w \in working : \A i \in 1 .. Len(results) : results[i].task # w.task

\* What was recorded, and what was saved.
RecordOK ==
  /\ runs \in [Nodes -> Seq(Output)]
  /\ saved.out \in [Nodes -> Output \union {NULL}]
  /\ \A e \in saved.entries : e.out \in Outcome

\* The rest of the state.
RestOK ==
  /\ next \in Item
  /\ broken \subseteq done /\ done \subseteq Nodes
  /\ total \in 0 .. MaxTotalNodeRuns + 1
  /\ pc \in {"dispatch", "receive"} => total <= MaxTotalNodeRuns
  /\ stop \in BOOLEAN /\ halted \in BOOLEAN
  /\ verdict \in BOOLEAN \union {NULL}
  /\ pc \in {"dispatch", "receive", "ended", "crashed"}
  /\ seeds \subseteq Nodes /\ stale \subseteq Nodes
  /\ resumes \in 0 .. MaxResumes

\* The type invariant.  It is stronger than TypeOK: tasks are queued or run once.
TInv == QueueOK /\ WorkOK /\ RecordOK /\ RestOK

\* The type invariant implies the types TLC checks.
LEMMA TInvTypeOK == TInv => TypeOK
<1> SUFFICES ASSUME TInv PROVE TypeOK
  OBVIOUS
<1>1. \A i \in 1 .. Len(results) :
       results[i].task \in running /\ results[i].out \in Outcome /\ results[i].halt \in BOOLEAN
  <2>1. \A i \in 1 .. Len(results) : results[i] \in Result
    BY DEF TInv, WorkOK
  <2> QED
    BY <2>1 DEF TInv, WorkOK, Result
<1>2. \A n \in Nodes : \A o \in Elements(runs[n]) : o.item \in Item /\ o.out \in Outcome
  <2>1. ASSUME NEW n \in Nodes, NEW o \in Elements(runs[n]) PROVE o \in Output
    <3>1. runs[n] \in Seq(Output)
      BY DEF TInv, RecordOK
    <3> QED
      BY <2>1, <3>1, InElements
  <2> QED
    BY <2>1 DEF Output
<1> QED
  BY <1>1, <1>2 DEF TypeOK, TInv, QueueOK, WorkOK, RecordOK, RestOK, Output

\* What the scheduler receives.
LEMMA ReceivedIs ==
  ASSUME TInv, Receiving
  PROVE  /\ Received \in Result /\ Received.task \in Task /\ Received.task \in running
         /\ Received.item \in Item /\ Received.out \in Outcome
         /\ Received.task.node \in Nodes /\ Received.task.origin \in Nodes \union {NULL}
         /\ Received.task \notin Elements(queue)
         /\ Received = results[1] /\ 1 \in 1 .. Len(results)
<1>1. results \in Seq(Result) /\ results # <<>>
  BY DEF TInv, WorkOK, Receiving
<1>2. Received = results[1] /\ 1 \in 1 .. Len(results) /\ Received \in Result
  BY <1>1 DEF Received
<1>3. Received.task \in running /\ Received.task \in Task
  BY <1>2 DEF TInv, WorkOK, Result
<1>4. Received.item \in Item /\ Received.out \in Outcome
  BY <1>2 DEF Result
<1>5. Received.task.node \in Nodes /\ Received.task.origin \in Nodes \union {NULL}
  BY <1>3 DEF Task
<1> QED
  BY <1>2, <1>3, <1>4, <1>5 DEF TInv, QueueOK

\* A queue extended by tasks that are neither in it nor run.
LEMMA Extended ==
  ASSUME NEW q \in Seq(Task), OneToOne(q), NEW a \in Seq(Task), OneToOne(a),
         Elements(q) \intersect Elements(a) = {}
  PROVE  q \o a \in Seq(Task) /\ OneToOne(q \o a) /\ Elements(q \o a) = Elements(q) \union Elements(a)
BY ConcatElements, ConcatOneToOne

\* What follows from a result.
LEMMA FollowIs ==
  ASSUME TInv, Receiving
  PROVE  /\ Follow \in Seq(Task) /\ OneToOne(Follow) /\ Elements(Follow) = Elements(Due) \ Others
         /\ Due \in Seq(Task)
         /\ Skipped \in Seq(Task) /\ OneToOne(Skipped) /\ Elements(Skipped) \intersect Others = {}
         /\ Follow # <<>> => Skipped = <<>>
<1>1. Received.task \in Task /\ Received.task.node \in Nodes
  BY ReceivedIs
<1>2. Due \in Seq(Task) /\ OneToOne(Due)
  BY <1>1, SuccessorsAre DEF Due
<1>3. Follow \in Seq(Task) /\ OneToOne(Follow) /\ Elements(Follow) = Elements(Due) \ Others
  BY <1>2, FreshIs DEF Follow
<1>4. AfterLoop(Received.task.node) \in Seq(Task) /\ OneToOne(AfterLoop(Received.task.node))
  BY <1>1, AfterLoopIs
<1>5. /\ Fresh(AfterLoop(Received.task.node), Others) \in Seq(Task)
      /\ OneToOne(Fresh(AfterLoop(Received.task.node), Others))
      /\ Elements(Fresh(AfterLoop(Received.task.node), Others)) \intersect Others = {}
  BY <1>4, FreshIs
<1>6. <<>> \in Seq(Task)
  OBVIOUS
<1>7. Skipped \in Seq(Task) /\ OneToOne(Skipped) /\ Elements(Skipped) \intersect Others = {}
  BY <1>5, <1>6, EmptyIs DEF Skipped
<1>8. Follow # <<>> => Skipped = <<>>
  BY DEF Skipped, EmptyLoop
<1> QED
  BY <1>2, <1>3, <1>7, <1>8

\* What goes on after a result.
LEMMA MoreIs ==
  ASSUME TInv, Receiving
  PROVE  /\ More \in Seq(Task) /\ OneToOne(More) /\ Elements(More) \intersect Waiting = {}
         /\ Advances => Received.task.origin \in Nodes /\ NextIndex(Received.task) \in Nat
<1> DEFINE t == Received.task
<1>1. t \in Task /\ t \in running
  BY ReceivedIs
<1>2. ASSUME Advances PROVE t.origin \in Nodes /\ t.origin # NULL /\ NextIndex(t) \in Nat
  <2>1. t.origin # NULL
    BY <1>2 DEF Advances, ItemOver
  <2>2. t.origin \in Nodes
    BY <1>1, <2>1 DEF Task
  <2>3. t.item[t.origin] \in Nat
    BY <1>1, <2>1 DEF TInv, QueueOK, Pending
  <2>4. next[t.origin] \in Nat \union {NULL}
    BY <2>2 DEF TInv, RestOK, Item
  <2> QED
    BY <2>1, <2>2, <2>3, <2>4 DEF NextIndex
<1>3. CASE Ends
  <2>1. t.origin \in Nodes
    BY <1>2, <1>3 DEF Ends
  <2>2. AfterLoop(t.origin) \in Seq(Task) /\ OneToOne(AfterLoop(t.origin))
    BY <2>1, AfterLoopIs
  <2>3. More = Fresh(AfterLoop(t.origin), Waiting)
    BY <1>3 DEF More
  <2> QED
    BY <1>2, <2>2, <2>3, FreshIs
<1>4. CASE ~Ends /\ Goes
  <2>1. t.origin # NULL /\ NextIndex(t) \in Nat
    BY <1>2, <1>4 DEF Goes
  <2>2. ItemTasks(t, NextIndex(t)) \in Seq(Task) /\ OneToOne(ItemTasks(t, NextIndex(t)))
    BY <1>1, <2>1, ItemTasksAre
  <2>3. More = Fresh(ItemTasks(t, NextIndex(t)), Waiting)
    BY <1>4 DEF More
  <2> QED
    BY <1>2, <2>2, <2>3, FreshIs
<1>5. CASE ~Ends /\ ~Goes
  <2>1. More = <<>> /\ <<>> \in Seq(Task)
    BY <1>5 DEF More
  <2> QED
    BY <1>2, <2>1, EmptyIs
<1> QED
  BY <1>3, <1>4, <1>5

\* The queue after a result.
LEMMA ResultQueue ==
  ASSUME TInv, ReceiveResult
  PROVE  /\ queue' \in Seq(Task) /\ OneToOne(queue')
         /\ Elements(queue') = Elements(queue) \union Elements(Follow) \union Elements(Skipped) \union Elements(More)
         /\ running' = running \ {Received.task}
         /\ Elements(queue') \intersect running' = {}
<1>1. Receiving /\ queue' = queue \o Follow \o Skipped \o More
  BY ResultStep
<1>2. running' = running \ {Received.task}
  BY ResultStep DEF Take
<1>3. Elements(queue) \subseteq Others /\ running \ {Received.task} \subseteq Others
  BY <1>1, ReceivedIs DEF Others, Pending
<1>4. queue \in Seq(Task) /\ OneToOne(queue) /\ Elements(queue) \intersect running = {}
  BY DEF TInv, QueueOK
<1>5. Elements(Follow) \intersect Others = {}
  BY <1>1, FollowIs
<1>6. /\ queue \o Follow \in Seq(Task) /\ OneToOne(queue \o Follow)
      /\ Elements(queue \o Follow) = Elements(queue) \union Elements(Follow)
  BY <1>1, <1>3, <1>4, <1>5, FollowIs, Extended
<1>7. Elements(Follow) \intersect Elements(Skipped) = {}
  <2>1. Follow = <<>> \/ Skipped = <<>>
    BY <1>1, FollowIs
  <2> QED
    BY <2>1, EmptyIs
<1>8. Elements(Skipped) \intersect Others = {} /\ Skipped \in Seq(Task) /\ OneToOne(Skipped)
  BY <1>1, FollowIs
<1>9. /\ queue \o Follow \o Skipped \in Seq(Task) /\ OneToOne(queue \o Follow \o Skipped)
      /\ Elements(queue \o Follow \o Skipped) = Elements(queue) \union Elements(Follow) \union Elements(Skipped)
  <2>1. Elements(queue \o Follow) \intersect Elements(Skipped) = {}
    BY <1>3, <1>6, <1>7, <1>8
  <2> DEFINE q == queue \o Follow
  <2> HIDE DEF q
  <2>2. q \in Seq(Task) /\ OneToOne(q) /\ Elements(q) \intersect Elements(Skipped) = {}
        /\ Elements(q) = Elements(queue) \union Elements(Follow)
    BY <1>6, <2>1 DEF q
  <2>3. q \o Skipped \in Seq(Task) /\ OneToOne(q \o Skipped) /\ Elements(q \o Skipped) = Elements(q) \union Elements(Skipped)
    BY <1>8, <2>2, Extended
  <2> QED
    BY <2>2, <2>3 DEF q
<1>10. More \in Seq(Task) /\ OneToOne(More) /\ Elements(More) \intersect Waiting = {}
  BY <1>1, MoreIs
<1>11. /\ queue' \in Seq(Task) /\ OneToOne(queue')
       /\ Elements(queue') = Elements(queue) \union Elements(Follow) \union Elements(Skipped) \union Elements(More)
  <2> DEFINE q == queue \o Follow \o Skipped
  <2>1. Elements(q) \subseteq Waiting
    BY <1>3, <1>9 DEF Waiting
  <2>2. q \in Seq(Task) /\ OneToOne(q) /\ Elements(q) = Elements(queue) \union Elements(Follow) \union Elements(Skipped)
        /\ queue' = q \o More
    BY <1>1, <1>9
  <2> HIDE DEF q
  <2>3. q \o More \in Seq(Task) /\ OneToOne(q \o More) /\ Elements(q \o More) = Elements(q) \union Elements(More)
    BY <1>10, <2>1, <2>2, Extended
  <2> QED
    BY <2>2, <2>3
<1>12. Elements(More) \intersect Others = {}
  BY <1>10 DEF Waiting
<1>13. Elements(queue') \intersect running' = {}
  BY <1>2, <1>3, <1>4, <1>5, <1>8, <1>11, <1>12
<1> QED
  BY <1>2, <1>11, <1>13

\* The index of a task in its loop.
Indexed(t) == t.origin # NULL => t.item[t.origin] \in Nat

\* The fields of the tasks that are queued.
LEMMA NextTaskIs ==
  \A t \in Task : \A m : NextTask(m, t).origin = t.origin /\ NextTask(m, t).item = t.item
                         /\ NextTask(m, t).after = NULL /\ NextTask(m, t).node = m
BY DEF NextTask

\* The fields of the first tasks of a loop.
LEMMA ItemTaskIs ==
  ASSUME NEW t \in Task, NEW m, NEW i
  PROVE  /\ ItemTask(m, t, i).origin = t.node /\ ItemTask(m, t, i).after = NULL /\ ItemTask(m, t, i).node = m
         /\ ItemTask(m, t, i).item[t.node] = i - 1
<1> DEFINE x == [t.item EXCEPT ![t.node] = i - 1]
<1>1. t.item \in [Nodes -> Nat \union {NULL}] /\ t.node \in Nodes /\ t.origin \in Nodes \union {NULL}
  BY DEF Task, Item
<1>2. x[t.node] = i - 1
  BY <1>1
<1> HIDE DEF x
<1>3. ItemTask(m, t, i) = [node |-> m, after |-> NULL, origin |-> t.node, item |-> x]
  BY DEF ItemTask, x
<1> QED
  BY <1>2, <1>3

\* The item of such a task.
LEMMA ItemTaskItem == \A m, t, i : ItemTask(m, t, i).item = [t.item EXCEPT ![t.node] = i - 1]
BY DEF ItemTask

\* The fields of the tasks for the next item of a loop.
LEMMA BodyTaskIs ==
  ASSUME NEW t \in Task, t.origin # NULL, NEW m, NEW i
  PROVE  /\ BodyTask(m, t, i).origin = t.origin /\ BodyTask(m, t, i).after = t.after /\ BodyTask(m, t, i).node = m
         /\ BodyTask(m, t, i).item[t.origin] = i
<1> DEFINE x == [t.item EXCEPT ![t.origin] = i]
<1>1. t.item \in [Nodes -> Nat \union {NULL}] /\ t.node \in Nodes /\ t.origin \in Nodes \union {NULL}
  BY DEF Task, Item
<1>2. x[t.origin] = i
  BY <1>1
<1> HIDE DEF x
<1>3. BodyTask(m, t, i) = [node |-> m, after |-> t.after, origin |-> t.origin, item |-> x]
  BY DEF BodyTask, x
<1> QED
  BY <1>2, <1>3

\* The item of such a task.
LEMMA BodyTaskItem == \A m, t, i : BodyTask(m, t, i).item = [t.item EXCEPT ![t.origin] = i]
BY DEF BodyTask

\* The fields of the task for the next item of a for_each node.
LEMMA EachTaskIs ==
  ASSUME NEW t \in Task, t.origin # NULL, NEW i
  PROVE  /\ EachTask(t, i).origin = t.origin /\ EachTask(t, i).after = t.after /\ EachTask(t, i).node = t.origin
         /\ EachTask(t, i).item[t.origin] = i
<1> DEFINE x == [t.item EXCEPT ![Source[t.origin]] = i, ![t.origin] = i]
<1>1. t.item \in [Nodes -> Nat \union {NULL}] /\ t.node \in Nodes /\ t.origin \in Nodes \union {NULL}
  BY DEF Task, Item
<1>2. x[t.origin] = i
  BY <1>1
<1> HIDE DEF x
<1>3. EachTask(t, i) = [node |-> t.origin, after |-> t.after, origin |-> t.origin, item |-> x]
  BY DEF EachTask, x
<1> QED
  BY <1>2, <1>3

\* The item of such a task.
LEMMA EachTaskItem == \A t, i : EachTask(t, i).item = [t.item EXCEPT ![Source[t.origin]] = i, ![t.origin] = i]
BY DEF EachTask

\* The fields of a task after a loop.
LEMMA AfterTaskIs == \A l, n : /\ AfterTask(l, n).origin = NULL /\ AfterTask(l, n).after = l
                               /\ AfterTask(l, n).node = n /\ AfterTask(l, n).item = NoItem
BY DEF AfterTask

\* The fields of a task of a root.
LEMMA RootTaskIs == \A n : /\ RootTask(n).origin = NULL /\ RootTask(n).after = NULL
                           /\ RootTask(n).node = n /\ RootTask(n).item = NoItem
BY DEF RootTask

\* What each of the parts of the queue holds after a result.
LEMMA FollowHas ==
  ASSUME TInv, Receiving, NEW u \in Elements(Follow)
  PROVE  LET t == Received.task IN
         /\ u \in Elements(Due) /\ u \notin Others
         /\ \E e \in Elements(Edges) :
              /\ e.from = t.node /\ Taken(Recorded(Received), e, t, Received.out)
              /\ IF StartsLoop(t.node, Received.out)
                 THEN \E i \in 1 .. Each(t.node) : u = ItemTask(e.to, t, i)
                 ELSE u = NextTask(e.to, t)
<1>1. Received.task \in Task
  BY ReceivedIs
<1>2. u \in Elements(Due) /\ u \notin Others
  BY FollowIs
<1> QED
  BY <1>1, <1>2, SuccessorsAre DEF Due

\* What is queued after a loop without items.
LEMMA SkippedHas ==
  ASSUME TInv, Receiving, NEW u \in Elements(Skipped)
  PROVE  LET l == Received.task.node IN
         /\ EmptyLoop /\ l \notin done /\ u \notin Others
         /\ \E e \in Elements(Edges) : e.from = l /\ e.when = "after" /\ u = AfterTask(l, e.to)
<1> DEFINE l == Received.task.node
<1>1. l \in Nodes
  BY ReceivedIs
<1>2. EmptyLoop /\ Skipped = Fresh(AfterLoop(l), Others)
  BY EmptyIs DEF Skipped
<1>3. AfterLoop(l) \in Seq(Task)
  BY <1>1, AfterLoopIs
<1>4. u \in Elements(AfterLoop(l)) /\ u \notin Others
  BY <1>2, <1>3, FreshIs
<1> QED
  BY <1>1, <1>2, <1>4, AfterLoopIs

\* What is queued after the last task of an item.
LEMMA MoreHas ==
  ASSUME TInv, Receiving, NEW u \in Elements(More)
  PROVE  LET t == Received.task
             l == Received.task.origin IN
         /\ u \notin Waiting /\ l \in Nodes
         /\ \/ /\ Ends /\ l \notin done
               /\ \E e \in Elements(Edges) : e.from = l /\ e.when = "after" /\ u = AfterTask(l, e.to)
            \/ /\ Goes /\ ~Ends
               /\ IF l \in ForEach THEN u = EachTask(t, NextIndex(t))
                  ELSE \E e \in Elements(Edges) : e.from = l /\ e.when # "after" /\ u = BodyTask(e.to, t, NextIndex(t))
<1> DEFINE t == Received.task
           l == t.origin
<1>1. t \in Task
  BY ReceivedIs
<1>2. Ends \/ Goes
  BY EmptyIs DEF More
<1>3. Advances
  BY <1>2 DEF Ends, Goes
<1>4. l \in Nodes /\ NextIndex(t) \in Nat /\ u \notin Waiting
  BY <1>3, MoreIs
<1>5. l # NULL
  BY <1>4, NullIs
<1>6. CASE Ends
  <2>1. More = Fresh(AfterLoop(l), Waiting)
    BY <1>6 DEF More
  <2>2. AfterLoop(l) \in Seq(Task)
    BY <1>4, AfterLoopIs
  <2>3. u \in Elements(AfterLoop(l))
    BY <2>1, <2>2, FreshIs
  <2> QED
    BY <1>4, <1>6, <2>3, AfterLoopIs
<1>7. CASE ~Ends
  <2>1. Goes /\ More = Fresh(ItemTasks(t, NextIndex(t)), Waiting)
    BY <1>2, <1>7 DEF More
  <2>2. ItemTasks(t, NextIndex(t)) \in Seq(Task)
    BY <1>1, <1>4, <1>5, ItemTasksAre
  <2>3. u \in Elements(ItemTasks(t, NextIndex(t)))
    BY <2>1, <2>2, FreshIs
  <2> QED
    BY <1>1, <1>4, <1>5, <1>7, <2>1, <2>3, ItemTasksAre
<1> QED
  BY <1>6, <1>7

\* The queue after a break.
Kept1 == Outside(Received.task.origin, queue)

\* What is queued after a break.
AfterBreak == Fresh(AfterLoop(Received.task.origin), Elements(Kept1) \union (running \ {Received.task}))

\* The queue after a break.
LEMMA BreakQueue ==
  ASSUME TInv, ReceiveBreak
  PROVE  LET l == Received.task.origin IN
         /\ running' = running \ {Received.task}
         /\ queue' \in Seq(Task) /\ OneToOne(queue') /\ Elements(queue') \intersect running' = {}
         /\ l = NULL => queue' = queue /\ done' = done /\ broken' = broken
         /\ l # NULL =>
              /\ l \in Nodes /\ done' = done \union {l} /\ broken' = broken \union {l}
              /\ \A u : u \in Elements(queue') <=>
                   \/ u \in Elements(queue) /\ u.origin # l
                   \/ /\ l \notin done /\ u \notin running \ {Received.task}
                      /\ \E e \in Elements(Edges) : e.from = l /\ e.when = "after" /\ u = AfterTask(l, e.to)
<1> DEFINE l == Received.task.origin
<1>1. Receiving /\ running' = running \ {Received.task}
  BY DEF ReceiveBreak, Take
<1>2. queue \in Seq(Task) /\ OneToOne(queue) /\ Elements(queue) \intersect running = {}
  BY DEF TInv, QueueOK
<1>3. CASE l = NULL
  <2>1. queue' = queue /\ done' = done /\ broken' = broken
    BY <1>3 DEF ReceiveBreak
  <2> QED
    BY <1>1, <1>2, <1>3, <2>1
<1>4. CASE l # NULL
  <2>1. l \in Nodes
    BY <1>1, <1>4, ReceivedIs
  <2>2. queue' = Kept1 \o AfterBreak /\ done' = done \union {l} /\ broken' = broken \union {l}
    BY <1>4, Zenon DEF ReceiveBreak, Kept1, AfterBreak
  <2>3. Kept1 \in Seq(Task) /\ OneToOne(Kept1) /\ Elements(Kept1) = {t \in Elements(queue) : t.origin # l}
    BY <1>2, OutsideIs DEF Kept1
  <2>4. /\ AfterLoop(l) \in Seq(Task) /\ OneToOne(AfterLoop(l))
        /\ \A u : u \in Elements(AfterLoop(l)) <=>
              l \notin done /\ \E e \in Elements(Edges) : e.from = l /\ e.when = "after" /\ u = AfterTask(l, e.to)
    BY <2>1, AfterLoopIs
  <2>5. /\ AfterBreak \in Seq(Task) /\ OneToOne(AfterBreak)
        /\ Elements(AfterBreak) = Elements(AfterLoop(l)) \ (Elements(Kept1) \union (running \ {Received.task}))
    BY <2>4, FreshIs DEF AfterBreak
  <2>6. /\ queue' \in Seq(Task) /\ OneToOne(queue')
        /\ Elements(queue') = Elements(Kept1) \union Elements(AfterBreak)
    BY <2>2, <2>3, <2>5, Extended
  <2>7. Elements(queue') \intersect running' = {}
    BY <1>1, <1>2, <2>3, <2>5, <2>6
  <2>8. \A u : u \in Elements(queue') <=>
                   \/ u \in Elements(queue) /\ u.origin # l
                   \/ /\ u \notin running \ {Received.task}
                      /\ u \in Elements(AfterLoop(l))
    BY <2>3, <2>5, <2>6
  <2> QED
    BY <1>1, <1>4, <2>1, <2>2, <2>4, <2>6, <2>7, <2>8
<1> QED
  BY <1>3, <1>4

\* Taking the first task off the queue.
LEMMA HeadTail ==
  ASSUME NEW q \in Seq(Task), q # <<>>, OneToOne(q)
  PROVE  /\ Head(q) \in Task /\ Head(q) \in Elements(q)
         /\ Tail(q) \in Seq(Task) /\ OneToOne(Tail(q)) /\ Elements(Tail(q)) = Elements(q) \ {Head(q)}
<1>1. /\ Len(q) \in Nat /\ Len(q) # 0 /\ Head(q) = q[1] /\ Head(q) \in Task
      /\ Tail(q) \in Seq(Task) /\ Len(Tail(q)) = Len(q) - 1
      /\ \A i \in 1 .. Len(q) - 1 : Tail(q)[i] = q[i + 1]
  OBVIOUS
<1>2. \A i \in 1 .. Len(Tail(q)) : i + 1 \in 1 .. Len(q) /\ i + 1 # 1 /\ Tail(q)[i] = q[i + 1]
  BY <1>1
<1>3. 1 \in 1 .. Len(q)
  BY <1>1
<1>4. Head(q) \in Elements(q)
  BY <1>1, <1>3, InElements
<1>5. OneToOne(Tail(q))
  <2> SUFFICES ASSUME NEW i \in 1 .. Len(Tail(q)), NEW j \in 1 .. Len(Tail(q)), Tail(q)[i] = Tail(q)[j] PROVE i = j
    BY DEF OneToOne
  <2>1. i + 1 = j + 1
    BY <1>2 DEF OneToOne
  <2> QED
    BY <1>1, <2>1
<1>6. ASSUME NEW x \in Elements(Tail(q)) PROVE x \in Elements(q) /\ x # Head(q)
  <2>1. PICK i \in 1 .. Len(Tail(q)) : x = Tail(q)[i]
    BY InElements
  <2>2. x = q[i + 1] /\ i + 1 \in 1 .. Len(q) /\ i + 1 # 1
    BY <1>2, <2>1
  <2> QED
    BY <1>1, <1>3, <2>2, InElements DEF OneToOne
<1>7. ASSUME NEW x \in Elements(q), x # Head(q) PROVE x \in Elements(Tail(q))
  <2>1. PICK i \in 1 .. Len(q) : x = q[i]
    BY InElements
  <2>2. i # 1
    BY <1>1, <1>7, <2>1
  <2>3. i - 1 \in 1 .. Len(q) - 1 /\ (i - 1) + 1 = i
    BY <1>1, <2>2
  <2>4. i - 1 \in 1 .. Len(Tail(q)) /\ x = Tail(q)[i - 1]
    BY <1>1, <2>1, <2>3
  <2> QED
    BY <2>4, InElements
<1> QED
  BY <1>1, <1>4, <1>5, <1>6, <1>7

\* Putting the first task at the end of the queue.
LEMMA ToBack ==
  ASSUME NEW q \in Seq(Task), q # <<>>, OneToOne(q)
  PROVE  LET a == Append(Tail(q), Head(q)) IN
         a \in Seq(Task) /\ OneToOne(a) /\ Elements(a) = Elements(q)
<1>1. /\ Head(q) \in Task /\ Head(q) \in Elements(q)
      /\ Tail(q) \in Seq(Task) /\ OneToOne(Tail(q)) /\ Elements(Tail(q)) = Elements(q) \ {Head(q)}
  BY HeadTail
<1>2. <<Head(q)>> \in Seq(Task) /\ OneToOne(<<Head(q)>>) /\ Elements(<<Head(q)>>) = {Head(q)}
  BY <1>1, SingleIs
<1>3. Append(Tail(q), Head(q)) = Tail(q) \o <<Head(q)>>
  BY <1>1
<1>4. Elements(Tail(q)) \intersect Elements(<<Head(q)>>) = {}
  BY <1>1, <1>2
<1>5. /\ Tail(q) \o <<Head(q)>> \in Seq(Task) /\ OneToOne(Tail(q) \o <<Head(q)>>)
      /\ Elements(Tail(q) \o <<Head(q)>>) = Elements(Tail(q)) \union Elements(<<Head(q)>>)
  BY <1>1, <1>2, <1>4, Extended
<1> QED
  BY <1>1, <1>2, <1>3, <1>5

\* The head of the queue.
LEMMA DispatchedIs ==
  ASSUME TInv, Dispatching
  PROVE  /\ Head(queue) \in Task /\ Head(queue) \in Elements(queue) /\ Head(queue) \notin running
         /\ Tail(queue) \in Seq(Task) /\ OneToOne(Tail(queue))
         /\ Elements(Tail(queue)) = Elements(queue) \ {Head(queue)}
BY HeadTail DEF TInv, QueueOK, Dispatching

\* The first tasks of a for_each node.
FirstTask(t, i) == [node |-> t.node, after |-> NULL, origin |-> t.node,
                    item |-> [t.item EXCEPT ![Source[t.node]] = i - 1, ![t.node] = i - 1]]

\* The tasks a for_each node is replaced by.
FirstTasks == [i \in 1 .. Least(Width[Head(queue).node], Size[Head(queue).node]) |-> FirstTask(Head(queue), i)]

\* The fields of such a task.
LEMMA FirstTaskIs ==
  ASSUME NEW t \in Task, NEW i \in Nat \ {0}
  PROVE  /\ FirstTask(t, i) \in Task /\ FirstTask(t, i).origin = t.node /\ FirstTask(t, i).node = t.node
         /\ FirstTask(t, i).after = NULL
         /\ FirstTask(t, i).item = [t.item EXCEPT ![Source[t.node]] = i - 1, ![t.node] = i - 1]
         /\ FirstTask(t, i).item[t.node] = i - 1
<1>1. t.item \in [Nodes -> Nat \union {NULL}] /\ t.node \in Nodes
  BY DEF Task, Item
<1>2. Source[t.node] \in Nodes /\ i - 1 \in Nat
  BY <1>1, GraphAssumption
<1> DEFINE x == [t.item EXCEPT ![Source[t.node]] = i - 1, ![t.node] = i - 1]
<1>3. x \in Item /\ x[t.node] = i - 1
  BY <1>1, <1>2 DEF Item
<1> HIDE DEF x
<1>4. FirstTask(t, i) = [node |-> t.node, after |-> NULL, origin |-> t.node, item |-> x]
  BY DEF FirstTask, x
<1>5. FirstTask(t, i) \in Task
  BY <1>1, <1>3, <1>4 DEF Task
<1> QED
  BY <1>3, <1>4, <1>5 DEF x

\* The queue after a for_each node is replaced.
LEMMA ForEachQueue ==
  ASSUME TInv, DispatchForEach
  PROVE  LET t == Head(queue)
             first == Least(Width[t.node], Size[t.node]) IN
         /\ t \in Task /\ first \in Nat
         /\ queue' \in Seq(Task) /\ OneToOne(queue') /\ Elements(queue') \intersect running = {}
         /\ \A u : u \in Elements(queue') <=>
              \/ u \in Elements(queue) \ {t}
              \/ u \notin Pending \ {t} /\ \E i \in 1 .. first : u = FirstTask(t, i)
         /\ next' = IF first > 0 /\ next[t.node] = NULL THEN [next EXCEPT ![t.node] = first] ELSE next
<1> DEFINE t == Head(queue)
           first == Least(Width[t.node], Size[t.node])
<1>1. /\ t \in Task /\ t \in Elements(queue) /\ t \notin running
      /\ Tail(queue) \in Seq(Task) /\ OneToOne(Tail(queue))
      /\ Elements(Tail(queue)) = Elements(queue) \ {t}
  BY DispatchedIs DEF DispatchForEach
<1>2. t.node \in Nodes
  BY <1>1 DEF Task
<1>3. first \in Nat
  BY <1>2, EachIs
<1>4. /\ queue' = Tail(queue) \o Fresh(FirstTasks, Pending \ {t})
      /\ next' = IF first > 0 /\ next[t.node] = NULL THEN [next EXCEPT ![t.node] = first] ELSE next
  BY Zenon DEF DispatchForEach, FirstTasks, FirstTask
<1>5. \A i \in 1 .. first : FirstTask(t, i) \in Task /\ FirstTask(t, i).item[t.node] = i - 1
  <2> HIDE DEF t, first
  <2>1. \A i \in 1 .. first : i \in Nat \ {0}
    BY <1>3
  <2> QED
    BY <1>1, <2>1, FirstTaskIs
<1>6. FirstTasks \in Seq(Task) /\ Len(FirstTasks) = first /\ \A i \in 1 .. first : FirstTasks[i] = FirstTask(t, i)
  BY <1>3, <1>5 DEF FirstTasks
<1> HIDE DEF first, t
<1>7. OneToOne(FirstTasks)
  <2> SUFFICES ASSUME NEW i \in 1 .. first, NEW j \in 1 .. first, FirstTask(t, i) = FirstTask(t, j) PROVE i = j
    BY <1>6 DEF OneToOne
  <2>1. i - 1 = j - 1
    BY <1>5
  <2> QED
    BY <1>3, <2>1
<1>8. \A u : u \in Elements(FirstTasks) <=> \E i \in 1 .. first : u = FirstTask(t, i)
  BY <1>6, InElements
<1>9. /\ Fresh(FirstTasks, Pending \ {t}) \in Seq(Task) /\ OneToOne(Fresh(FirstTasks, Pending \ {t}))
      /\ Elements(Fresh(FirstTasks, Pending \ {t})) = Elements(FirstTasks) \ (Pending \ {t})
  BY <1>6, <1>7, FreshIs
<1>10. Elements(queue) \ {t} \subseteq Pending \ {t} /\ running \subseteq Pending \ {t}
  BY <1>1 DEF Pending
<1>11. /\ queue' \in Seq(Task) /\ OneToOne(queue')
       /\ Elements(queue') = (Elements(queue) \ {t}) \union (Elements(FirstTasks) \ (Pending \ {t}))
  <2>1. Elements(Tail(queue)) \intersect Elements(Fresh(FirstTasks, Pending \ {t})) = {}
    BY <1>1, <1>9, <1>10
  <2> QED
    BY <1>1, <1>4, <1>9, <2>1, Extended
<1>12. Elements(queue') \intersect running = {}
  BY <1>10, <1>11 DEF TInv, QueueOK
<1>13. \A u : u \in Elements(queue') <=>
              \/ u \in Elements(queue) \ {t}
              \/ u \notin Pending \ {t} /\ \E i \in 1 .. first : u = FirstTask(t, i)
  BY <1>8, <1>11
<1> QED
  BY <1>1, <1>3, <1>4, <1>11, <1>12, <1>13 DEF t, first

\* Nothing runs, and what is queued is part of no loop.
LEMMA EmptyQueueOK ==
  ASSUME queue' \in Seq(Task), OneToOne(queue'), running' = {},
         \A u \in Elements(queue') : u.origin = NULL
  PROVE  QueueOK'
BY DEF QueueOK, Pending

\* Less to do.
LEMMA LessQueueOK ==
  ASSUME TInv, queue' \in Seq(Task), OneToOne(queue'), Elements(queue') \intersect running' = {},
         Elements(queue') \union running' \subseteq Pending
  PROVE  QueueOK'
<1>1. Pending \subseteq Task
  <2>1. Elements(queue) \subseteq Task
    BY InElements DEF TInv, QueueOK
  <2> QED
    BY <2>1 DEF TInv, QueueOK, Pending
<1> QED
  BY <1>1 DEF TInv, QueueOK, Pending

\* The queue after a result,
LEMMA ResultQueueOK == ASSUME TInv, ReceiveResult PROVE QueueOK'
<1> DEFINE t == Received.task
<1>1. Receiving
  BY ResultStep
<1>2. t \in Task /\ t \in running /\ t.node \in Nodes
  BY <1>1, ReceivedIs
<1>3. Indexed(t)
  BY <1>2 DEF TInv, QueueOK, Pending, Indexed
<1>4. ASSUME NEW u \in Elements(Follow) PROVE Indexed(u)
  <2>1. PICK e \in Elements(Edges) :
              IF StartsLoop(t.node, Received.out)
                 THEN \E i \in 1 .. Each(t.node) : u = ItemTask(e.to, t, i)
                 ELSE u = NextTask(e.to, t)
    BY <1>1, FollowHas
  <2>2. CASE StartsLoop(t.node, Received.out)
    <3>1. PICK i \in 1 .. Each(t.node) : u = ItemTask(e.to, t, i)
      BY <2>1, <2>2
    <3>2. i \in Nat /\ i - 1 \in Nat
      BY <1>2, EachIs
    <3>3. u.origin = t.node /\ u.item[t.node] = i - 1
      <4> HIDE DEF t
      <4> QED
        BY <1>2, <3>1, <3>2, ItemTaskIs
    <3> QED
      BY <3>2, <3>3 DEF Indexed
  <2>3. CASE ~StartsLoop(t.node, Received.out)
    BY <1>2, <1>3, <2>1, <2>3, NextTaskIs DEF Indexed
  <2> QED
    BY <2>2, <2>3
<1>5. ASSUME NEW u \in Elements(Skipped) PROVE Indexed(u)
  BY <1>1, SkippedHas, AfterTaskIs DEF Indexed
<1>6. ASSUME NEW u \in Elements(More) PROVE Indexed(u)
  <2>1. CASE u.origin = NULL
    BY <2>1 DEF Indexed
  <2>2. CASE u.origin # NULL
    <3>1. Goes /\ t.origin \in Nodes /\ (u = EachTask(t, NextIndex(t)) \/ \E m : u = BodyTask(m, t, NextIndex(t)))
      BY <1>1, <2>2, MoreHas, AfterTaskIs
    <3>2. NextIndex(t) \in Nat /\ t.origin # NULL
      BY <1>1, <3>1, MoreIs, NullIs DEF Goes
    <3>3. u.origin = t.origin /\ u.item[t.origin] = NextIndex(t)
      <4> HIDE DEF t
      <4> QED
        BY <1>2, <3>1, <3>2, EachTaskIs, BodyTaskIs
    <3> QED
      BY <3>2, <3>3 DEF Indexed
  <2> QED
    BY <2>1, <2>2
<1>7. \A u \in Pending' : u \in Pending \/ u \in Elements(Follow) \/ u \in Elements(Skipped) \/ u \in Elements(More)
  BY ResultQueue DEF Pending
<1>8. \A u \in Pending' : u.origin # NULL => u.item[u.origin] \in Nat
  BY <1>4, <1>5, <1>6, <1>7 DEF Indexed, TInv, QueueOK
<1> QED
  BY <1>8, ResultQueue DEF TInv, QueueOK

\* a break,
LEMMA BreakQueueOK == ASSUME TInv, ReceiveBreak PROVE QueueOK'
<1>1. \A u \in Pending' : u \in Pending \/ u.origin = NULL
  BY BreakQueue, AfterTaskIs DEF Pending
<1> QED
  BY <1>1, BreakQueue DEF TInv, QueueOK

\* a for_each node,
LEMMA ForEachQueueOK == ASSUME TInv, DispatchForEach PROVE QueueOK'
<1> DEFINE t == Head(queue)
           first == Least(Width[t.node], Size[t.node])
<1>1. running' = running /\ t \in Task /\ first \in Nat
  BY ForEachQueue DEF DispatchForEach
<1>2. ASSUME NEW i \in 1 .. first PROVE FirstTask(t, i).origin = t.node /\ FirstTask(t, i).item[t.node] \in Nat
  <2>1. i \in Nat \ {0} /\ i - 1 \in Nat
    BY <1>1
  <2> HIDE DEF t
  <2> QED
    BY <1>1, <2>1, FirstTaskIs
<1>3. \A u \in Pending' : u \in Pending \/ \E i \in 1 .. first : u = FirstTask(t, i)
  BY <1>1, ForEachQueue DEF Pending
<1>4. \A u \in Pending' : u.origin # NULL => u.item[u.origin] \in Nat
  <2> HIDE DEF t, first
  <2> QED
    BY <1>2, <1>3 DEF TInv, QueueOK
<1> QED
  BY <1>1, <1>4, ForEachQueue DEF TInv, QueueOK

\* What a resume finds out of date, keeps and reads.
LEMMA ResumeIs ==
  ASSUME Resume
  PROVE  /\ stale' \subseteq Nodes /\ seeds' \subseteq Nodes
         /\ seeds' = Kept(stale') /\ runs' = Reread(seeds') /\ saved' = saved
         /\ queue' = Frontier(runs', seeds') /\ running' = {}
<1>1. seeds' = Kept(stale') /\ runs' = Reread(seeds') /\ saved' = saved
      /\ queue' = Frontier(runs', seeds') /\ running' = {}
  BY DEF Resume
<1>2. stale' \subseteq Nodes
  <2>1. PICK change \in Changes : stale' = {n \in change : saved.out[n] # NULL}
    BY DEF Resume
  <2> QED
    BY <2>1, GraphAssumption
<1> QED
  BY <1>1, <1>2 DEF Kept

\* a resume,
LEMMA ResumeQueueOK == ASSUME TInv, Resume PROVE QueueOK'
<1>1. seeds' \subseteq Nodes /\ queue' = Frontier(runs', seeds') /\ running' = {}
  BY ResumeIs
<1>2. ASSUME NEW n \in Nodes, NEW u \in Elements(Successors(runs', RootTask(n), Latest(runs', n).out))
      PROVE  u.origin = NULL \/ u.item[u.origin] \in Nat
  <2>1. RootTask(n) \in Task /\ RootTask(n).node = n /\ RootTask(n).origin = NULL
    BY RootTaskTyped, RootTaskIs
  <2> DEFINE r == RootTask(n)
  <2>2. PICK m : u = NextTask(m, r) \/ \E i \in 1 .. Each(r.node) : u = ItemTask(m, r, i)
    <3> HIDE DEF r
    <3> DEFINE o == Latest(runs', n).out
               os == runs'
    <3> HIDE DEF o, os
    <3>1. r \in Task /\ u \in Elements(Successors(os, r, o))
      BY <2>1 DEF r, o, os
    <3>2. \E e \in Elements(Edges) :
                 /\ e.from = r.node /\ Taken(os, e, r, o)
                 /\ IF StartsLoop(r.node, o)
                    THEN \E i \in 1 .. Each(r.node) : u = ItemTask(e.to, r, i)
                    ELSE u = NextTask(e.to, r)
      BY <3>1, SuccessorsAre
    <3> QED
      BY <3>2
  <2>3. CASE u = NextTask(m, r)
    BY <2>1, <2>3, NextTaskIs
  <2>4. ASSUME NEW i \in 1 .. Each(r.node), u = ItemTask(m, r, i) PROVE u.item[u.origin] \in Nat
    <3>1. i \in Nat /\ i - 1 \in Nat
      BY <2>1, EachIs
    <3> HIDE DEF r
    <3>2. u.origin = r.node /\ u.item[r.node] = i - 1
      BY <2>1, <2>4, <3>1, ItemTaskIs DEF r
    <3> QED
      BY <3>1, <3>2
  <2> QED
    BY <2>2, <2>3, <2>4
<1>3. \A u \in Elements(queue') : u.origin = NULL \/ u.item[u.origin] \in Nat
  BY <1>1, <1>2, FrontierIs, RootTaskIs
<1>4. queue' \in Seq(Task) /\ OneToOne(queue')
  BY <1>1, FrontierIs
<1> QED
  BY <1>1, <1>3, <1>4 DEF QueueOK, Pending

\* and any step.
LEMMA StepQueueOK == TInv /\ [Next]_vars => QueueOK'
<1> SUFFICES ASSUME TInv, [Next]_vars PROVE QueueOK'
  OBVIOUS
<1>0. queue \in Seq(Task) /\ OneToOne(queue) /\ Elements(queue) \intersect running = {}
  BY DEF TInv, QueueOK
<1>1. ASSUME queue' = queue, running' \subseteq running PROVE QueueOK'
  BY <1>0, <1>1, LessQueueOK DEF Pending
<1>2. CASE DispatchStopped \/ DispatchDone \/ RequestStop \/ UNCHANGED vars
  BY <1>1, <1>2 DEF DispatchStopped, DispatchDone, RequestStop, vars
<1>3. CASE ReceiveTerminal \/ ReceiveHalt
  BY <1>1, <1>3 DEF ReceiveTerminal, ReceiveHalt, Take
<1>4. ASSUME NEW w \in working, Reuse(w) \/ Finish(w) \/ Retry(w) PROVE QueueOK'
  BY <1>1, <1>4 DEF Reuse, Finish, Retry, Send
<1>5. CASE DispatchSeeded \/ DispatchLimit \/ DispatchStart
  <2>1. Dispatching /\ queue' = Tail(queue) /\ running' \subseteq running \union {Head(queue)}
    BY <1>5 DEF DispatchSeeded, DispatchLimit, DispatchStart, Startable
  <2> QED
    BY <1>0, <2>1, DispatchedIs, LessQueueOK DEF Pending
<1>6. CASE DispatchBlocked
  <2>1. queue # <<>> /\ queue' = Append(Tail(queue), Head(queue)) /\ running' = running
    BY <1>6 DEF DispatchBlocked, Dispatching
  <2>2. queue' \in Seq(Task) /\ OneToOne(queue') /\ Elements(queue') = Elements(queue)
    BY <1>0, <2>1, ToBack
  <2> QED
    BY <1>0, <2>1, <2>2, LessQueueOK DEF Pending
<1>7. CASE DispatchForEach
  BY <1>7, ForEachQueueOK
<1>8. CASE ReceiveBreak
  BY <1>8, BreakQueueOK
<1>9. CASE ReceiveResult
  BY <1>9, ResultQueueOK
<1>10. CASE Crash
  <2>1. queue' = <<>> /\ running' = {} /\ <<>> \in Seq(Task)
    BY <1>10 DEF Crash
  <2> QED
    BY <2>1, EmptyIs, EmptyQueueOK
<1>11. CASE Resume
  BY <1>11, ResumeQueueOK
<1> QED
  BY <1>2, <1>3, <1>4, <1>5, <1>6, <1>7, <1>8, <1>9, <1>10, <1>11
  DEF Next, Scheduler, NodeSteps, Over

\* Nothing is started, ended or received.
LEMMA SameWorkOK == ASSUME WorkOK, running' = running, working' = working, results' = results PROVE WorkOK'
BY DEF WorkOK

\* Nothing is at work.
LEMMA NoWorkOK == ASSUME working' = {}, results' = <<>> PROVE WorkOK'
<1>1. <<>> \in Seq(Result)
  OBVIOUS
<1> QED
  BY <1>1, EmptyIs DEF WorkOK

\* A result is received.
LEMMA TakeWorkOK ==
  ASSUME TInv, Receiving, Take(Received), results' = Tail(results), working' = working
  PROVE  WorkOK'
<1>1. results \in Seq(Result) /\ results # <<>>
  BY DEF TInv, WorkOK, Receiving
<1>2. Received = results[1] /\ running' = running \ {results[1].task} /\ 1 \in 1 .. Len(results)
  BY ReceivedIs DEF Take
<1>3. /\ results' \in Seq(Result)
      /\ \A i \in 1 .. Len(results') : i + 1 \in 1 .. Len(results) /\ i + 1 # 1 /\ results'[i] = results[i + 1]
  BY <1>1
<1>4. \A i \in 1 .. Len(results') : results'[i].task \in running'
  BY <1>2, <1>3 DEF TInv, WorkOK
<1>5. ASSUME NEW i \in 1 .. Len(results'), NEW j \in 1 .. Len(results'), results'[i].task = results'[j].task PROVE i = j
  <2>1. i + 1 = j + 1
    BY <1>3, <1>5 DEF TInv, WorkOK
  <2> QED
    BY <1>3, <2>1
<1>6. \A w \in working' : w.task \in running'
  BY <1>2 DEF TInv, WorkOK
<1>7. \A w \in working' : \A i \in 1 .. Len(results') : results'[i].task # w.task
  BY <1>3 DEF TInv, WorkOK
<1> QED
  BY <1>3, <1>4, <1>5, <1>6, <1>7 DEF TInv, WorkOK

\* A result is sent.
LEMMA SendWorkOK ==
  ASSUME TInv, NEW w \in working, NEW item \in Item, NEW out \in Outcome, NEW halt \in BOOLEAN,
         Send(w, item, out, halt)
  PROVE  WorkOK'
<1> DEFINE r == [task |-> w.task, item |-> item, out |-> out, halt |-> halt]
<1>1. working' = working \ {w} /\ results' = Append(results, r) /\ running' = running
  BY DEF Send
<1>2. w.task \in running /\ w.task \in Task
  BY DEF TInv, WorkOK, QueueOK
<1>3. r \in Result /\ r.task = w.task
  BY <1>2 DEF Result
<1> HIDE DEF r
<1>4. results \in Seq(Result)
  BY DEF TInv, WorkOK
<1>5. /\ results' \in Seq(Result) /\ Len(results) \in Nat /\ Len(results') = Len(results) + 1
      /\ \A i \in 1 .. Len(results) : results'[i] = results[i]
      /\ results'[Len(results) + 1] = r
  BY <1>1, <1>3, <1>4
<1>6. \A i \in 1 .. Len(results') : i \in 1 .. Len(results) \/ i = Len(results) + 1
  BY <1>5
<1>7. \A i \in 1 .. Len(results') : results'[i].task \in running'
  BY <1>1, <1>2, <1>3, <1>5, <1>6 DEF TInv, WorkOK
<1>8. ASSUME NEW i \in 1 .. Len(results'), NEW j \in 1 .. Len(results'), results'[i].task = results'[j].task PROVE i = j
  BY <1>3, <1>5, <1>6, <1>8 DEF TInv, WorkOK
<1>9. \A v \in working' : \A i \in 1 .. Len(results') : results'[i].task # v.task
  BY <1>1, <1>3, <1>5, <1>6 DEF TInv, WorkOK
<1> QED
  BY <1>1, <1>5, <1>7, <1>8, <1>9 DEF TInv, WorkOK

\* A task is started.
LEMMA StartWorkOK == ASSUME TInv, DispatchStart PROVE WorkOK'
<1> DEFINE t == Head(queue)
           v == [task |-> t, attempt |-> 1]
<1>1. running' = running \union {t} /\ working' = working \union {v} /\ results' = results
  BY DEF DispatchStart
<1>2. t \in Task /\ t \notin running
  BY DispatchedIs DEF DispatchStart, Startable
<1>3. v.task = t /\ v.attempt = 1 /\ v = [task |-> v.task, attempt |-> v.attempt]
  OBVIOUS
<1>4. 1 \in 1 .. Retries[t.node] + 1
  <2>1. t.node \in Nodes
    BY <1>2 DEF Task
  <2>2. Retries[t.node] \in Nat
    BY <2>1, GraphAssumption
  <2> QED
    BY <2>2
<1> HIDE DEF t, v
<1>5. \A w \in working : w.task # t
  BY <1>2 DEF TInv, WorkOK
<1>6. \A i \in 1 .. Len(results) : results[i].task # t
  BY <1>2 DEF TInv, WorkOK
<1> QED
  BY <1>1, <1>3, <1>4, <1>5, <1>6 DEF TInv, WorkOK

\* A node is tried again.
LEMMA RetryWorkOK == ASSUME TInv, NEW w \in working, Retry(w) PROVE WorkOK'
<1> DEFINE v == [w EXCEPT !.attempt = @ + 1]
<1>1. working' = (working \ {w}) \union {v} /\ running' = running /\ results' = results
  BY DEF Retry
<1>2. w = [task |-> w.task, attempt |-> w.attempt] /\ w.task \in running
      /\ w.attempt \in 1 .. Retries[w.task.node] + 1
  BY DEF TInv, WorkOK
<1>3. v.task = w.task /\ v.attempt = w.attempt + 1 /\ v = [task |-> v.task, attempt |-> v.attempt]
  BY <1>2
<1>4. v.attempt \in 1 .. Retries[v.task.node] + 1
  <2>1. w.task.node \in Nodes
    BY <1>2 DEF TInv, QueueOK, Task
  <2>2. Retries[w.task.node] \in Nat /\ w.attempt <= Retries[w.task.node]
    BY <2>1, GraphAssumption DEF Retry
  <2> QED
    BY <1>2, <1>3, <2>2
<1> HIDE DEF v
<1> QED
  BY <1>1, <1>2, <1>3, <1>4 DEF TInv, WorkOK

\* A saved output that is used again.
LEMMA SnapshotTyped == \A n : \A item \in Item : Snapshot(n, item) \in Item
BY NoItemTyped DEF Snapshot

\* What a node does ends in an outcome.
LEMMA WorksIs ==
  ASSUME TInv, NEW w \in working
  PROVE  w.task \in Task /\ w.task \in running /\ w.task.node \in Nodes /\ w.task.item \in Item
BY DEF TInv, WorkOK, QueueOK, Task

\* An output of before the resume is sent again.
LEMMA ReuseSends ==
  ASSUME TInv, NEW w \in working, Reuse(w)
  PROVE  \E item \in Item, out \in Outcome, halt \in BOOLEAN : Send(w, item, out, halt)
<1>1. PICK e \in saved.entries : Send(w, Snapshot(w.task.node, w.task.item), e.out, FALSE)
  BY DEF Reuse
<1>2. e.out \in Outcome
  BY DEF TInv, RecordOK
<1>3. Snapshot(w.task.node, w.task.item) \in Item
  BY WorksIs, SnapshotTyped
<1> QED
  BY <1>1, <1>2, <1>3

\* A node halts the run, or does not.
LEMMA HaltsRunIs == \A n, out : HaltsRun(n, out) \in BOOLEAN
BY DEF HaltsRun

\* A node ends.
LEMMA FinishSends ==
  ASSUME TInv, NEW w \in working, Finish(w)
  PROVE  \E item \in Item, out \in Outcome, halt \in BOOLEAN : Send(w, item, out, halt)
<1>1. w.task.node \in Nodes /\ w.task.item \in Item
  BY WorksIs
<1>2. PICK out \in Outcomes[w.task.node] : Send(w, w.task.item, out, HaltsRun(w.task.node, out) \/ stop)
  BY DEF Finish
<1>3. out \in Outcome
  BY <1>1, <1>2, GraphAssumption
<1>4. (HaltsRun(w.task.node, out) \/ stop) \in BOOLEAN
  BY Zenon
<1> QED
  BY <1>1, <1>2, <1>3, <1>4, Zenon

\* What is at work, after any step.
LEMMA StepWorkOK == TInv /\ [Next]_vars => WorkOK'
<1> SUFFICES ASSUME TInv, [Next]_vars PROVE WorkOK'
  OBVIOUS
<1>1. CASE DispatchStopped \/ DispatchLimit \/ ReceiveTerminal \/ ReceiveHalt \/ Crash \/ Resume
  BY <1>1, NoWorkOK DEF DispatchStopped, DispatchLimit, ReceiveTerminal, ReceiveHalt, Crash, Resume, Halt
<1>2. CASE DispatchSeeded \/ DispatchBlocked \/ DispatchForEach \/ DispatchDone \/ RequestStop \/ UNCHANGED vars
  BY <1>2, SameWorkOK DEF DispatchSeeded, DispatchBlocked, DispatchForEach, DispatchDone, RequestStop, vars, TInv
<1>3. CASE DispatchStart
  BY <1>3, StartWorkOK
<1>4. CASE ReceiveBreak \/ ReceiveResult
  <2>1. Receiving /\ Take(Received) /\ results' = Tail(results) /\ working' = working
    BY <1>4, ResultStep DEF ReceiveBreak
  <2> QED
    BY <2>1, TakeWorkOK
<1>5. ASSUME NEW w \in working, Reuse(w) \/ Finish(w) PROVE WorkOK'
  BY <1>5, ReuseSends, FinishSends, SendWorkOK
<1>6. ASSUME NEW w \in working, Retry(w) PROVE WorkOK'
  BY <1>6, RetryWorkOK
<1> QED
  BY <1>1, <1>2, <1>3, <1>4, <1>5, <1>6 DEF Next, Scheduler, NodeSteps, Over

-----------------------------------------------------------------------------
\* The last output of a node is an output.
LEMMA LatestTyped ==
  ASSUME NEW os \in [Nodes -> Seq(Output)], NEW n \in Nodes
  PROVE  /\ Latest(os, n) \in Output \union {NULL}
         /\ os[n] # <<>> => Latest(os, n) \in Elements(os[n]) /\ Latest(os, n) \in Output
<1>1. os[n] \in Seq(Output)
  OBVIOUS
<1>2. CASE os[n] = <<>>
  BY <1>2 DEF Latest
<1>3. CASE os[n] # <<>>
  <2>1. Len(os[n]) \in 1 .. Len(os[n]) /\ os[n][Len(os[n])] \in Output
    BY <1>1, <1>3
  <2> QED
    BY <1>3, <2>1, InElements DEF Latest
<1> QED
  BY <1>2, <1>3

\* What is recorded are outputs.
LEMMA RecordedTyped ==
  ASSUME TInv, Receiving
  PROVE  /\ Recorded(Received) \in [Nodes -> Seq(Output)]
         /\ Recorded(Received)[Received.task.node] =
              Append(runs[Received.task.node], [item |-> Received.item, out |-> Received.out])
         /\ \A n \in Nodes : n # Received.task.node => Recorded(Received)[n] = runs[n]
         /\ [item |-> Received.item, out |-> Received.out] \in Output
<1>1. [item |-> Received.item, out |-> Received.out] \in Output /\ Received.task.node \in Nodes
  BY ReceivedIs DEF Output
<1>2. runs \in [Nodes -> Seq(Output)]
  BY DEF TInv, RecordOK
<1> QED
  BY <1>1, <1>2 DEF Recorded

\* A result is recorded.
LEMMA TakeRecordOK == ASSUME TInv, Receiving, Take(Received) PROVE RecordOK'
<1>1. runs' = Recorded(Received) /\ saved' = Saved(runs', Received.task, Received.out)
  BY DEF Take
<1>2. runs' \in [Nodes -> Seq(Output)]
  BY <1>1, RecordedTyped
<1>3. saved'.out = [n \in Nodes |-> Latest(runs', n)]
  BY <1>1 DEF Saved
<1>4. saved'.out \in [Nodes -> Output \union {NULL}]
  BY <1>2, <1>3, LatestTyped
<1>5. \A e \in saved'.entries : e.out \in Outcome
  <2>1. saved'.entries = {e \in saved.entries : e.key # TaskKey(Received.task)}
                           \union {[key |-> TaskKey(Received.task), out |-> Received.out]}
    BY <1>1 DEF Saved
  <2>2. Received.out \in Outcome
    BY ReceivedIs
  <2> QED
    BY <2>1, <2>2 DEF TInv, RecordOK
<1> QED
  BY <1>2, <1>4, <1>5 DEF RecordOK

\* The empty checkpoint.
LEMMA NoCheckpointOK == NoCheckpoint.out \in [Nodes -> Output \union {NULL}] /\ NoCheckpoint.entries = {}
BY DEF NoCheckpoint

\* What a resume reads are outputs.
LEMMA RereadTyped ==
  ASSUME TInv, NEW ch
  PROVE  Reread(Kept(ch)) \in [Nodes -> Seq(Output)]
<1>1. ASSUME NEW n \in Nodes, n \in Kept(ch) PROVE [saved.out[n] EXCEPT !.item = Snapshot(n, @)] \in Output
  <2>1. saved.out[n] \in Output
    BY <1>1 DEF TInv, RecordOK, Kept
  <2>2. Snapshot(n, saved.out[n].item) \in Item
    BY <2>1, SnapshotTyped DEF Output
  <2> QED
    BY <2>1, <2>2 DEF Output
<1>2. \A n \in Nodes : (IF n \in Kept(ch) THEN <<[saved.out[n] EXCEPT !.item = Snapshot(n, @)]>> ELSE <<>>) \in Seq(Output)
  BY <1>1
<1> QED
  BY <1>2 DEF Reread

\* What a death leaves of the checkpoint.
LEMMA CrashLeaves ==
  ASSUME TInv, Crash
  PROVE  \/ saved' = saved
         \/ saved' = NoCheckpoint
         \/ /\ Receiving
            /\ \E blank, lost, now : /\ saved' = Torn(now, blank, lost)
                                    /\ \/ now = saved
                                       \/ now = Saved(Recorded(Received), Received.task, Received.out)
BY DEF Crash, Receiving

\* A checkpoint that was not written to its end.
LEMMA TornIs ==
  ASSUME NEW now, NEW blank, NEW lost
  PROVE  /\ \A n \in Nodes : Torn(now, blank, lost).out[n] =
              IF saved.out[n] = NULL THEN NULL ELSE IF n \in blank THEN BlankOutput ELSE now.out[n]
         /\ DOMAIN Torn(now, blank, lost).out = Nodes
         /\ Torn(now, blank, lost).out = [n \in Nodes |-> Torn(now, blank, lost).out[n]]
         /\ \A e \in Torn(now, blank, lost).entries : e.out = BlankEntry \/ \E f \in now.entries : e.out = f.out
<1> DEFINE keys == {e.key : e \in saved.entries}
           out == [n \in Nodes |-> IF saved.out[n] = NULL THEN NULL
                                   ELSE IF n \in blank THEN BlankOutput ELSE now.out[n]]
           entries == {[key |-> e.key, out |-> IF e.key[1] \in lost THEN BlankEntry ELSE e.out] :
                         e \in {f \in now.entries : f.key \in keys}}
<1>1. Torn(now, blank, lost) = [out |-> out, entries |-> entries]
  BY DEF Torn
<1>2. \A e \in entries : e.out = BlankEntry \/ \E f \in now.entries : e.out = f.out
  OBVIOUS
<1> HIDE DEF entries, keys
<1>3. Torn(now, blank, lost).out = out /\ Torn(now, blank, lost).entries = entries
  BY <1>1
<1>4. out = [n \in Nodes |-> out[n]] /\ DOMAIN out = Nodes
  OBVIOUS
<1> QED
  BY <1>2, <1>3, <1>4

\* A new checkpoint.
LEMMA NewRecordOK ==
  ASSUME TInv, Receiving
  PROVE  /\ Saved(Recorded(Received), Received.task, Received.out).out \in [Nodes -> Output \union {NULL}]
         /\ \A n \in Nodes : Saved(Recorded(Received), Received.task, Received.out).out[n] = Latest(Recorded(Received), n)
         /\ \A e \in Saved(Recorded(Received), Received.task, Received.out).entries : e.out \in Outcome
<1> DEFINE os == Recorded(Received)
           now == Saved(os, Received.task, Received.out)
<1>1. os \in [Nodes -> Seq(Output)]
  BY RecordedTyped
<1> HIDE DEF os
<1>2. now.out = [n \in Nodes |-> Latest(os, n)]
  BY DEF Saved
<1>3. now.out \in [Nodes -> Output \union {NULL}]
  BY <1>1, <1>2, LatestTyped
<1>4. \A e \in now.entries : e.out \in Outcome
  <2>1. now.entries = {e \in saved.entries : e.key # TaskKey(Received.task)}
                        \union {[key |-> TaskKey(Received.task), out |-> Received.out]}
    BY DEF Saved
  <2>2. Received.out \in Outcome
    BY ReceivedIs
  <2> QED
    BY <2>1, <2>2 DEF TInv, RecordOK
<1> HIDE DEF now
<1> QED
  BY <1>2, <1>3, <1>4 DEF now, os

\* What it says of a node.
LEMMA TornOutput ==
  ASSUME NEW now, NEW blank, NEW lost, NEW n \in Nodes, Torn(now, blank, lost).out[n] # NULL
  PROVE  /\ saved.out[n] # NULL
         /\ Torn(now, blank, lost).out[n] = BlankOutput \/ Torn(now, blank, lost).out[n] = now.out[n]
BY DEF Torn

\* A checkpoint that was not written to its end is well formed.
LEMMA TornRecordOK ==
  ASSUME TInv, NEW now, NEW blank, NEW lost, now.out \in [Nodes -> Output \union {NULL}],
         \A e \in now.entries : e.out \in Outcome
  PROVE  /\ Torn(now, blank, lost).out \in [Nodes -> Output \union {NULL}]
         /\ \A e \in Torn(now, blank, lost).entries : e.out \in Outcome
<1>1. BlankOutput \in Output /\ BlankEntry \in Outcome
  BY DEF BlankOutput, BlankEntry, Output, Outcome, NoItem, Item
<1> DEFINE c == Torn(now, blank, lost)
<1>2. /\ \A n \in Nodes : c.out[n] =
           IF saved.out[n] = NULL THEN NULL ELSE IF n \in blank THEN BlankOutput ELSE now.out[n]
      /\ c.out = [n \in Nodes |-> c.out[n]]
      /\ \A e \in c.entries : e.out = BlankEntry \/ \E f \in now.entries : e.out = f.out
  BY TornIs
<1> HIDE DEF c
<1>3. \A n \in Nodes : c.out[n] \in Output \union {NULL}
  BY <1>1, <1>2
<1>4. \A e \in c.entries : e.out \in Outcome
  BY <1>1, <1>2
<1>5. c.out \in [Nodes -> Output \union {NULL}]
  BY ONLY <1>2, <1>3
<1> QED
  BY <1>4, <1>5 DEF c

\* What is recorded, after any step.
LEMMA StepRecordOK == TInv /\ [Next]_vars => RecordOK'
<1> SUFFICES ASSUME TInv, [Next]_vars PROVE RecordOK'
  OBVIOUS
<1>1. ASSUME runs' = runs, saved' = saved PROVE RecordOK'
  BY <1>1 DEF TInv, RecordOK
<1>2. CASE \/ DispatchStopped \/ DispatchLimit \/ DispatchSeeded \/ DispatchBlocked \/ DispatchForEach
           \/ DispatchDone \/ DispatchStart \/ RequestStop \/ UNCHANGED vars
  BY <1>1, <1>2 DEF DispatchStopped, DispatchLimit, DispatchSeeded, DispatchBlocked, DispatchForEach,
                    DispatchDone, DispatchStart, RequestStop, vars
<1>3. ASSUME NEW w \in working, Reuse(w) \/ Finish(w) \/ Retry(w) PROVE RecordOK'
  BY <1>1, <1>3 DEF Reuse, Finish, Retry, Send
<1>4. CASE ReceiveBreak \/ ReceiveTerminal \/ ReceiveHalt \/ ReceiveResult
  <2>1. Receiving /\ Take(Received)
    BY <1>4 DEF ReceiveBreak, ReceiveTerminal, ReceiveHalt, ReceiveResult
  <2> QED
    BY <2>1, TakeRecordOK
<1>5. CASE Crash
  <2>1. runs' = runs
    BY <1>5 DEF Crash
  <2>2. CASE saved' = saved \/ saved' = NoCheckpoint
    BY <2>1, <2>2, NoCheckpointOK DEF TInv, RecordOK
  <2>3. ASSUME Receiving, NEW blank, NEW lost, NEW now, saved' = Torn(now, blank, lost),
               now = saved \/ now = Saved(Recorded(Received), Received.task, Received.out)
        PROVE  RecordOK'
    <3>1. now.out \in [Nodes -> Output \union {NULL}] /\ \A e \in now.entries : e.out \in Outcome
      BY <2>3, NewRecordOK DEF TInv, RecordOK
    <3>2. /\ Torn(now, blank, lost).out \in [Nodes -> Output \union {NULL}]
          /\ \A e \in Torn(now, blank, lost).entries : e.out \in Outcome
      BY <3>1, TornRecordOK
    <3> QED
      BY <2>1, <2>3, <3>2 DEF TInv, RecordOK
  <2> QED
    BY <1>5, <2>2, <2>3, CrashLeaves
<1>6. CASE Resume
  <2>1. runs' = Reread(Kept(stale')) /\ saved' = saved
    BY <1>6, ResumeIs
  <2> QED
    BY <2>1, RereadTyped DEF TInv, RecordOK
<1> QED
  BY <1>2, <1>3, <1>4, <1>5, <1>6 DEF Next, Scheduler, NodeSteps, Over

\* An item with one more index.
LEMMA ItemUpdate ==
  ASSUME NEW x \in Item, NEW n \in Nodes, NEW i \in Nat
  PROVE  [x EXCEPT ![n] = i] \in Item
BY DEF Item

\* The next index of each loop, after any step.
LEMMA StepNextOK == TInv /\ [Next]_vars => next' \in Item
<1> SUFFICES ASSUME TInv, [Next]_vars PROVE next' \in Item
  OBVIOUS
<1>0. next \in Item
  BY DEF TInv, RestOK
<1>1. CASE next' = next
  BY <1>0, <1>1
<1>2. CASE DispatchForEach
  <2> DEFINE n == Head(queue).node
             first == Least(Width[n], Size[n])
  <2>1. Head(queue) \in Task /\ first \in Nat /\ next' = IF first > 0 /\ next[n] = NULL THEN [next EXCEPT ![n] = first] ELSE next
    BY <1>2, ForEachQueue
  <2>2. n \in Nodes
    BY <2>1 DEF Task
  <2> HIDE DEF n, first
  <2>3. [next EXCEPT ![n] = first] \in Item
    BY <1>0, <2>1, <2>2, ItemUpdate
  <2> QED
    BY <1>0, <2>1, <2>3
<1>3. CASE ReceiveResult
  <2> DEFINE n == Received.task.node
             l == Received.task.origin
             i == NextIndex(Received.task)
             a == IF Kind[n] = "infinite" THEN 0 ELSE Least(Width[n], Size[n])
  <2>1. Receiving /\ next' = IF Goes THEN [NextStart EXCEPT ![l] = i + 1] ELSE NextStart
    BY <1>3, ResultStep
  <2>2. n \in Nodes
    BY <2>1, ReceivedIs
  <2>3. a \in Nat
    BY <2>2, EachIs
  <2>4. NextStart = next \/ NextStart = [next EXCEPT ![n] = a]
    BY DEF NextStart
  <2>5. Goes => l \in Nodes /\ i \in Nat
    BY <2>1, MoreIs DEF Goes
  <2> HIDE DEF n, l, i, a
  <2>6. NextStart \in Item
    BY <1>0, <2>2, <2>3, <2>4, ItemUpdate
  <2>7. ASSUME Goes PROVE [NextStart EXCEPT ![l] = i + 1] \in Item
    <3>1. l \in Nodes /\ i + 1 \in Nat
      BY <2>5, <2>7
    <3> QED
      BY <2>6, <3>1, ItemUpdate
  <2> QED
    BY <2>1, <2>6, <2>7
<1>4. CASE Resume
  BY <1>4 DEF Resume, Item
<1> QED
  BY <1>1, <1>2, <1>3, <1>4
  DEF Next, Scheduler, NodeSteps, Over, DispatchStopped, DispatchLimit, DispatchSeeded, DispatchBlocked,
      DispatchDone, DispatchStart, RequestStop, vars, loops, Reuse, Finish, Retry, Send, ReceiveBreak, ReceiveTerminal,
      ReceiveHalt, Crash

\* A broken loop is over.
LEMMA StepDoneOK == TInv /\ [Next]_vars => broken' \subseteq done' /\ done' \subseteq Nodes
<1> SUFFICES ASSUME TInv, [Next]_vars PROVE broken' \subseteq done' /\ done' \subseteq Nodes
  OBVIOUS
<1>0. broken \subseteq done /\ done \subseteq Nodes
  BY DEF TInv, RestOK
<1>1. CASE broken' = broken /\ done' = done
  BY <1>0, <1>1
<1>2. CASE ReceiveBreak
  BY <1>0, <1>2, BreakQueue
<1>3. CASE ReceiveResult
  <2>1. /\ Receiving /\ broken' = broken
        /\ done' = done \union (IF EmptyLoop THEN {Received.task.node} ELSE {})
                         \union (IF Ends THEN {Received.task.origin} ELSE {})
    BY <1>3, ResultStep
  <2>2. Received.task.node \in Nodes
    BY <2>1, ReceivedIs
  <2>3. Ends => Received.task.origin \in Nodes
    BY <2>1, MoreIs DEF Ends
  <2> QED
    BY <1>0, <2>1, <2>2, <2>3
<1>4. CASE Resume
  BY <1>4 DEF Resume
<1> QED
  BY <1>1, <1>2, <1>3, <1>4
  DEF Next, Scheduler, NodeSteps, Over, DispatchStopped, DispatchLimit, DispatchSeeded, DispatchBlocked, DispatchForEach,
      DispatchDone, DispatchStart, RequestStop, vars, loops, Reuse, Finish, Retry, Send, ReceiveTerminal,
      ReceiveHalt, Crash

\* Flags stay flags.
LEMMA StepFlagsOK == TInv /\ [Next]_vars => stop' \in BOOLEAN /\ halted' \in BOOLEAN /\ verdict' \in BOOLEAN \union {NULL}
<1> SUFFICES ASSUME TInv, [Next]_vars
             PROVE  stop' \in BOOLEAN /\ halted' \in BOOLEAN /\ verdict' \in BOOLEAN \union {NULL}
  OBVIOUS
<1>0. stop \in BOOLEAN /\ halted \in BOOLEAN /\ verdict \in BOOLEAN \union {NULL}
  BY DEF TInv, RestOK
<1>1. CASE UNCHANGED <<stop, ending>>
  BY <1>0, <1>1 DEF ending
<1>2. ASSUME stop' = stop, NEW v \in BOOLEAN \union {NULL}, Halt(v)
      PROVE  stop' \in BOOLEAN /\ halted' \in BOOLEAN /\ verdict' \in BOOLEAN \union {NULL}
  BY <1>0, <1>2, Zenon DEF Halt
<1>3. CASE DispatchStopped \/ DispatchLimit \/ ReceiveHalt
  <2>1. stop' = stop /\ Halt(NULL)
    BY <1>3, Zenon DEF DispatchStopped, DispatchLimit, ReceiveHalt, Take
  <2> QED
    BY <1>2, <2>1
<1>4. CASE ReceiveTerminal
  <2>1. stop' = stop /\ Halt(Kind[Received.task.node] = "pass")
    BY <1>4, Zenon DEF ReceiveTerminal, Take
  <2>2. (Kind[Received.task.node] = "pass") \in BOOLEAN \union {NULL}
    BY Zenon
  <2> QED
    BY <1>2, <2>1, <2>2, Zenon
<1>5. CASE RequestStop
  BY <1>0, <1>5 DEF RequestStop, ending
<1>6. CASE Resume
  BY <1>6 DEF Resume
<1> QED
  BY <1>1, <1>3, <1>4, <1>5, <1>6
  DEF Next, Scheduler, NodeSteps, Over, DispatchSeeded, DispatchBlocked, DispatchForEach,
      DispatchDone, DispatchStart, vars, ending, Reuse, Finish, Retry, Send, ReceiveBreak, ReceiveResult, Take, Crash

\* The rest of the state, after any step.
LEMMA StepRestOK == TInv /\ [Next]_vars => RestOK'
<1> SUFFICES ASSUME TInv, [Next]_vars
             PROVE  /\ total' \in 0 .. MaxTotalNodeRuns + 1
                    /\ pc' \in {"dispatch", "receive"} => total' <= MaxTotalNodeRuns
                    /\ pc' \in {"dispatch", "receive", "ended", "crashed"}
                    /\ seeds' \subseteq Nodes /\ stale' \subseteq Nodes
                    /\ resumes' \in 0 .. MaxResumes
  BY StepNextOK, StepDoneOK, StepFlagsOK DEF RestOK
<1>0. /\ total \in 0 .. MaxTotalNodeRuns + 1
      /\ pc \in {"dispatch", "receive"} => total <= MaxTotalNodeRuns
      /\ pc \in {"dispatch", "receive", "ended", "crashed"}
      /\ seeds \subseteq Nodes /\ stale \subseteq Nodes
      /\ resumes \in 0 .. MaxResumes
  BY DEF TInv, RestOK
<1>1. CASE UNCHANGED <<total, pc, seeds, stale, resumes>>
  BY <1>0, <1>1
<1>2. CASE UNCHANGED <<total, seeds, stale, resumes>> /\ (pc' = "ended" \/ pc' = "crashed")
  BY <1>0, <1>2
<1>3. CASE UNCHANGED <<total, seeds, stale, resumes>> /\ pc' \in {"dispatch", "receive"} /\ pc \in {"dispatch", "receive"}
  BY <1>0, <1>3
<1>4. CASE DispatchSeeded \/ DispatchForEach \/ UNCHANGED vars \/ RequestStop
  BY <1>1, <1>4 DEF DispatchSeeded, DispatchForEach, RequestStop, vars, resume
<1>5. CASE \E w \in working : Reuse(w) \/ Finish(w) \/ Retry(w)
  BY <1>1, <1>5 DEF Reuse, Finish, Retry, Send, resume
<1>6. CASE DispatchBlocked \/ ReceiveBreak \/ ReceiveResult
  BY <1>3, <1>6 DEF DispatchBlocked, Dispatching, ReceiveBreak, ReceiveResult, Receiving, Take, resume
<1>7. CASE DispatchDone
  BY <1>2, <1>3, <1>7 DEF DispatchDone, resume
<1>8. CASE Crash \/ DispatchStopped \/ ReceiveHalt \/ ReceiveTerminal
  BY <1>2, <1>8 DEF Crash, DispatchStopped, ReceiveHalt, ReceiveTerminal, Take, Halt, resume
<1>11. CASE DispatchLimit
  <2>1. seeds' = seeds /\ stale' = stale /\ resumes' = resumes /\ pc' = "ended" /\ total' = total + 1 /\ pc = "dispatch"
    BY <1>11 DEF DispatchLimit, Startable, Dispatching, Halt, resume
  <2> QED
    BY <1>0, <2>1, BoundAssumption
<1>12. CASE DispatchStart
  <2>1. seeds' = seeds /\ stale' = stale /\ resumes' = resumes /\ pc' = pc /\ total' = total + 1 /\ total < MaxTotalNodeRuns
    BY <1>12 DEF DispatchStart, resume
  <2> QED
    BY <1>0, <2>1, BoundAssumption
<1>14. CASE Resume
  <2>1. total' = 0 /\ pc' = "dispatch" /\ resumes' = resumes + 1 /\ resumes < MaxResumes
    BY <1>14 DEF Resume
  <2>2. seeds' \subseteq Nodes /\ stale' \subseteq Nodes
    BY <1>14, ResumeIs
  <2> QED
    BY <1>0, <2>1, <2>2, BoundAssumption
<1> QED
  BY <1>4, <1>5, <1>6, <1>7, <1>8, <1>11, <1>12, <1>14 DEF Next, Scheduler, NodeSteps, Over

\* The type invariant holds at first,
LEMMA InitTInv == Init => TInv
<1> SUFFICES ASSUME Init PROVE TInv
  OBVIOUS
<1>1. QueueOK
  <2>1. running = {} /\ queue = [i \in 1 .. Len(Roots) |-> RootTask(Roots[i])]
    BY DEF Init
  <2>2. /\ queue \in Seq(Task) /\ OneToOne(queue)
        /\ \A t : t \in Elements(queue) <=> \E n \in Elements(Roots) : t = RootTask(n)
    BY <2>1, RootTasksAre
  <2> QED
    BY <2>1, <2>2, RootTaskIs DEF QueueOK, Pending
<1>2. WorkOK
  <2>1. <<>> \in Seq(Result)
    OBVIOUS
  <2> QED
    BY <2>1, EmptyIs DEF WorkOK, Init
<1>3. RecordOK
  BY NoCheckpointOK DEF RecordOK, Init
<1>4. RestOK
  <2>1. next \in Item /\ broken = {} /\ done = {} /\ seeds = {} /\ stale = {} /\ total = 0 /\ resumes = 0 /\ pc = "dispatch"
    BY DEF Init, Item
  <2>2. stop \in BOOLEAN /\ halted \in BOOLEAN /\ verdict \in BOOLEAN \union {NULL}
    BY DEF Init
  <2>3. 0 \in 0 .. MaxTotalNodeRuns + 1 /\ 0 <= MaxTotalNodeRuns /\ 0 \in 0 .. MaxResumes
    BY BoundAssumption
  <2> QED
    BY <2>1, <2>2, <2>3 DEF RestOK
<1> QED
  BY <1>1, <1>2, <1>3, <1>4 DEF TInv

\* and always.
LEMMA TypesHold == Spec => []TInv
<1>1. TInv /\ [Next]_vars => TInv'
  BY StepQueueOK, StepWorkOK, StepRecordOK, StepRestOK DEF TInv
<1> QED
  BY <1>1, InitTInv, PTL DEF Spec

\* In every workflow the queue, the channel, the outputs and the checkpoint are of their
\* types, a coroutine and a result belong to a task that counts as running, and a loop
\* that a break ended is over: also after a kill and a resume.
THEOREM TypeCorrect == Spec => []TypeOK
BY TypesHold, TInvTypeOK, PTL

-----------------------------------------------------------------------------
(* Structured workflows: the parts of the invariant.                       *)

\* The loop or for_each node whose items a node is run for.
Home(n) == IF n \in ForEach THEN n ELSE Inside[n]

\* The item with index i of l.
ItemOf(l, i) == IF l \in ForEach THEN [NoItem EXCEPT ![Source[l]] = i, ![l] = i] ELSE [NoItem EXCEPT ![l] = i]

\* What a task is made of: one outside of loops runs for no item, and after the loop
\* that it follows; one of a loop or for_each node is for one of its items.
TaskOK(t) ==
  IF t.origin = NULL
  THEN /\ t.item = NoItem /\ Inside[t.node] = NULL
       /\ \A e \in Elements(Edges) : e.to = t.node => t.after = IF e.when = "after" THEN e.from ELSE NULL
       /\ t.after # NULL => \E e \in Elements(Edges) : e.from = t.after /\ e.to = t.node /\ e.when = "after"
  ELSE /\ t.after = NULL /\ t.origin = Home(t.node) /\ t.origin \in Starters
       /\ t.item = ItemOf(t.origin, t.item[t.origin])

\* Outputs of a node in a loop are of items of that loop.
OutputOK(n, o) ==
  IF Home(n) = NULL THEN o.item = NoItem
  ELSE o.item[Home(n)] \in Nat /\ o.item = ItemOf(Home(n), o.item[Home(n)])

\* Tasks and outputs are well formed.  What is not inside a loop never has an index.
ShapeOK ==
  /\ \A t \in Pending : TaskOK(t)
  /\ \A t \in running : t.origin = Home(t.node) /\ t.node \notin seeds
  /\ \A n \in Nodes : \A o \in Elements(runs[n]) : OutputOK(n, o)
  /\ \A n \in Nodes : saved.out[n] # NULL /\ Home(n) = NULL => OutputOK(n, saved.out[n])
  /\ \A i \in 1 .. Len(results) :
       /\ results[i].item = results[i].task.item
       /\ results[i].task.node \in LoopNodes => results[i].out.ok \/ results[i].halt
  /\ \A n \in Nodes \ Starters : next[n] = NULL
  /\ done \subseteq Starters
  /\ seeds \intersect RunAgain = {} /\ (MaxResumes = 0 => seeds = {})

\* Nothing of l has begun.
Quiet(l) ==
  /\ next[l] = NULL /\ l \notin done
  /\ \A t \in Pending : t.origin # l
  /\ \A m \in Nodes : Home(m) = l => runs[m] = <<>>

\* Node n has begun.
Begun(n) == runs[n] # <<>> \/ ~Quiet(n) \/ \E t \in Pending : t.node = n /\ t.origin = NULL

\* A node is started once, and only after all that leads to it.
StartsOK ==
  /\ \A t \in Pending : t.origin = NULL /\ t.node \notin seeds => runs[t.node] = <<>> /\ Quiet(t.node)
  /\ \A n \in Nodes : Inside[n] = NULL /\ n \notin seeds /\ Begun(n) =>
       \A e \in Elements(Edges) : e.to = n =>
         IF e.when = "after" THEN e.from \in done ELSE runs[e.from] # <<>>

\* The items of a loop that are under way.
Items(l) == {t.item[l] : t \in {u \in Pending : u.origin = l}}

\* Loops are over before what follows them, and no wider than they may be.
LoopsOK ==
  /\ AfterLoopWaits /\ BreakEndsLoop
  /\ \A l \in Nodes : IsFiniteSet(Items(l)) /\ Cardinality(Items(l)) <= Width[l]

\* Node p has run for item x.
HasRun(p, x) == \E o \in Elements(runs[p]) : o.item = x

\* Loops of which an index is used once: not the infinite ones, which start again at 0.
Finite(l) == Kind[l] # "infinite"

\* The next index of a loop is beyond every index used.
IndexOK ==
  /\ \A t \in Pending : t.origin # NULL => next[t.origin] # NULL
  /\ \A t \in Pending : t.origin # NULL /\ Finite(t.origin) => t.item[t.origin] < next[t.origin]
  /\ \A n \in Nodes : Home(n) # NULL /\ Finite(Home(n)) =>
       \A o \in Elements(runs[n]) : next[Home(n)] # NULL /\ o.item[Home(n)] < next[Home(n)]

\* What (n, item) rests on.
Rests(n, x) ==
  n # Home(n) =>
    /\ \A e \in Elements(Edges) : e.to = n /\ e.from \notin LoopNodes => HasRun(e.from, x)
    /\ Home(n) \in ForEach => HasRun(Home(n), x)

\* No node runs twice for an item.  What makes this inductive is that a node of an
\* item rests on the runs of its inputs for that item, so its last input arrives once.
OnceOK ==
  /\ \A t \in Pending : t.origin # NULL => Rests(t.node, t.item)
  /\ \A n \in Nodes : Home(n) # NULL => \A o \in Elements(runs[n]) : Rests(n, o.item)
  /\ \A t \in Pending : t.origin # NULL /\ Finite(t.origin) => ~HasRun(t.node, t.item)
  /\ \A n \in Nodes : Home(n) = NULL \/ Finite(Home(n)) =>
       \A i, j \in 1 .. Len(runs[n]) : runs[n][i].item = runs[n][j].item => i = j

\* While an execution goes on, it has all that its checkpoint shows to have succeeded
\* outside of loops, but for what it found out of date and what lost its entry.
SavedOK ==
  IF pc = "crashed" THEN running = {}
  ELSE
    \A n \in Nodes \ RunAgain : Home(n) = NULL /\ saved.out[n] # NULL /\ saved.out[n].out.ok =>
      \/ n \in seeds \/ runs[n] # <<>>
      \/ n \in DescendantsOf(stale)
      \/ \E e \in saved.entries : e.key[1] = n /\ ~e.out.ok

(* What Structured says, piece by piece. *)

\* Loops are not nested.
LEMMA StructuredTypes ==
  ASSUME Structured(Inside)
  PROVE  /\ Inside \in [Nodes -> Starters \union {NULL}]
         /\ Starters \subseteq Nodes /\ NULL \notin Starters /\ LoopNodes \subseteq Nodes
         /\ \A n \in LoopNodes : n \in Starters /\ n \notin ForEach
         /\ \A n \in ForEach : n \in Starters /\ n \notin LoopNodes
         /\ \A n \in Starters : Inside[n] = NULL /\ n \in Nodes /\ (n \in LoopNodes \/ n \in ForEach)
         /\ \A n \in ForEach : Inside[Source[n]] = NULL /\ Source[n] \in Nodes
<1>1. LoopNodes \subseteq Nodes /\ ForEach \subseteq Nodes
  BY GraphAssumption DEF LoopNodes
<1>2. Source \in [Nodes -> Nodes]
  BY GraphAssumption
<1> QED
  BY <1>1, <1>2, NullIs DEF Structured, Starters

\* Of which loop a node is part.
LEMMA HomeIs ==
  ASSUME Structured(Inside), NEW n \in Nodes
  PROVE  /\ Home(n) \in Starters \union {NULL}
         /\ n \in LoopNodes => Home(n) = NULL
         /\ n \in ForEach => Home(n) = n
         /\ n \notin ForEach => Home(n) = Inside[n]
         /\ Inside[n] # NULL => Home(n) = Inside[n] /\ n \notin Starters /\ n # Home(n)
         /\ Home(n) = NULL => Inside[n] = NULL
BY StructuredTypes DEF Home, Starters

\* What an edge connects.
LEMMA EdgeIs ==
  ASSUME Structured(Inside), NEW e \in Elements(Edges)
  PROVE  /\ e.from \in Nodes /\ e.to \in Nodes /\ e.from # e.to /\ e.when \in Conditions
         /\ e.when = "after" => e.from \in Starters /\ Inside[e.to] = NULL
         /\ e.when # "after" /\ e.from \in Starters => Inside[e.to] = e.from
         /\ e.when # "after" /\ e.from \notin Starters => Inside[e.to] = Inside[e.from]
<1>1. e \in Edge
  BY EdgesTyped
<1>2. e.from \in Nodes /\ e.to \in Nodes /\ e.when \in Conditions
  BY <1>1 DEF Edge
<1> QED
  BY <1>2 DEF Structured

\* A node with two inputs.
LEMMA SeveralInputs ==
  ASSUME Structured(Inside), NEW e \in Elements(Edges), NEW g \in Elements(Edges), g.to = e.to, g # e
  PROVE  /\ e.to \in AwaitAll /\ e.when # "after" /\ g.when # "after"
         /\ e.from \notin LoopNodes /\ g.from \notin LoopNodes
<1>1. e.to \in AwaitAll /\ e.when # "after" /\ e.from \notin LoopNodes
  BY DEF Structured
<1>2. g.when # "after" /\ g.from \notin LoopNodes
  BY DEF Structured
<1> QED
  BY <1>1, <1>2

\* Nothing leads to a root.
LEMMA RootIs ==
  ASSUME Structured(Inside), NEW n \in Elements(Roots)
  PROVE  n \in Nodes /\ Inside[n] = NULL /\ \A e \in Elements(Edges) : e.to # n
<1>1. n \in Nodes
  BY RootsAre, InElements
<1> QED
  BY <1>1 DEF Structured

\* An after edge matches no output.
LEMMA AfterNeverMatches == \A e, out : e.when = "after" => ~EdgeMatches(e, out)
BY DEF EdgeMatches

(* Items. *)
LEMMA ItemOfIs ==
  ASSUME Structured(Inside), NEW l \in Starters, NEW i \in Nat
  PROVE  /\ ItemOf(l, i) \in Item /\ ItemOf(l, i)[l] = i /\ ItemOf(l, i) # NoItem
         /\ \A p \in Nodes : ItemOf(l, i)[p] # NULL => p = l \/ (l \in ForEach /\ p = Source[l])
<1>1. l \in Nodes /\ Source[l] \in Nodes
  BY StructuredTypes, GraphAssumption
<1>2. NoItem \in [Nodes -> Nat \union {NULL}] /\ \A p \in Nodes : NoItem[p] = NULL
  BY DEF NoItem
<1>3. i # NULL
  BY NullIs
<1>4. ItemOf(l, i) \in [Nodes -> Nat \union {NULL}] /\ ItemOf(l, i)[l] = i
      /\ \A p \in Nodes : ItemOf(l, i)[p] # NULL => p = l \/ (l \in ForEach /\ p = Source[l])
  <2>1. CASE l \in ForEach
    <3>1. ItemOf(l, i) = [NoItem EXCEPT ![Source[l]] = i, ![l] = i]
      BY <2>1 DEF ItemOf
    <3> HIDE DEF NoItem
    <3> QED
      BY <1>1, <1>2, <2>1, <3>1
  <2>2. CASE l \notin ForEach
    <3>1. ItemOf(l, i) = [NoItem EXCEPT ![l] = i]
      BY <2>2 DEF ItemOf
    <3> QED
      BY <1>1, <1>2, <2>2, <3>1
  <2> QED
    BY <2>1, <2>2
<1> QED
  BY <1>1, <1>2, <1>3, <1>4 DEF Item

\* Items of a loop differ in one index.
LEMMA ItemOfUpdate ==
  ASSUME Structured(Inside), NEW l \in Starters, NEW i \in Nat, NEW x,
         x = NoItem \/ \E j \in Nat : x = ItemOf(l, j)
  PROVE  /\ l \notin ForEach => [x EXCEPT ![l] = i] = ItemOf(l, i)
         /\ l \in ForEach => [x EXCEPT ![Source[l]] = i, ![l] = i] = ItemOf(l, i)
<1>1. l \in Nodes /\ Source[l] \in Nodes
  BY StructuredTypes, GraphAssumption
<1>2. NoItem \in [Nodes -> Nat \union {NULL}]
  BY DEF NoItem
<1>3. CASE x = NoItem
  BY <1>3 DEF ItemOf
<1>4. ASSUME NEW j \in Nat, x = ItemOf(l, j)
      PROVE  /\ l \notin ForEach => [x EXCEPT ![l] = i] = ItemOf(l, i)
             /\ l \in ForEach => [x EXCEPT ![Source[l]] = i, ![l] = i] = ItemOf(l, i)
  <2>1. CASE l \notin ForEach
    <3>1. x = [NoItem EXCEPT ![l] = j] /\ ItemOf(l, i) = [NoItem EXCEPT ![l] = i]
      BY <1>4, <2>1 DEF ItemOf
    <3>2. [x EXCEPT ![l] = i] = [NoItem EXCEPT ![l] = i]
      BY <1>1, <1>2, <3>1
    <3> QED
      BY <2>1, <3>1, <3>2
  <2>2. CASE l \in ForEach
    <3>1. x = [NoItem EXCEPT ![Source[l]] = j, ![l] = j] /\ ItemOf(l, i) = [NoItem EXCEPT ![Source[l]] = i, ![l] = i]
      BY <1>4, <2>2 DEF ItemOf
    <3>2. [x EXCEPT ![Source[l]] = i, ![l] = i] = [NoItem EXCEPT ![Source[l]] = i, ![l] = i]
      BY <1>1, <1>2, <3>1
    <3> QED
      BY <2>2, <3>1, <3>2
  <2> QED
    BY <2>1, <2>2
<1> QED
  BY <1>3, <1>4

(* What runs again after a resume. *)

\* The sets of nodes that are at most k edges below S, for each k up to m.
Descent(f, S, m) ==
  /\ f \in [0 .. m -> SUBSET Nodes]
  /\ f[0] = S
  /\ \A k \in 1 .. m : f[k] = Below(f[k - 1])

\* One edge further down.
LEMMA BelowIs == \A S \in SUBSET Nodes : Below(S) \in SUBSET Nodes /\ S \subseteq Below(S)
BY EdgesTyped DEF Below, Edge

\* There are no more nodes than the order declares.
LEMMA FewNodes == IsFiniteSet(Nodes) /\ Len(Order) \in Nat /\ Cardinality(Nodes) <= Len(Order)
<1> DEFINE N == Len(Order)
<1>1. N \in Nat /\ Order \in [1 .. N -> Nodes] /\ \A n \in Nodes : \E i \in 1 .. N : Order[i] = n
  <2>1. Order \in Seq(Nodes)
    BY GraphAssumption
  <2>2. Nodes = {Order[i] : i \in 1 .. N}
    BY GraphAssumption
  <2>3. \A n \in Nodes : \E i \in 1 .. N : Order[i] = n
    BY ONLY <2>2
  <2> QED
    BY ONLY <2>1, <2>3
<1>2. Order \in Surjection(1 .. N, Nodes)
  BY <1>1 DEF Surjection
<1>3. IsFiniteSet(1 .. N) /\ Cardinality(1 .. N) = IF 1 > N THEN 0 ELSE N - 1 + 1
  BY <1>1, FS_Interval
<1>4. Cardinality(1 .. N) = N
  BY <1>1, <1>3
<1>5. IsFiniteSet(Nodes) /\ Cardinality(Nodes) <= Cardinality(1 .. N)
  BY <1>2, <1>3, FS_Surjection
<1> QED
  BY <1>1, <1>4, <1>5

\* These sets grow,
LEMMA DescentGrows ==
  ASSUME NEW S, NEW k \in Nat, NEW f, Descent(f, S, k)
  PROVE  \E g : Descent(g, S, k + 1)
<1> DEFINE g == [i \in 0 .. k + 1 |-> IF i = k + 1 THEN Below(f[k]) ELSE f[i]]
<1>1. f[k] \in SUBSET Nodes /\ Below(f[k]) \in SUBSET Nodes
  BY BelowIs DEF Descent
<1>2. g \in [0 .. k + 1 -> SUBSET Nodes]
  BY <1>1 DEF Descent
<1>3. g[0] = S
  BY DEF Descent
<1>4. ASSUME NEW i \in 1 .. k + 1 PROVE g[i] = Below(g[i - 1])
  BY <1>4 DEF Descent
<1> HIDE DEF g
<1>5. Descent(g, S, k + 1)
  BY <1>2, <1>3, <1>4 DEF Descent
<1> QED
  BY <1>5

\* they contain what is below their nodes,
LEMMA DescendantsDescend ==
  ASSUME NEW S \in SUBSET Nodes
  PROVE  \E f : Descent(f, S, Len(Order)) /\ DescendantsOf(S) = f[Len(Order)]
<1> DEFINE n == Len(Order)
           P == {m \in 0 .. n : \E f : Descent(f, S, m)}
<1>1. n \in Nat
  BY FewNodes
<1>2. 0 \in P
  <2> DEFINE f == [k \in 0 .. 0 |-> S]
  <2>1. f[0] = S /\ f \in [0 .. 0 -> SUBSET Nodes]
    OBVIOUS
  <2> HIDE DEF f
  <2>2. Descent(f, S, 0)
    BY <2>1 DEF Descent
  <2> QED
    BY <1>1, <2>2
<1>3. ASSUME NEW k \in 0 .. n, k \in P, k # n PROVE k + 1 \in P
  <2>1. PICK f : Descent(f, S, k)
    BY <1>3
  <2>2. k \in Nat /\ k + 1 \in 0 .. n
    BY <1>1, <1>3
  <2>3. \E g : Descent(g, S, k + 1)
    BY <2>1, <2>2, DescentGrows
  <2> QED
    BY <2>2, <2>3
<1>4. \A k \in 0 .. n : k \in P
  <2> HIDE DEF P, n
  <2>1. \A k \in 0 .. n : k \in P /\ k # n => k + 1 \in P
    BY <1>3
  <2> QED
    BY <1>1, <1>2, <2>1, UpTo
<1>5. PICK f : Descent(f, S, n)
  BY <1>1, <1>4
<1> DEFINE Def(h) == h = [k \in 0 .. n |-> IF k = 0 THEN S ELSE Below(h[k - 1])]
           h == CHOOSE g : Def(g)
<1>6. Def(f)
  BY <1>5 DEF Descent
<1>7. Def(h)
  BY <1>6
<1>8. DescendantsOf(S) = h[n]
  BY DEF DescendantsOf
<1> HIDE DEF h
<1>9. DOMAIN h = 0 .. n /\ h[0] = S /\ \A k \in 1 .. n : h[k] = Below(h[k - 1])
  <2>1. DOMAIN h = 0 .. n
    BY <1>7
  <2>2. \A k \in 0 .. n : h[k] = IF k = 0 THEN S ELSE Below(h[k - 1])
    BY <1>7
  <2> QED
    BY <1>1, <2>1, <2>2
<1>10. h \in [0 .. n -> SUBSET Nodes]
  <2> DEFINE Q == {m \in 0 .. n : h[m] \in SUBSET Nodes}
  <2>1. 0 \in Q
    BY <1>1, <1>9
  <2>2. ASSUME NEW k \in 0 .. n, k \in Q, k # n PROVE k + 1 \in Q
    <3>1. k + 1 \in 1 .. n /\ k + 1 \in 0 .. n /\ (k + 1) - 1 = k
      BY <1>1, <2>2
    <3>2. h[k + 1] = Below(h[k])
      BY <1>9, <3>1
    <3>3. h[k + 1] \in SUBSET Nodes
      BY <2>2, <3>2, BelowIs
    <3> QED
      BY <3>1, <3>3
  <2>3. \A k \in 0 .. n : k \in Q
    <3> HIDE DEF Q, n
    <3>1. \A k \in 0 .. n : k \in Q /\ k # n => k + 1 \in Q
      BY <2>2
    <3> QED
      BY <1>1, <2>1, <3>1, UpTo
  <2>4. h = [k \in 0 .. n |-> h[k]]
    BY <1>7, <1>9
  <2> QED
    BY <2>3, <2>4
<1>11. Descent(h, S, n)
  BY <1>9, <1>10 DEF Descent
<1> QED
  BY <1>8, <1>11

\* As deep as the graph has nodes is deep enough.
LEMMA DescendantsAre ==
  ASSUME NEW S \in SUBSET Nodes
  PROVE  /\ DescendantsOf(S) \in SUBSET Nodes /\ S \subseteq DescendantsOf(S)
         /\ Below(DescendantsOf(S)) = DescendantsOf(S)
<1> DEFINE n == Len(Order)
<1>1. PICK f : Descent(f, S, n) /\ DescendantsOf(S) = f[n]
  BY DescendantsDescend
<1>2. n \in Nat /\ IsFiniteSet(Nodes) /\ Cardinality(Nodes) <= n /\ Cardinality(Nodes) \in Nat
  BY FewNodes, FS_CardinalityType
<1> DEFINE P == {k \in 0 .. n : /\ S \subseteq f[k]
                                /\ Below(f[k]) = f[k] \/ Cardinality(f[k]) >= k + 1}
<1> HIDE DEF n
<1>3. \A k \in 0 .. n : f[k] \in SUBSET Nodes /\ IsFiniteSet(f[k]) /\ Cardinality(f[k]) \in Nat
                        /\ Cardinality(f[k]) <= Cardinality(Nodes)
  BY <1>1, <1>2, FS_Subset, FS_CardinalityType DEF Descent
<1>4. 0 \in P
  <2>1. 0 \in 0 .. n /\ f[0] = S
    BY <1>1, <1>2 DEF Descent
  <2>2. CASE S = {}
    BY <2>1, <2>2 DEF Below
  <2>3. CASE S # {}
    <3>1. Cardinality(f[0]) # 0
      BY <1>3, <2>1, <2>3, FS_EmptySet
    <3>2. Cardinality(f[0]) >= 0 + 1
      BY <1>3, <2>1, <3>1
    <3> QED
      BY <2>1, <3>2
  <2> QED
    BY <2>2, <2>3
<1>5. ASSUME NEW k \in 0 .. n, k \in P, k # n PROVE k + 1 \in P
  <2>1. k + 1 \in 1 .. n /\ k + 1 \in 0 .. n /\ (k + 1) - 1 = k /\ k \in Nat
    BY <1>2, <1>5
  <2>2. f[k + 1] = Below(f[k])
    BY <1>1, <2>1 DEF Descent
  <2>3. f[k] \subseteq f[k + 1]
    BY <1>3, <2>2, BelowIs
  <2>4. CASE f[k + 1] = f[k]
    BY <1>5, <2>1, <2>2, <2>4
  <2>5. CASE f[k + 1] # f[k]
    <3>1. Cardinality(f[k]) >= k + 1
      BY <1>5, <2>2, <2>5
    <3>2. Cardinality(f[k]) <= Cardinality(f[k + 1]) /\ Cardinality(f[k + 1]) # Cardinality(f[k])
      BY <1>3, <2>1, <2>3, <2>5, FS_Subset
    <3>3. Cardinality(f[k + 1]) >= (k + 1) + 1
      BY <1>3, <2>1, <3>1, <3>2
    <3> QED
      BY <1>5, <2>1, <2>3, <3>3
  <2> QED
    BY <2>4, <2>5
<1>6. \A k \in 0 .. n : k \in P
  <2> HIDE DEF P
  <2>1. \A k \in 0 .. n : k \in P /\ k # n => k + 1 \in P
    BY <1>5
  <2> QED
    BY <1>2, <1>4, <2>1, UpTo
<1>7. n \in 0 .. n /\ n \in P
  BY <1>2, <1>6
<1>8. Below(f[n]) = f[n]
  BY <1>2, <1>3, <1>7
<1> QED
  BY <1>1, <1>3, <1>7, <1>8 DEF n

\* and so what runs again is closed under edges.
LEMMA RunAgainIs ==
  /\ RunAgain \subseteq Nodes /\ LoopNodes \subseteq RunAgain
  /\ \A e \in Elements(Edges) : e.from \in RunAgain => e.to \in RunAgain
<1>1. LoopNodes \in SUBSET Nodes
  BY DEF LoopNodes
<1>2. /\ RunAgain \in SUBSET Nodes /\ LoopNodes \subseteq RunAgain
      /\ Below(RunAgain) = RunAgain
  BY <1>1, DescendantsAre DEF RunAgain
<1> QED
  BY <1>2 DEF Below

\* A seed is no loop, no for_each node, no part of one, and follows none.
LEMMA SeedIs ==
  ASSUME Structured(Inside), TInv, ShapeOK, NEW n \in seeds
  PROVE  /\ n \in Nodes /\ n \notin RunAgain
         /\ n \notin Starters /\ Inside[n] = NULL /\ Home(n) = NULL
         /\ \A e \in Elements(Edges) : e.to = n => e.when # "after" /\ e.from \notin Starters
<1>1. n \in Nodes /\ n \notin RunAgain /\ MaxResumes > 0
  BY BoundAssumption DEF ShapeOK, TInv, RestOK
<1>2. \A m \in Nodes : m \in ForEach \/ Inside[m] # NULL => m \in RunAgain
  BY <1>1 DEF Structured
<1>3. \A m \in Starters : m \in RunAgain
  BY <1>2, RunAgainIs, StructuredTypes
<1>4. \A e \in Elements(Edges) : e.to = n => e.when # "after" /\ e.from \notin Starters
  BY <1>1, <1>3, RunAgainIs, EdgeIs
<1> QED
  BY <1>1, <1>2, <1>3, <1>4, HomeIs

(* A step that takes a task t off, and queues others. *)

\* A node run after t, for the same item.
Succ(t, u) ==
  /\ t.origin = Home(t.node) /\ t.node \notin LoopNodes
  /\ \E e \in Elements(Edges) :
       /\ e.from = t.node /\ e.when # "after" /\ u = NextTask(e.to, t)
       /\ e.to \in AwaitAll => AllInputsReady(runs', e.to, t.item)

\* Where an item of l starts.
Opens(l, m) ==
  IF l \in ForEach THEN m = l
  ELSE \E e \in Elements(Edges) : e.from = l /\ e.when # "after" /\ e.to = m

\* One of the first items of t.
First(t, u) ==
  /\ t.origin = NULL /\ t.node \in Starters
  /\ u.after = NULL /\ u.origin = t.node /\ Opens(t.node, u.node)
  /\ \E i \in 0 .. Each(t.node) - 1 : u.item = ItemOf(t.node, i)
  /\ next'[t.node] # NULL /\ (Finite(t.node) => next'[t.node] = Each(t.node))

\* What follows a loop that is over.
After(u) ==
  \E e \in Elements(Edges) :
    e.when = "after" /\ e.from \notin done /\ e.from \in done' /\ u = AfterTask(e.from, e.to)

\* The item after that of t.
NextItem(t, u) ==
  LET l == t.origin IN
  /\ l # NULL /\ next[l] # NULL /\ next'[l] = next[l] + 1
  /\ u.after = NULL /\ u.origin = l /\ Opens(l, u.node) /\ u.item = ItemOf(l, next[l])
  /\ \A v \in Pending' : v.origin = l => v.item[l] # t.item[l] \/ v.item[l] = next[l]

\* The output o of t is recorded, or t is replaced by its items.
Notes(t, o) ==
  \/ runs' = runs /\ t.node \in ForEach /\ t.origin = NULL
  \/ /\ o.item = t.item /\ t.origin = Home(t.node)
     /\ runs'[t.node] = Append(runs[t.node], o)
     /\ \A m \in Nodes : m # t.node => runs'[m] = runs[m]

\* How the next index of a loop moves.
Counts(t) ==
  \A s \in Nodes :
    \/ next'[s] = next[s]
    \/ s = t.node /\ t.origin = NULL /\ s \in Starters
    \/ s = t.origin /\ next[s] # NULL /\ next'[s] = next[s] + 1

\* Which loops end.
Closes(t) ==
  /\ done \subseteq done' /\ broken \subseteq broken'
  /\ \A s \in done' : s \notin done => s \in Starters /\ (s = t.origin \/ (s = t.node /\ t.origin = NULL))
  /\ \A s \in done' : s \notin done /\ s \notin broken' => \A u \in Pending' : u.origin # s
  /\ \A s \in broken' : s \notin broken => s = t.origin /\ (Width[s] = 1 => \A u \in Pending' : u.origin # s)

\* Receiving a result, and replacing a for_each node by its items, are both of this kind:
\* t goes, and what comes in its place is of one of four kinds.
Moves(t, o) ==
  /\ t \in Pending /\ t.node \notin seeds /\ seeds' = seeds
  /\ \A u \in Pending' : u \in Pending \ {t} \/ Succ(t, u) \/ First(t, u) \/ After(u) \/ NextItem(t, u)
  /\ o \in Output /\ Notes(t, o) /\ Counts(t) /\ Closes(t)

-----------------------------------------------------------------------------

\* What is queued or runs are tasks.
LEMMA PendingTyped == TInv => \A t \in Pending : t \in Task /\ t.node \in Nodes /\ t.origin \in Nodes \union {NULL}
                                                 /\ (t.origin # NULL => t.item[t.origin] \in Nat)
<1> SUFFICES ASSUME TInv, NEW t \in Pending
             PROVE  /\ t \in Task /\ t.node \in Nodes /\ t.origin \in Nodes \union {NULL}
                    /\ (t.origin # NULL => t.item[t.origin] \in Nat)
  OBVIOUS
<1>1. queue \in Seq(Task) /\ running \subseteq Task /\ (t.origin # NULL => t.item[t.origin] \in Nat)
  BY DEF TInv, QueueOK
<1>2. t \in Task
  BY <1>1, InElements DEF Pending
<1> QED
  BY <1>1, <1>2 DEF Task

\* A task is its node, what it follows, its loop and its item.
LEMMA SameTask ==
  ASSUME NEW u \in Task, NEW v \in Task, u.node = v.node, u.after = v.after, u.origin = v.origin, u.item = v.item
  PROVE  u = v
BY DEF Task

\* Tasks of one node outside of loops are the same.
LEMMA SameStart ==
  ASSUME Structured(Inside), NEW u \in Task, NEW v \in Task, TaskOK(u), TaskOK(v), u.node = v.node,
         u.origin = NULL, v.origin = NULL
  PROVE  u = v
<1>1. u.item = v.item
  BY DEF TaskOK
<1>2. u.after = v.after
  <2>1. CASE \E e \in Elements(Edges) : e.to = u.node
    BY <2>1 DEF TaskOK
  <2>2. CASE ~\E e \in Elements(Edges) : e.to = u.node
    <3>1. u.after = NULL
      BY <2>2 DEF TaskOK
    <3>2. v.after = NULL
      BY <2>2 DEF TaskOK
    <3> QED
      BY <3>1, <3>2
  <2> QED
    BY <2>1, <2>2
<1> QED
  BY <1>1, <1>2, SameTask

\* Tasks of one node for one item are the same.
LEMMA SameBody ==
  ASSUME NEW u \in Task, NEW v \in Task, TaskOK(u), TaskOK(v), u.node = v.node, u.item = v.item,
         u.origin # NULL, v.origin # NULL
  PROVE  u = v
BY SameTask DEF TaskOK

\* Where an item starts.
LEMMA OpensIs ==
  ASSUME Structured(Inside), NEW l \in Starters, NEW m, Opens(l, m)
  PROVE  /\ m \in Nodes /\ Home(m) = l
         /\ l \in ForEach => m = l
         /\ l \notin ForEach => l \in LoopNodes /\ Inside[m] = l /\ \A e \in Elements(Edges) : e.to = m => e.from = l
<1>1. CASE l \in ForEach
  BY <1>1, StructuredTypes, HomeIs DEF Opens
<1>2. CASE l \notin ForEach
  <2>1. l \in LoopNodes
    BY <1>2, StructuredTypes
  <2>2. PICK e \in Elements(Edges) : e.from = l /\ e.when # "after" /\ e.to = m
    BY <1>2 DEF Opens
  <2>3. m \in Nodes /\ Inside[m] = l
    BY <2>2, EdgeIs
  <2>4. l # NULL
    BY StructuredTypes
  <2>5. Home(m) = l
    BY <2>3, <2>4, HomeIs
  <2>6. \A g \in Elements(Edges) : g.to = m => g.from = l
    BY <2>1, <2>2, SeveralInputs
  <2> QED
    BY <1>2, <2>1, <2>3, <2>5, <2>6
<1> QED
  BY <1>1, <1>2

\* New tasks are well formed.
LEMMA MoveTaskOK ==
  ASSUME Structured(Inside), TInv, TInv', ShapeOK, NEW t, NEW o, Moves(t, o), NEW u \in Pending'
  PROVE  TaskOK(u)
<1>1. t \in Task /\ t.node \in Nodes /\ TaskOK(t) /\ t.origin \in Nodes \union {NULL}
  BY PendingTyped DEF Moves, ShapeOK
<1>2. CASE u \in Pending \ {t}
  BY <1>2 DEF ShapeOK
<1>3. CASE Succ(t, u)
  <2>1. PICK e \in Elements(Edges) : e.from = t.node /\ e.when # "after" /\ u = NextTask(e.to, t)
    BY <1>3 DEF Succ
  <2>2. u.node = e.to /\ u.after = NULL /\ u.origin = t.origin /\ u.item = t.item
    BY <1>1, <2>1, NextTaskIs
  <2>3. t.origin = Home(t.node) /\ t.node \notin LoopNodes /\ e.to \in Nodes
    BY <1>3, <2>1, EdgeIs DEF Succ
  <2>4. CASE t.origin = NULL
    <3>1. t.node \notin Starters /\ Inside[t.node] = NULL
      <4>1. t.node \notin ForEach
        BY <1>1, <2>3, <2>4, HomeIs, NullIs
      <4> QED
        BY <1>1, <2>3, <2>4, <4>1, HomeIs, StructuredTypes
    <3>2. Inside[e.to] = NULL
      BY <2>1, <3>1, EdgeIs
    <3>3. \A g \in Elements(Edges) : g.to = e.to => g.when # "after"
      BY <2>1, SeveralInputs
    <3>4. t.item = NoItem
      BY <1>1, <2>4 DEF TaskOK
    <3> QED
      BY <2>2, <2>4, <3>2, <3>3, <3>4 DEF TaskOK
  <2>5. CASE t.origin # NULL
    <3>1. t.origin \in Starters /\ t.item = ItemOf(t.origin, t.item[t.origin])
      BY <1>1, <2>5 DEF TaskOK
    <3>2. Inside[e.to] = t.origin
      <4>1. CASE t.node \in Starters
        BY <1>1, <2>1, <2>3, <4>1, EdgeIs, HomeIs, StructuredTypes
      <4>2. CASE t.node \notin Starters
        BY <1>1, <2>1, <2>3, <4>2, EdgeIs, HomeIs, StructuredTypes
      <4> QED
        BY <4>1, <4>2
    <3>3. Home(e.to) = t.origin
      BY <2>3, <2>5, <3>2, HomeIs
    <3> QED
      BY <2>2, <2>5, <3>1, <3>3 DEF TaskOK
  <2> QED
    BY <2>4, <2>5
<1>4. CASE First(t, u)
  <2>1. PICK i \in 0 .. Each(t.node) - 1 : u.item = ItemOf(t.node, i)
    BY <1>4 DEF First
  <2>2. t.node \in Starters /\ u.after = NULL /\ u.origin = t.node /\ Opens(t.node, u.node)
    BY <1>4 DEF First
  <2>3. i \in Nat
    BY <1>1, EachIs
  <2>4. ItemOf(t.node, i)[t.node] = i /\ t.node # NULL
    BY <2>2, <2>3, ItemOfIs, StructuredTypes
  <2> QED
    BY <2>1, <2>2, <2>4, OpensIs DEF TaskOK
<1>5. CASE After(u)
  <2>1. PICK e \in Elements(Edges) : e.when = "after" /\ u = AfterTask(e.from, e.to)
    BY <1>5 DEF After
  <2>2. u.origin = NULL /\ u.after = e.from /\ u.node = e.to /\ u.item = NoItem
    BY <2>1, AfterTaskIs
  <2>3. \A g \in Elements(Edges) : g.to = e.to => g = e
    BY <2>1, SeveralInputs
  <2> QED
    BY <2>1, <2>2, <2>3, EdgeIs DEF TaskOK
<1>6. CASE NextItem(t, u)
  <2> DEFINE l == t.origin
  <2>1. l # NULL /\ l \in Starters
    BY <1>1, <1>6 DEF NextItem, TaskOK
  <2>2. next[l] \in Nat
    BY <1>1, <1>6, <2>1 DEF NextItem, TInv, RestOK, Item
  <2>3. u.after = NULL /\ u.origin = l /\ Opens(l, u.node) /\ u.item = ItemOf(l, next[l])
    BY <1>6 DEF NextItem
  <2> HIDE DEF l
  <2>4. ItemOf(l, next[l])[l] = next[l]
    BY <2>1, <2>2, ItemOfIs
  <2> QED
    BY <2>1, <2>3, <2>4, OpensIs DEF TaskOK
<1> QED
  BY <1>2, <1>3, <1>4, <1>5, <1>6 DEF Moves

\* The same after a step.
LEMMA PendingNextTyped ==
  TInv' => \A t \in Pending' : t \in Task /\ t.node \in Nodes /\ t.origin \in Nodes \union {NULL}
                                /\ (t.origin # NULL => t.item[t.origin] \in Nat)
<1> SUFFICES ASSUME TInv', NEW t \in Pending'
             PROVE  /\ t \in Task /\ t.node \in Nodes /\ t.origin \in Nodes \union {NULL}
                    /\ (t.origin # NULL => t.item[t.origin] \in Nat)
  OBVIOUS
<1>1. queue' \in Seq(Task) /\ running' \subseteq Task /\ (t.origin # NULL => t.item[t.origin] \in Nat)
  BY DEF TInv, QueueOK
<1>2. t \in Task
  BY <1>1, InElements DEF Pending
<1> QED
  BY <1>1, <1>2 DEF Task

\* What a move records.
LEMMA NotesIs ==
  ASSUME TInv, TInv', NEW t, NEW o, Moves(t, o)
  PROVE  /\ t.node \in Nodes
         /\ \A m \in Nodes : m # t.node => runs'[m] = runs[m]
         /\ \A m \in Nodes : runs[m] # <<>> => runs'[m] # <<>>
         /\ \A m \in Nodes : \A v \in Elements(runs[m]) : v \in Elements(runs'[m])
         /\ \A m \in Nodes : \A v \in Elements(runs'[m]) :
              v \in Elements(runs[m]) \/ (m = t.node /\ v = o /\ o.item = t.item /\ t.origin = Home(t.node))
         /\ ~(t.node \in ForEach /\ t.origin = NULL) => o \in Elements(runs'[t.node]) /\ o.item = t.item
<1>1. t.node \in Nodes
  BY PendingTyped DEF Moves
<1>2. runs \in [Nodes -> Seq(Output)] /\ o \in Output
  BY DEF TInv, RecordOK, Moves
<1>3. CASE runs' = runs /\ t.node \in ForEach /\ t.origin = NULL
  BY <1>1, <1>3
<1>4. CASE /\ o.item = t.item /\ t.origin = Home(t.node)
           /\ runs'[t.node] = Append(runs[t.node], o)
           /\ \A m \in Nodes : m # t.node => runs'[m] = runs[m]
  <2> DEFINE s == runs[t.node]
             s2 == runs'[t.node]
  <2>1. s \in Seq(Output) /\ s2 = Append(s, o)
    BY <1>1, <1>2, <1>4
  <2> HIDE DEF s, s2
  <2>2. Len(s2) = Len(s) + 1 /\ Len(s) \in Nat /\ s2[Len(s) + 1] = o /\ \A i \in 1 .. Len(s) : s2[i] = s[i]
    BY <1>2, <2>1
  <2>3. \A v : v \in Elements(s2) <=> v \in Elements(s) \/ v = o
    <3> SUFFICES ASSUME NEW v PROVE v \in Elements(s2) <=> v \in Elements(s) \/ v = o
      OBVIOUS
    <3>1. ASSUME v \in Elements(s2) PROVE v \in Elements(s) \/ v = o
      <4>1. PICK i \in 1 .. Len(s2) : v = s2[i]
        BY <3>1, InElements
      <4>2. i \in 1 .. Len(s) \/ i = Len(s) + 1
        BY <2>2
      <4> QED
        BY <2>2, <4>1, <4>2, InElements
    <3>2. ASSUME v \in Elements(s) PROVE v \in Elements(s2)
      <4>1. PICK i \in 1 .. Len(s) : v = s[i]
        BY <3>2, InElements
      <4>2. i \in 1 .. Len(s2) /\ s2[i] = v
        BY <2>2, <4>1
      <4> QED
        BY <4>2, InElements
    <3>3. o \in Elements(s2)
      <4>1. Len(s) + 1 \in 1 .. Len(s2)
        BY <2>2
      <4> QED
        BY <2>2, <4>1, InElements
    <3> QED
      BY <3>1, <3>2, <3>3
  <2>4. s2 # <<>>
    BY <2>2
  <2> QED
    BY <1>1, <1>4, <2>3, <2>4 DEF s, s2
<1> QED
  BY <1>3, <1>4 DEF Moves, Notes

\* A node that starts is not under way.
LEMMA MoverIs ==
  ASSUME Structured(Inside), TInv, ShapeOK, StartsOK, NEW t, NEW o, Moves(t, o)
  PROVE  /\ t \in Task /\ TaskOK(t) /\ t \in Pending /\ t.node \in Nodes /\ t.origin \in Nodes \union {NULL}
         /\ t.origin = NULL => runs[t.node] = <<>> /\ Quiet(t.node) /\ Begun(t.node) /\ Inside[t.node] = NULL
         /\ t.origin # NULL => ~Quiet(t.origin) /\ t.origin = Home(t.node) /\ t.origin \in Starters
         /\ \A n \in Nodes : Inside[n] = NULL /\ ~Begun(n) => n # t.node
<1>1. t \in Task /\ TaskOK(t) /\ t \in Pending /\ t.node \in Nodes /\ t.origin \in Nodes \union {NULL}
  BY PendingTyped DEF Moves, ShapeOK
<1>2. t.origin = NULL => runs[t.node] = <<>> /\ Quiet(t.node) /\ Begun(t.node) /\ Inside[t.node] = NULL
  BY <1>1 DEF StartsOK, Moves, Begun, TaskOK
<1>3. t.origin # NULL => ~Quiet(t.origin) /\ t.origin = Home(t.node) /\ t.origin \in Starters
  BY <1>1 DEF TaskOK, Quiet
<1>4. ASSUME NEW n \in Nodes, Inside[n] = NULL, ~Begun(n) PROVE n # t.node
  <2>1. CASE t.origin = NULL
    BY <1>2, <1>4, <2>1
  <2>2. CASE t.origin # NULL
    <3>1. SUFFICES ASSUME n = t.node PROVE FALSE
      OBVIOUS
    <3>2. n \in ForEach /\ Home(n) = n
      BY <1>3, <1>4, <2>2, <3>1, HomeIs
    <3>3. ~Quiet(n)
      BY <1>3, <2>2, <3>1, <3>2
    <3> QED
      BY <1>4, <3>3 DEF Begun
  <2> QED
    BY <2>1, <2>2
<1> QED
  BY <1>1, <1>2, <1>3, <1>4

\* What is not under way stays so, unless it is what the step starts.
LEMMA QuietKept ==
  ASSUME Structured(Inside), TInv, TInv', ShapeOK, StartsOK, NEW t, NEW o, Moves(t, o),
         NEW k \in Nodes, Quiet(k), k # t.node
  PROVE  Quiet(k)'
<1>1. t.origin # k
  BY MoverIs DEF Quiet
<1>2. next'[k] = next[k]
  BY <1>1 DEF Moves, Counts
<1>3. k \notin done'
  BY <1>1 DEF Quiet, Moves, Closes
<1>4. ASSUME NEW u \in Pending' PROVE u.origin # k
  <2>1. t \in Task /\ NULL # k
    BY MoverIs, NullIs
  <2>2. Succ(t, u) => u.origin = t.origin
    BY <2>1, NextTaskIs DEF Succ
  <2>3. After(u) => u.origin = NULL
    BY AfterTaskIs DEF After
  <2> QED
    BY <1>1, <1>4, <2>1, <2>2, <2>3 DEF Moves, Quiet, First, NextItem
<1>5. ASSUME NEW m \in Nodes, Home(m) = k PROVE runs'[m] = <<>>
  <2>1. runs[m] = <<>>
    BY <1>5 DEF Quiet
  <2>2. CASE m # t.node
    BY <2>1, <2>2, NotesIs
  <2>3. CASE m = t.node
    <3>1. t.origin # Home(t.node)
      BY <1>1, <1>5, <2>3
    <3>2. runs' = runs
      BY <3>1 DEF Moves, Notes
    <3> QED
      BY <2>1, <3>2
  <2> QED
    BY <2>2, <2>3
<1> QED
  BY <1>2, <1>3, <1>4, <1>5 DEF Quiet

\* All inputs of a join have run.
LEMMA ReadyInputs ==
  ASSUME NEW os \in [Nodes -> Seq(Output)], NEW n \in Nodes, AllInputsReady(os, n, NoItem), Structured(Inside),
         NEW e \in Elements(Edges), e.to = n
  PROVE  os[e.from] # <<>>
<1>1. e.from # n /\ e.from \in Nodes
  BY EdgeIs
<1>2. MatchingOutput(os, e.from, NoItem) # NULL
  BY <1>1 DEF AllInputsReady
<1>3. Latest(os, e.from) # NULL
  BY <1>2 DEF MatchingOutput
<1> QED
  BY <1>3 DEF Latest

\* What a move starts was not under way, and all it waits for is there.
LEMMA MoveStarts ==
  ASSUME Structured(Inside), TInv, TInv', ShapeOK, StartsOK, NEW t, NEW o, Moves(t, o),
         NEW u \in Pending', u \notin Pending \ {t}, u.origin = NULL, u.node \notin seeds
  PROVE  /\ u.node \in Nodes /\ Inside[u.node] = NULL /\ ~Begun(u.node)
         /\ \A e \in Elements(Edges) : e.to = u.node =>
              IF e.when = "after" THEN e.from \in done' ELSE runs'[e.from] # <<>>
<1>1. TaskOK(u) /\ u.node \in Nodes
  BY PendingNextTyped, MoveTaskOK
<1>2. Inside[u.node] = NULL
  BY <1>1 DEF TaskOK
<1>3. Succ(t, u) \/ After(u)
  <2>1. t \in Task /\ t.origin \in Nodes \union {NULL} /\ t.node \in Nodes
    BY MoverIs
  <2> QED
    BY <2>1, NullIs DEF Moves, First, NextItem
<1>4. CASE Succ(t, u)
  <2>1. PICK e \in Elements(Edges) : /\ e.from = t.node /\ e.when # "after" /\ u = NextTask(e.to, t)
                                     /\ e.to \in AwaitAll => AllInputsReady(runs', e.to, t.item)
    BY <1>4 DEF Succ
  <2>2. t \in Task /\ u.origin = t.origin /\ u.node = e.to
    BY <2>1, MoverIs, NextTaskIs
  <2>3. t.origin = NULL /\ runs[t.node] = <<>> /\ t.item = NoItem
    BY <2>2, MoverIs DEF TaskOK
  <2>4. ~Begun(u.node)
    BY <1>1, <1>2, <2>1, <2>2, <2>3 DEF StartsOK
  <2>5. t.node \notin ForEach
    BY <1>4, <2>3, HomeIs, MoverIs, NullIs, ZenonT(60) DEF Succ
  <2>6. runs'[t.node] # <<>>
    <3>1. o \in Elements(runs'[t.node])
      BY <2>5, NotesIs
    <3> QED
      BY <3>1, EmptyIs
  <2>7. ASSUME NEW g \in Elements(Edges), g.to = u.node
        PROVE  IF g.when = "after" THEN g.from \in done' ELSE runs'[g.from] # <<>>
    <3>1. CASE g = e
      BY <2>1, <2>6, <3>1
    <3>2. CASE g # e
      <4>1. g.when # "after" /\ e.to \in AwaitAll
        BY <2>2, <2>7, <3>2, SeveralInputs
      <4>2. runs' \in [Nodes -> Seq(Output)]
        BY DEF TInv, RecordOK
      <4>3. AllInputsReady(runs', u.node, NoItem)
        BY <2>1, <2>2, <2>3, <4>1
      <4>4. runs'[g.from] # <<>>
        BY <1>1, <2>7, <4>2, <4>3, ReadyInputs
      <4> QED
        BY <4>1, <4>4
    <3> QED
      BY <3>1, <3>2
  <2> QED
    BY <1>1, <1>2, <2>4, <2>7
<1>5. CASE After(u)
  <2>1. PICK e \in Elements(Edges) : e.when = "after" /\ e.from \notin done /\ e.from \in done'
                                     /\ u = AfterTask(e.from, e.to)
    BY <1>5 DEF After
  <2>2. u.node = e.to
    BY <2>1, AfterTaskIs
  <2>3. ~Begun(u.node)
    BY <1>1, <1>2, <2>1, <2>2 DEF StartsOK
  <2>4. \A g \in Elements(Edges) : g.to = u.node => g = e
    BY <2>1, <2>2, SeveralInputs
  <2> QED
    BY <1>1, <1>2, <2>1, <2>3, <2>4
<1> QED
  BY <1>3, <1>4, <1>5

\* Moves keeps StartsOK.
LEMMA MoveStartsOK ==
  ASSUME Structured(Inside), TInv, TInv', ShapeOK, StartsOK, NEW t, NEW o, Moves(t, o)
  PROVE  StartsOK'
<1>1. ASSUME NEW u \in Pending', u.origin = NULL, u.node \notin seeds
      PROVE  runs'[u.node] = <<>> /\ Quiet(u.node)'
  <2>1. u.node \in Nodes /\ u \in Task
    BY PendingNextTyped
  <2>2. runs[u.node] = <<>> /\ Quiet(u.node) /\ u.node # t.node
    <3>1. CASE u \in Pending \ {t}
      <4>1. runs[u.node] = <<>> /\ Quiet(u.node) /\ TaskOK(u)
        BY <1>1, <3>1 DEF StartsOK, ShapeOK
      <4>2. ASSUME u.node = t.node PROVE FALSE
        <5>1. CASE t.origin = NULL
          <6>1. u = t
            BY <1>1, <2>1, <4>1, <4>2, <5>1, MoverIs, SameStart
          <6> QED
            BY <3>1, <6>1
        <5>2. CASE t.origin # NULL
          <6>1. Inside[u.node] = NULL
            BY <1>1, <4>1 DEF TaskOK
          <6>2. t.origin = u.node
            BY <2>1, <4>2, <5>2, <6>1, HomeIs, MoverIs
          <6> QED
            BY <4>1, <5>2, <6>2, MoverIs
        <5> QED
          BY <5>1, <5>2
      <4> QED
        BY <4>1, <4>2
    <3>2. CASE u \notin Pending \ {t}
      <4>1. Inside[u.node] = NULL /\ ~Begun(u.node)
        BY <1>1, <3>2, MoveStarts
      <4> QED
        BY <2>1, <4>1, MoverIs DEF Begun
    <3> QED
      BY <3>1, <3>2
  <2> QED
    BY <2>1, <2>2, NotesIs, QuietKept
<1>2. ASSUME NEW n \in Nodes, Inside[n] = NULL, n \notin seeds, Begun(n)',
             NEW e \in Elements(Edges), e.to = n
      PROVE  IF e.when = "after" THEN e.from \in done' ELSE runs'[e.from] # <<>>
  <2>1. CASE Begun(n)
    <3>1. IF e.when = "after" THEN e.from \in done ELSE runs[e.from] # <<>>
      BY <1>2, <2>1 DEF StartsOK
    <3>2. e.from \in Nodes
      BY EdgeIs
    <3> QED
      BY <3>1, <3>2, NotesIs DEF Moves, Closes
  <2>2. CASE ~Begun(n)
    <3>1. n # t.node /\ Quiet(n) /\ runs[n] = <<>>
      BY <1>2, <2>2, MoverIs DEF Begun
    <3>2. runs'[n] = <<>> /\ Quiet(n)'
      BY <3>1, NotesIs, QuietKept
    <3>3. PICK u \in Pending' : u.node = n /\ u.origin = NULL
      BY <1>2, <3>2 DEF Begun
    <3>4. u \notin Pending \ {t}
      BY <2>2, <3>3 DEF Begun
    <3> QED
      BY <1>2, <3>3, <3>4, MoveStarts
  <2> QED
    BY <2>1, <2>2
<1>3. seeds' = seeds
  BY DEF Moves
<1> QED
  BY <1>1, <1>2, <1>3 DEF StartsOK

\* Of which loop a new task is.
LEMMA MoveOrigin ==
  ASSUME Structured(Inside), TInv, TInv', ShapeOK, StartsOK, NEW t, NEW o, Moves(t, o),
         NEW u \in Pending', u \notin Pending \ {t}, u.origin # NULL
  PROVE  \/ u.origin = t.origin /\ Succ(t, u) /\ u.item = t.item
         \/ u.origin = t.origin /\ NextItem(t, u)
         \/ u.origin = t.node /\ t.origin = NULL /\ First(t, u) /\ Quiet(t.node)
<1>1. t \in Task
  BY MoverIs
<1>2. ~After(u)
  BY AfterTaskIs DEF After
<1>3. Succ(t, u) => u.origin = t.origin /\ u.item = t.item
  BY <1>1, NextTaskIs DEF Succ
<1>4. First(t, u) => u.origin = t.node /\ t.origin = NULL /\ Quiet(t.node)
  BY MoverIs DEF First
<1> QED
  BY <1>2, <1>3, <1>4 DEF Moves, NextItem

\* What follows a loop waits for it.
LEMMA MoveAfterLoopWaits ==
  ASSUME Structured(Inside), TInv, TInv', ShapeOK, StartsOK, LoopsOK, NEW t, NEW o, Moves(t, o)
  PROVE  AfterLoopWaits'
<1> SUFFICES ASSUME NEW l \in done', l \notin broken', NEW u \in Pending', u.origin = l PROVE FALSE
  BY DEF AfterLoopWaits
<1>1. l \in done /\ l \notin broken
  BY DEF Moves, Closes
<1>2. \A v \in Pending : v.origin # l
  BY <1>1 DEF LoopsOK, AfterLoopWaits
<1>3. u \notin Pending \ {t} /\ t.origin # l
  BY <1>2 DEF Moves
<1>4. u.origin # NULL
  <2>1. l \in Nodes
    BY DEF TInv, RestOK
  <2> QED
    BY <2>1, NullIs
<1>5. u.origin = t.node /\ Quiet(t.node)
  BY <1>3, <1>4, MoveOrigin
<1> QED
  BY <1>1, <1>5 DEF Quiet

\* A break ends its loop.
LEMMA MoveBreakEndsLoop ==
  ASSUME Structured(Inside), TInv, TInv', ShapeOK, StartsOK, LoopsOK, NEW t, NEW o, Moves(t, o)
  PROVE  BreakEndsLoop'
<1> SUFFICES ASSUME NEW l \in broken', Width[l] = 1, NEW u \in Pending', u.origin = l PROVE FALSE
  BY DEF BreakEndsLoop
<1>1. l \in broken
  BY DEF Moves, Closes
<1>2. \A v \in Pending : v.origin # l
  BY <1>1 DEF LoopsOK, BreakEndsLoop
<1>3. u \notin Pending \ {t} /\ t.origin # l
  BY <1>2 DEF Moves
<1>4. l \in done /\ l \in Nodes
  BY <1>1 DEF TInv, RestOK
<1>5. u.origin = t.node /\ Quiet(t.node)
  BY <1>3, <1>4, NullIs, MoveOrigin
<1> QED
  BY <1>4, <1>5 DEF Quiet

\* Replacing an element by another makes a set no larger.
LEMMA Replaced ==
  ASSUME NEW S, IsFiniteSet(S), NEW x \in S, NEW y, NEW T, T \subseteq (S \ {x}) \union {y}
  PROVE  IsFiniteSet(T) /\ Cardinality(T) <= Cardinality(S)
<1> DEFINE R == S \ {x}
           U == R \union {y}
<1>1. IsFiniteSet(R) /\ Cardinality(R) = Cardinality(S) - 1
  BY FS_RemoveElement
<1> HIDE DEF R
<1>2. IsFiniteSet(U) /\ Cardinality(U) \in {Cardinality(R), Cardinality(R) + 1}
  BY <1>1, FS_AddElement
<1>3. T \in SUBSET U
  BY DEF R
<1> HIDE DEF U
<1>4. IsFiniteSet(T) /\ Cardinality(T) <= Cardinality(U)
  BY <1>2, <1>3, FS_Subset
<1>5. Cardinality(S) \in Nat /\ Cardinality(R) \in Nat /\ Cardinality(U) \in Nat /\ Cardinality(T) \in Nat
  BY <1>1, <1>2, <1>4, FS_CardinalityType
<1> QED
  BY <1>1, <1>2, <1>4, <1>5

\* What the items of a loop are after a move.
LEMMA MoveItems ==
  ASSUME Structured(Inside), TInv, TInv', ShapeOK, StartsOK, NEW t, NEW o, Moves(t, o), NEW l \in Nodes
  PROVE  \/ Items(l)' \subseteq Items(l)
         \/ Items(l)' \subseteq 0 .. Each(l) - 1
         \/ l = t.origin /\ Items(l)' \subseteq (Items(l) \ {t.item[l]}) \union {next[l]}
<1>0. /\ t \in Pending /\ l # NULL
      /\ \A x : x \in Items(l)' <=> \E u \in Pending' : u.origin = l /\ x = u.item[l]
      /\ \A x : x \in Items(l) <=> \E u \in Pending : u.origin = l /\ x = u.item[l]
  BY NullIs DEF Items, Moves
<1>1. CASE \E u \in Pending' : u.origin = l /\ u \notin Pending \ {t} /\ First(t, u)
  <2>1. PICK u \in Pending' : u.origin = l /\ u \notin Pending \ {t} /\ First(t, u)
    BY <1>1
  <2>2. l = t.node /\ t.origin = NULL /\ t.node \in Starters
    BY <2>1 DEF First
  <2>3. Quiet(l)
    BY <2>2, MoverIs
  <2>4. ASSUME NEW v \in Pending', v.origin = l PROVE v.item[l] \in 0 .. Each(l) - 1
    <3>1. v \notin Pending \ {t}
      BY <2>3, <2>4 DEF Quiet
    <3>2. First(t, v)
      BY <1>0, <2>2, <2>4, <3>1, MoveOrigin
    <3>3. PICK i \in 0 .. Each(l) - 1 : v.item = ItemOf(l, i)
      BY <2>2, <3>2 DEF First
    <3>4. i \in Nat
      BY EachIs
    <3>5. ItemOf(l, i)[l] = i
      BY <2>2, <3>4, ItemOfIs
    <3> QED
      BY <3>3, <3>5
  <2> QED
    BY <1>0, <2>4
<1>2. CASE \E u \in Pending' : u.origin = l /\ u \notin Pending \ {t} /\ NextItem(t, u)
  <2>1. PICK u \in Pending' : u.origin = l /\ u \notin Pending \ {t} /\ NextItem(t, u)
    BY <1>2
  <2>2. l = t.origin /\ \A v \in Pending' : v.origin = l => v.item[l] # t.item[l] \/ v.item[l] = next[l]
    BY <2>1 DEF NextItem
  <2>3. ASSUME NEW v \in Pending', v.origin = l
        PROVE  v.item[l] \in (Items(l) \ {t.item[l]}) \union {next[l]}
    <3>1. CASE v \in Pending \ {t}
      BY <1>0, <2>2, <2>3, <3>1
    <3>2. CASE v \notin Pending \ {t} /\ Succ(t, v)
      <4>1. v.item = t.item
        BY MoverIs, NextTaskIs, <3>2 DEF Succ
      <4> QED
        BY <2>2, <2>3, <4>1
    <3>3. CASE v \notin Pending \ {t} /\ NextItem(t, v)
      <4>1. v.item = ItemOf(l, next[l]) /\ next[l] # NULL
        BY <2>2, <3>3 DEF NextItem
      <4>2. l \in Starters /\ next[l] \in Nat
        BY <1>0, <2>2, <4>1, MoverIs DEF TInv, RestOK, Item
      <4>3. ItemOf(l, next[l])[l] = next[l]
        BY <4>2, ItemOfIs
      <4> QED
        BY <4>1, <4>3
    <3> QED
      BY <1>0, <2>2, <2>3, <3>1, <3>2, <3>3, MoveOrigin
  <2> QED
    BY <1>0, <2>2, <2>3
<1>3. CASE \A u \in Pending' : u.origin = l /\ u \notin Pending \ {t} => ~First(t, u) /\ ~NextItem(t, u)
  <2>1. ASSUME NEW v \in Pending', v.origin = l PROVE v.item[l] \in Items(l)
    <3>1. CASE v \in Pending \ {t}
      BY <1>0, <2>1, <3>1
    <3>2. CASE v \notin Pending \ {t}
      <4>1. v.origin = t.origin /\ v.item = t.item
        BY <1>0, <1>3, <2>1, <3>2, MoveOrigin
      <4> QED
        BY <1>0, <2>1, <4>1
    <3> QED
      BY <3>1, <3>2
  <2> QED
    BY <1>0, <2>1
<1> QED
  BY <1>1, <1>2, <1>3

\* Moves keeps LoopsOK.
LEMMA MoveLoopsOK ==
  ASSUME Structured(Inside), TInv, TInv', ShapeOK, StartsOK, LoopsOK, NEW t, NEW o, Moves(t, o)
  PROVE  LoopsOK'
<1>1. ASSUME NEW l \in Nodes PROVE IsFiniteSet(Items(l)') /\ Cardinality(Items(l)') <= Width[l]
  <2>1. IsFiniteSet(Items(l)) /\ Cardinality(Items(l)) <= Width[l] /\ Width[l] \in Nat
    BY GraphAssumption DEF LoopsOK
  <2>2. CASE Items(l)' \subseteq Items(l)
    <3>1. IsFiniteSet(Items(l)') /\ Cardinality(Items(l)') <= Cardinality(Items(l))
      BY <2>1, <2>2, FS_Subset
    <3> QED
      BY <2>1, <3>1, FS_CardinalityType
  <2>3. CASE Items(l)' \subseteq 0 .. Each(l) - 1
    <3> DEFINE I == 0 .. Each(l) - 1
    <3>1. Each(l) \in Nat /\ Each(l) <= Width[l]
      BY EachIs
    <3>2. IsFiniteSet(I) /\ Cardinality(I) = IF 0 > Each(l) - 1 THEN 0 ELSE Each(l) - 1 - 0 + 1
      BY <3>1, FS_Interval
    <3>3. Cardinality(I) = Each(l)
      BY <3>1, <3>2
    <3> HIDE DEF I
    <3>4. IsFiniteSet(Items(l)') /\ Cardinality(Items(l)') <= Cardinality(I)
      BY <2>3, <3>2, FS_Subset DEF I
    <3>5. Cardinality(Items(l)') \in Nat
      BY <3>4, FS_CardinalityType
    <3> QED
      BY <2>1, <3>1, <3>3, <3>4, <3>5
  <2>4. CASE l = t.origin /\ Items(l)' \subseteq (Items(l) \ {t.item[l]}) \union {next[l]}
    <3>1. t.item[l] \in Items(l)
      BY <2>4 DEF Items, Moves
    <3>2. IsFiniteSet(Items(l)') /\ Cardinality(Items(l)') <= Cardinality(Items(l))
      BY <2>1, <2>4, <3>1, Replaced
    <3> QED
      BY <2>1, <3>2, FS_CardinalityType
  <2> QED
    BY <2>2, <2>3, <2>4, MoveItems
<1> QED
  BY <1>1, MoveAfterLoopWaits, MoveBreakEndsLoop DEF LoopsOK

\* The next index never goes back.
LEMMA NextGrows ==
  ASSUME Structured(Inside), TInv, TInv', ShapeOK, StartsOK, NEW t, NEW o, Moves(t, o),
         NEW s \in Nodes, next[s] # NULL
  PROVE  next[s] \in Nat /\ next'[s] \in Nat /\ next[s] <= next'[s]
<1>1. next[s] \in Nat
  BY DEF TInv, RestOK, Item
<1>2. ~(s = t.node /\ t.origin = NULL)
  BY MoverIs DEF Quiet
<1>3. next'[s] = next[s] \/ next'[s] = next[s] + 1
  BY <1>2 DEF Moves, Counts
<1> QED
  BY <1>1, <1>3

\* Moves keeps IndexOK.
LEMMA MoveIndexOK ==
  ASSUME Structured(Inside), TInv, TInv', ShapeOK, StartsOK, IndexOK, NEW t, NEW o, Moves(t, o)
  PROVE  IndexOK'
<1>0. \A s \in Nodes : next[s] # NULL => next[s] \in Nat /\ next'[s] \in Nat /\ next[s] <= next'[s] /\ next'[s] # NULL
  BY NextGrows, NullIs
<1>1. /\ t \in Pending /\ t.node \in Nodes /\ t.origin \in Nodes \union {NULL}
      /\ t.origin # NULL => t.item[t.origin] \in Nat
  BY MoverIs, PendingTyped
<1>2. ASSUME NEW u \in Pending', u.origin # NULL
      PROVE  next'[u.origin] # NULL /\ (Finite(u.origin) => u.item[u.origin] < next'[u.origin])
  <2> DEFINE l == u.origin
  <2>0. l \in Nodes /\ u.item[l] \in Nat
    BY <1>2, PendingNextTyped
  <2>1. CASE u \in Pending \ {t}
    <3>1. next[l] # NULL /\ (Finite(l) => u.item[l] < next[l])
      BY <1>2, <2>1 DEF IndexOK
    <3> QED
      BY <1>0, <2>0, <3>1
  <2>2. CASE l = t.origin /\ u.item = t.item
    <3>1. next[l] # NULL /\ (Finite(l) => t.item[l] < next[l])
      BY <1>1, <1>2, <2>2 DEF IndexOK
    <3> QED
      BY <1>0, <2>0, <2>2, <3>1
  <2>3. CASE l = t.origin /\ NextItem(t, u)
    <3>1. next[l] # NULL /\ next'[l] = next[l] + 1 /\ u.item = ItemOf(l, next[l])
      BY <2>3 DEF NextItem
    <3>2. l \in Starters /\ next[l] \in Nat
      BY <1>0, <1>2, <2>0, <2>3, <3>1, MoverIs
    <3>3. u.item[l] = next[l]
      BY <3>1, <3>2, ItemOfIs
    <3> QED
      BY <1>0, <2>0, <3>1, <3>2, <3>3
  <2>4. CASE l = t.node /\ First(t, u)
    <3>1. PICK i \in 0 .. Each(l) - 1 : u.item = ItemOf(l, i)
      BY <2>4 DEF First
    <3>2. i \in Nat /\ i < Each(l)
      BY <2>0, EachIs
    <3>3. l \in Starters /\ next'[l] # NULL /\ (Finite(l) => next'[l] = Each(l))
      BY <2>4 DEF First
    <3>4. u.item[l] = i
      BY <3>1, <3>2, <3>3, ItemOfIs
    <3> QED
      BY <3>2, <3>3, <3>4
  <2> QED
    BY <1>2, <2>1, <2>2, <2>3, <2>4, MoveOrigin
<1>3. ASSUME NEW n \in Nodes, Home(n) # NULL, Finite(Home(n)), NEW v \in Elements(runs'[n])
      PROVE  next'[Home(n)] # NULL /\ v.item[Home(n)] < next'[Home(n)]
  <2> DEFINE h == Home(n)
  <2>0. h \in Nodes
    BY <1>3, HomeIs, StructuredTypes
  <2> HIDE DEF h
  <2>1. next[h] # NULL /\ v.item[h] < next[h] /\ v.item[h] \in Nat \union {NULL}
    <3>0. v.item[h] \in Nat \union {NULL}
      <4>1. runs' \in [Nodes -> Seq(Output)]
        BY DEF TInv, RecordOK
      <4>2. v \in Output
        BY <4>1, InElements
      <4> QED
        BY <2>0, <4>2 DEF Output, Item
    <3>1. CASE v \in Elements(runs[n])
      BY <1>3, <3>0, <3>1 DEF IndexOK, h
    <3>2. CASE n = t.node /\ v = o /\ o.item = t.item /\ t.origin = Home(t.node)
      BY <1>1, <1>3, <3>0, <3>2 DEF IndexOK, h
    <3> QED
      BY <3>1, <3>2, NotesIs
  <2>2. v.item[h] \in Nat
    <3>1. CASE v \in Elements(runs[n])
      BY <1>3, <3>1 DEF ShapeOK, OutputOK, h
    <3>2. CASE n = t.node /\ v = o /\ o.item = t.item /\ t.origin = Home(t.node)
      BY <1>1, <1>3, <3>2 DEF h
    <3> QED
      BY <3>1, <3>2, NotesIs
  <2> QED
    BY <1>0, <2>0, <2>1, <2>2 DEF h
<1> QED
  BY <1>2, <1>3 DEF IndexOK

\* A join in a loop whose inputs are ready: they are all of its item.
LEMMA ReadyInItem ==
  ASSUME Structured(Inside), NEW os \in [Nodes -> Seq(Output)], \A p \in Nodes : \A v \in Elements(os[p]) : OutputOK(p, v),
         NEW n \in Nodes, NEW l \in Starters, Inside[n] = l, NEW i \in Nat, AllInputsReady(os, n, ItemOf(l, i)),
         NEW e \in Elements(Edges), e.to = n, e.from \notin LoopNodes, e.from # l
  PROVE  \E v \in Elements(os[e.from]) : v.item = ItemOf(l, i)
<1> DEFINE x == ItemOf(l, i)
           p == e.from
<1>1. p \in Nodes /\ p # n /\ e.when \in Conditions
  BY EdgeIs
<1>2. l # NULL /\ x # NoItem /\ \A m \in Nodes : x[m] # NULL => m = l \/ (l \in ForEach /\ m = Source[l])
  BY ItemOfIs, StructuredTypes
<1>3. e.when # "after" /\ p \notin Starters /\ Inside[p] = l
  <2>1. e.when # "after"
    BY <1>2, EdgeIs
  <2>2. p \notin Starters
    BY <2>1, EdgeIs
  <2> QED
    BY <2>1, <2>2, EdgeIs
<1>4. x[p] = NULL
  BY <1>1, <1>2, <1>3, StructuredTypes
<1>5. MatchingOutput(os, p, x) # NULL
  BY <1>1 DEF AllInputsReady
<1>6. Home(p) = l
  BY <1>1, <1>2, <1>3, HomeIs
<1>7. \A v \in Elements(os[p]) : v.item # NoItem
  <2> SUFFICES ASSUME NEW v \in Elements(os[p]) PROVE v.item # NoItem
    OBVIOUS
  <2>1. v.item[l] \in Nat /\ v.item = ItemOf(l, v.item[l])
    BY <1>1, <1>2, <1>6 DEF OutputOK
  <2> QED
    BY <2>1, ItemOfIs
<1> HIDE DEF x, p
<1>8. os[p] # <<>> => Latest(os, p).item # NoItem
  BY <1>1, <1>7, LatestTyped
<1> DEFINE same == {j \in 1 .. Len(os[p]) : os[p][j].item = x}
<1>9. same # {}
  <2> SUFFICES ASSUME same = {} PROVE FALSE
    OBVIOUS
  <2>1. MatchingOutput(os, p, x) = NULL
    BY <1>2, <1>4, <1>8 DEF MatchingOutput
  <2> QED
    BY <1>5, <2>1
<1>10. PICK j \in 1 .. Len(os[p]) : os[p][j].item = x
  BY <1>9
<1> QED
  BY <1>10, InElements DEF x, p

\* What has run has run.
LEMMA HasRunKept ==
  ASSUME TInv, TInv', NEW t, NEW o, Moves(t, o), NEW p \in Nodes, NEW x, HasRun(p, x)
  PROVE  HasRun(p, x)'
BY NotesIs DEF HasRun

\* So has what a task rests on.
LEMMA RestsKept ==
  ASSUME Structured(Inside), TInv, TInv', NEW t, NEW o, Moves(t, o), NEW n \in Nodes, NEW x, Rests(n, x)
  PROVE  Rests(n, x)'
<1>1. n # Home(n) =>
        /\ \A e \in Elements(Edges) : e.to = n /\ e.from \notin LoopNodes => HasRun(e.from, x)'
        /\ Home(n) \in ForEach => HasRun(Home(n), x)'
  BY HasRunKept, EdgeIs, StructuredTypes DEF Rests
<1> QED
  BY <1>1 DEF Rests

\* Outputs are well formed after a move.
LEMMA MoveOutputOK ==
  ASSUME Structured(Inside), TInv, TInv', ShapeOK, StartsOK, NEW t, NEW o, Moves(t, o)
  PROVE  \A n \in Nodes : \A v \in Elements(runs'[n]) : OutputOK(n, v)
<1> SUFFICES ASSUME NEW n \in Nodes, NEW v \in Elements(runs'[n]) PROVE OutputOK(n, v)
  OBVIOUS
<1>1. CASE v \in Elements(runs[n])
  BY <1>1 DEF ShapeOK
<1>2. CASE n = t.node /\ v.item = t.item /\ t.origin = Home(t.node)
  <2>1. TaskOK(t) /\ t \in Pending /\ (t.origin # NULL => t.item[t.origin] \in Nat)
    BY MoverIs, PendingTyped
  <2> QED
    BY <1>2, <2>1 DEF OutputOK, TaskOK
<1> QED
  BY <1>1, <1>2, NotesIs

\* What a task rests on, once it is queued.
LEMMA MoveRests ==
  ASSUME Structured(Inside), TInv, TInv', ShapeOK, StartsOK, OnceOK, NEW t, NEW o, Moves(t, o),
         NEW u \in Pending', u.origin # NULL
  PROVE  Rests(u.node, u.item)'
<1>1. u.node \in Nodes /\ TaskOK(u)
  BY PendingNextTyped, MoveTaskOK
<1>2. CASE u \in Pending \ {t}
  <2>1. Rests(u.node, u.item)
    BY <1>2 DEF OnceOK
  <2> QED
    BY <1>1, <2>1, RestsKept
<1>3. ASSUME NEW l \in Starters, Opens(l, u.node) PROVE Rests(u.node, u.item)'
  <2>1. Home(u.node) = l /\ (l \in ForEach => u.node = l)
    BY <1>3, OpensIs
  <2>2. l \notin ForEach => \A e \in Elements(Edges) : e.to = u.node => e.from \in LoopNodes
    BY <1>3, OpensIs
  <2> QED
    BY <2>1, <2>2 DEF Rests
<1>4. CASE Succ(t, u) /\ u.origin = t.origin /\ u.item = t.item
  <2> DEFINE l == t.origin
             x == t.item
             i == t.item[t.origin]
             m == u.node
  <2>1. /\ t \in Task /\ TaskOK(t) /\ t.node \in Nodes /\ t \in Pending
        /\ l = Home(t.node) /\ l \in Starters /\ l \in Nodes /\ i \in Nat
    BY <1>4, MoverIs, PendingTyped, StructuredTypes
  <2>2. x = ItemOf(l, i)
    BY <1>4, <2>1 DEF TaskOK
  <2>3. PICK e \in Elements(Edges) : /\ e.from = t.node /\ e.when # "after" /\ u = NextTask(e.to, t)
                                     /\ e.to \in AwaitAll => AllInputsReady(runs', e.to, t.item)
    BY <1>4 DEF Succ
  <2>4. e.to = m
    BY <2>1, <2>3, NextTaskIs
  <2>5. Inside[m] = l
    <3>1. CASE t.node \in Starters
      BY <1>4, <2>1, <2>3, <2>4, <3>1, EdgeIs, HomeIs, StructuredTypes, ZenonT(60) DEF Succ
    <3>2. CASE t.node \notin Starters
      <4>1. Inside[e.to] = Inside[t.node]
        BY <2>3, <3>2, EdgeIs
      <4>2. t.node \notin ForEach
        BY <3>2, StructuredTypes
      <4> QED
        BY <2>1, <2>4, <4>1, <4>2, HomeIs
    <3> QED
      BY <3>1, <3>2
  <2>6. HasRun(t.node, x)'
    <3>1. ~(t.node \in ForEach /\ t.origin = NULL)
      BY <1>4
    <3>2. o \in Elements(runs'[t.node]) /\ o.item = x
      BY <3>1, NotesIs
    <3> QED
      BY <3>2 DEF HasRun
  <2>7. l \in ForEach => HasRun(l, x)'
    <3>1. CASE t.node = l
      BY <2>6, <3>1
    <3>2. CASE t.node # l
      <4>1. Rests(t.node, x)
        BY <1>4, <2>1 DEF OnceOK
      <4>2. l \in ForEach => HasRun(l, x)
        BY <2>1, <3>2, <4>1 DEF Rests
      <4> QED
        BY <2>1, <4>2, HasRunKept
    <3> QED
      BY <3>1, <3>2
  <2>8. Home(m) = l
    BY <1>1, <2>1, <2>5, HomeIs, NullIs
  <2>9. ASSUME NEW g \in Elements(Edges), g.to = m, g.from \notin LoopNodes PROVE HasRun(g.from, x)'
    <3>1. CASE g = e
      BY <2>3, <2>6, <3>1
    <3>2. CASE g.from = l
      <4>1. l \in ForEach
        BY <2>1, <2>9, <3>2, StructuredTypes
      <4> QED
        BY <2>7, <3>2, <4>1
    <3>3. CASE g # e /\ g.from # l
      <4>1. e.to \in AwaitAll
        BY <2>4, <2>9, <3>3, SeveralInputs
      <4>2. AllInputsReady(runs', m, ItemOf(l, i))
        BY <2>2, <2>3, <2>4, <4>1
      <4>3. runs' \in [Nodes -> Seq(Output)]
        BY DEF TInv, RecordOK
      <4>4. \A p \in Nodes : \A v \in Elements(runs'[p]) : OutputOK(p, v)
        BY MoveOutputOK
      <4>6. m \in Nodes /\ l \in Starters /\ i \in Nat
        BY <1>1, <2>1
      <4> HIDE DEF l, i, m, x
      <4>5. \E v \in Elements(runs'[g.from]) : v.item = ItemOf(l, i)
        BY ONLY Structured(Inside), <2>5, <2>9, <3>3, <4>2, <4>3, <4>4, <4>6, ReadyInItem, SMTT(60)
      <4> QED
        BY <2>2, <4>5 DEF HasRun
    <3> QED
      BY <3>1, <3>2, <3>3
  <2> QED
    BY <1>4, <2>7, <2>8, <2>9 DEF Rests
<1> QED
  <2>1. NextItem(t, u) => Opens(t.origin, u.node) /\ t.origin \in Starters
    BY MoverIs DEF NextItem
  <2>2. First(t, u) => Opens(t.node, u.node) /\ t.node \in Starters
    BY DEF First
  <2> QED
    BY <1>2, <1>3, <1>4, <2>1, <2>2, MoveOrigin

\* What is queued has not run for its item.
LEMMA MoveNotRun ==
  ASSUME Structured(Inside), TInv, TInv', ShapeOK, StartsOK, IndexOK, OnceOK, NEW t, NEW o, Moves(t, o),
         NEW u \in Pending', u.origin # NULL, Finite(u.origin)
  PROVE  ~HasRun(u.node, u.item)'
<1>1. u \in Task /\ u.node \in Nodes /\ TaskOK(u) /\ u.origin \in Nodes /\ u.item[u.origin] \in Nat
  BY PendingNextTyped, MoveTaskOK
<1>2. /\ t \in Task /\ TaskOK(t) /\ t.node \in Nodes /\ t \in Pending /\ t.origin \in Nodes \union {NULL}
      /\ t.origin # NULL => t.item[t.origin] \in Nat
  BY MoverIs, PendingTyped
<1>3. u.origin = Home(u.node) /\ u.origin \in Starters /\ u.item = ItemOf(u.origin, u.item[u.origin])
  BY <1>1 DEF TaskOK
<1>4. SUFFICES ASSUME NEW v \in Elements(runs'[u.node]), v.item = u.item PROVE FALSE
  BY DEF HasRun
<1>5. CASE u \in Pending \ {t}
  <2>1. ~HasRun(u.node, u.item)
    BY <1>5 DEF OnceOK
  <2>2. u.node = t.node /\ t.item = u.item /\ t.origin = Home(t.node)
    BY <1>1, <1>4, <2>1, NotesIs DEF HasRun
  <2>3. u = t
    BY <1>1, <1>2, <1>3, <2>2, SameBody
  <2> QED
    BY <1>5, <2>3
<1>6. CASE u \notin Pending \ {t} /\ Succ(t, u) /\ u.origin = t.origin /\ u.item = t.item
  <2>1. PICK e \in Elements(Edges) : e.from = t.node /\ e.when # "after" /\ u = NextTask(e.to, t)
    BY <1>6 DEF Succ
  <2>2. e.to = u.node /\ u.node # t.node
    BY <1>2, <2>1, NextTaskIs, EdgeIs
  <2>3. v \in Elements(runs[u.node])
    BY <1>1, <1>4, <2>2, NotesIs
  <2>4. Rests(u.node, u.item)
    <3>1. Home(u.node) # NULL
      BY <1>3
    <3> QED
      BY <1>1, <1>4, <2>3, <3>1 DEF OnceOK
  <2>5. Inside[u.node] # NULL
    <3>1. CASE t.node \in Starters
      BY <2>1, <2>2, <3>1, EdgeIs, StructuredTypes
    <3>2. CASE t.node \notin Starters
      <4>1. Inside[e.to] = Inside[t.node]
        BY <2>1, <3>2, EdgeIs
      <4>2. t.origin = Home(t.node) /\ t.node \notin ForEach
        BY <1>6, <3>2, StructuredTypes DEF Succ
      <4> QED
        BY <1>2, <1>6, <2>2, <4>1, <4>2, HomeIs
    <3> QED
      BY <3>1, <3>2
  <2>6. u.node # Home(u.node)
    BY <1>1, <2>5, HomeIs
  <2>7. HasRun(t.node, t.item)
    BY <1>6, <2>1, <2>2, <2>4, <2>6 DEF Rests, Succ
  <2>8. ~HasRun(t.node, t.item)
    BY <1>2, <1>6 DEF OnceOK
  <2> QED
    BY <2>7, <2>8
<1>7. CASE u \notin Pending \ {t} /\ NextItem(t, u) /\ u.origin = t.origin
  <2> DEFINE l == u.origin
  <2>1. next[l] # NULL /\ u.item = ItemOf(l, next[l]) /\ next[l] \in Nat
    BY <1>1, <1>7 DEF NextItem, TInv, RestOK, Item
  <2>2. u.item[l] = next[l]
    BY <1>3, <2>1, ItemOfIs
  <2>3. CASE v \in Elements(runs[u.node])
    <3>1. v.item[l] < next[l]
      BY <1>1, <1>3, <2>3 DEF IndexOK
    <3> QED
      BY <1>4, <2>1, <2>2, <3>1
  <2>4. CASE v.item = t.item
    <3>1. t.item[l] < next[l]
      BY <1>2, <1>7 DEF IndexOK
    <3> QED
      BY <1>4, <2>1, <2>2, <2>4, <3>1
  <2> QED
    BY <1>1, <1>4, <2>3, <2>4, NotesIs
<1>8. CASE u.origin = t.node /\ t.origin = NULL /\ First(t, u) /\ Quiet(t.node)
  <2>1. runs[u.node] = <<>>
    BY <1>1, <1>3, <1>8 DEF Quiet
  <2>2. v.item = t.item
    BY <1>1, <1>4, <2>1, EmptyIs, NotesIs, SMTT(60)
  <2>3. t.item = NoItem
    BY <1>2, <1>8 DEF TaskOK
  <2> QED
    BY <1>1, <1>3, <1>4, <2>2, <2>3, ItemOfIs
<1> QED
  BY <1>5, <1>6, <1>7, <1>8, MoveOrigin

\* What is recorded rests on its inputs.
LEMMA MoveOutputRests ==
  ASSUME Structured(Inside), TInv, TInv', ShapeOK, StartsOK, OnceOK, NEW t, NEW o, Moves(t, o),
         NEW n \in Nodes, Home(n) # NULL, NEW v \in Elements(runs'[n])
  PROVE  Rests(n, v.item)'
<1>1. Rests(n, v.item)
  <2>1. CASE v \in Elements(runs[n])
    BY <2>1 DEF OnceOK
  <2>2. CASE n = t.node /\ v.item = t.item /\ t.origin = Home(t.node)
    BY <2>2, MoverIs DEF OnceOK
  <2> QED
    BY <2>1, <2>2, NotesIs
<1> QED
  BY <1>1, RestsKept

\* What is recorded was not recorded for that item before.
LEMMA MoveOnce ==
  ASSUME Structured(Inside), TInv, TInv', ShapeOK, StartsOK, OnceOK, NEW t, NEW o, Moves(t, o),
         NEW n \in Nodes, Home(n) = NULL \/ Finite(Home(n)),
         NEW i \in 1 .. Len(runs'[n]), NEW j \in 1 .. Len(runs'[n]), runs'[n][i].item = runs'[n][j].item
  PROVE  i = j
<1>0. runs \in [Nodes -> Seq(Output)] /\ o \in Output
  BY DEF TInv, RecordOK, Moves
<1>1. CASE runs'[n] = runs[n]
  BY <1>1 DEF OnceOK
<1>2. CASE n = t.node /\ o.item = t.item /\ t.origin = Home(t.node) /\ runs'[n] = Append(runs[n], o)
  <2> DEFINE s == runs[n]
             s2 == runs'[n]
  <2>1. \A k \in 1 .. Len(s) : s[k].item # o.item
    <3>1. CASE t.origin = NULL
      <4>1. s = <<>>
        BY <1>2, <3>1, MoverIs
      <4> QED
        BY <4>1, EmptyIs
    <3>2. CASE t.origin # NULL
      <4>1. ~HasRun(n, t.item)
        BY <1>2, <3>2, MoverIs DEF OnceOK
      <4> QED
        BY <1>2, <4>1, InElements DEF HasRun
    <3> QED
      BY <3>1, <3>2
  <2>2. \A k, m \in 1 .. Len(s) : s[k].item = s[m].item => k = m
    BY DEF OnceOK
  <2>3. s \in Seq(Output) /\ s2 = Append(s, o)
    BY <1>0, <1>2
  <2>4. i \in 1 .. Len(s2) /\ j \in 1 .. Len(s2) /\ s2[i].item = s2[j].item
    OBVIOUS
  <2> HIDE DEF s, s2
  <2>5. Len(s2) = Len(s) + 1 /\ Len(s) \in Nat /\ s2[Len(s) + 1] = o /\ \A k \in 1 .. Len(s) : s2[k] = s[k]
    BY <1>0, <2>3
  <2>6. (i \in 1 .. Len(s) \/ i = Len(s) + 1) /\ (j \in 1 .. Len(s) \/ j = Len(s) + 1)
    BY <2>4, <2>5
  <2> QED
    BY <2>1, <2>2, <2>4, <2>5, <2>6
<1> QED
  BY <1>1, <1>2 DEF Moves, Notes

\* Moves keeps OnceOK.
LEMMA MoveOnceOK ==
  ASSUME Structured(Inside), TInv, TInv', ShapeOK, StartsOK, IndexOK, OnceOK, NEW t, NEW o, Moves(t, o)
  PROVE  OnceOK'
<1>1. ASSUME NEW u \in Pending', u.origin # NULL PROVE Rests(u.node, u.item)'
  BY <1>1, MoveRests
<1>2. ASSUME NEW n \in Nodes, Home(n) # NULL, NEW v \in Elements(runs'[n]) PROVE Rests(n, v.item)'
  BY <1>2, MoveOutputRests
<1>3. ASSUME NEW u \in Pending', u.origin # NULL, Finite(u.origin) PROVE ~HasRun(u.node, u.item)'
  BY <1>3, MoveNotRun
<1>4. ASSUME NEW n \in Nodes, Home(n) = NULL \/ Finite(Home(n)),
             NEW i \in 1 .. Len(runs'[n]), NEW j \in 1 .. Len(runs'[n]), runs'[n][i].item = runs'[n][j].item
      PROVE  i = j
  BY <1>4, MoveOnce
<1> QED
  BY <1>1, <1>2, <1>3, <1>4 DEF OnceOK

-----------------------------------------------------------------------------
(* Width and waiting.                                                      *)

\* The tasks of loop l, or of for_each node l, that run.
At(l) == {t \in running : t.origin = l}

\* At most max_concurrency of them run.
WidthBound == \A l \in Nodes : Cardinality(At(l)) <= Width[l]

\* A task that counts as running has a coroutine, or its result is in the channel.
Tracked ==
  pc \in {"dispatch", "receive"} =>
    \A t \in running : \/ \E w \in working : w.task = t
                       \/ \E i \in 1 .. Len(results) : results[i].task = t

\* The scheduler waits only for a result that can come.
Awaited == pc = "receive" => working # {} \/ results # <<>>

\* The inductive invariant of WidthsHold and NeverWaitsInVain.
IInv ==
  /\ IsFiniteSet(running)
  /\ \E S : results \in Seq(S)
  /\ \A w \in working : w = [task |-> w.task, attempt |-> w.attempt]
  /\ pc = "receive" => running # {}
  /\ WidthBound /\ Tracked

\* A sequence without its first element.
LEMMA Shortened ==
  ASSUME NEW s, \E S : s \in Seq(S), s # <<>>
  PROVE  /\ \E S : Tail(s) \in Seq(S)
         /\ Head(s) = s[1]
         /\ \A i \in 2 .. Len(s) : i - 1 \in 1 .. Len(Tail(s)) /\ Tail(s)[i - 1] = s[i]
         /\ Len(s) \in Nat
OBVIOUS

\* A sequence with one more element.
LEMMA Lengthened ==
  ASSUME NEW s, \E S : s \in Seq(S), NEW e
  PROVE  /\ \E S : Append(s, e) \in Seq(S)
         /\ Len(s) \in Nat /\ Len(Append(s, e)) = Len(s) + 1
         /\ \A i \in 1 .. Len(s) : Append(s, e)[i] = s[i]
         /\ Append(s, e)[Len(s) + 1] = e
<1>1. PICK S : s \in Seq(S)
  OBVIOUS
<1>2. s \in Seq(S \union {e})
  BY <1>1
<1>3. Append(s, e) \in Seq(S \union {e})
  BY <1>2
<1> QED
  BY <1>2, <1>3

\* Fewer tasks run: none of the bounds is exceeded.
LEMMA WidthShrinks ==
  ASSUME IsFiniteSet(running), WidthBound, running' \subseteq running
  PROVE  IsFiniteSet(running') /\ WidthBound'
<1>1. IsFiniteSet(running')
  BY FS_Subset
<1>2. ASSUME NEW l \in Nodes PROVE Cardinality(At(l)') <= Width[l]
  <2>1. At(l)' \subseteq At(l) /\ IsFiniteSet(At(l))
    BY FS_Subset DEF At
  <2>2. IsFiniteSet(At(l)') /\ Cardinality(At(l)') <= Cardinality(At(l))
    BY <2>1, FS_Subset
  <2>3. Cardinality(At(l)') \in Nat /\ Cardinality(At(l)) \in Nat /\ Width[l] \in Nat
    BY <2>1, <2>2, FS_CardinalityType, GraphAssumption
  <2> QED
    BY <2>2, <2>3 DEF WidthBound
<1>3. WidthBound'
  BY <1>2 DEF WidthBound, At
<1> QED
  BY <1>1, <1>3

\* The scheduler takes a result from the channel and goes on or halts.
LEMMA TakeInv ==
  ASSUME IInv, Receiving, Take(Received),
         \/ pc' = "dispatch" /\ results' = Tail(results) /\ working' = working
         \/ pc' = "ended" /\ results' = <<>> /\ working' = {}
  PROVE  IInv'
<1>1. running' = running \ {results[1].task}
  BY Shortened DEF Take, Received, Receiving, IInv
<1>2. IsFiniteSet(running') /\ WidthBound'
  BY <1>1, WidthShrinks DEF IInv
<1>3. \E S : results' \in Seq(S)
  <2>1. <<>> \in Seq({})
    OBVIOUS
  <2> QED
    BY <2>1, Shortened DEF IInv, Receiving
<1>4. Tracked'
  <2> SUFFICES ASSUME pc' = "dispatch", NEW t \in running'
               PROVE  \/ \E w \in working : w.task = t
                      \/ \E i \in 1 .. Len(results') : results'[i].task = t
    BY DEF Tracked
  <2>1. CASE \E w \in working : w.task = t
    BY <2>1
  <2>2. CASE ~\E w \in working : w.task = t
    <3>1. PICK i \in 1 .. Len(results) : results[i].task = t
      BY <1>1, <2>2 DEF IInv, Tracked, Receiving
    <3>2. i \in 2 .. Len(results)
      BY <1>1, <3>1, Shortened DEF IInv, Receiving
    <3>3. i - 1 \in 1 .. Len(results') /\ results'[i - 1] = results[i]
      BY <3>2, Shortened DEF IInv, Receiving
    <3> QED
      BY <3>1, <3>3
  <2> QED
    BY <2>1, <2>2
<1> QED
  BY <1>2, <1>3, <1>4 DEF IInv

\* A coroutine ends and puts its result into the channel.
LEMMA SendInv ==
  ASSUME IInv, NEW w \in working, NEW item, NEW out, NEW halt, Send(w, item, out, halt)
  PROVE  IInv'
<1> DEFINE r == [task |-> w.task, item |-> item, out |-> out, halt |-> halt]
<1>1. /\ working' = working \ {w} /\ results' = Append(results, r)
      /\ running' = running /\ pc' = pc
  BY DEF Send
<1>2. r.task = w.task
  OBVIOUS
<1> HIDE DEF r
<1>3. /\ \E S : results' \in Seq(S)
      /\ Len(results) \in Nat /\ Len(results') = Len(results) + 1
      /\ \A i \in 1 .. Len(results) : results'[i] = results[i]
      /\ results'[Len(results) + 1] = r
  BY ZenonT(60), <1>1, Lengthened DEF IInv
<1>4. Tracked'
  <2> SUFFICES ASSUME pc \in {"dispatch", "receive"}, NEW t \in running
               PROVE  \/ \E v \in working' : v.task = t
                      \/ \E i \in 1 .. Len(results') : results'[i].task = t
    BY <1>1 DEF Tracked
  <2>1. CASE t = w.task
    BY <1>2, <1>3, <2>1
  <2>2. CASE t # w.task /\ \E v \in working : v.task = t
    BY <1>1, <2>2
  <2>3. CASE \E i \in 1 .. Len(results) : results[i].task = t
    <3>1. PICK i \in 1 .. Len(results) : results[i].task = t
      BY <2>3
    <3>2. i \in 1 .. Len(results')
      BY <1>3
    <3> QED
      BY <1>3, <3>1, <3>2
  <2> QED
    BY <2>1, <2>2, <2>3 DEF IInv, Tracked
<1>5. WidthBound'
  BY <1>1 DEF IInv, WidthBound, At
<1> QED
  BY <1>1, <1>3, <1>4, <1>5 DEF IInv

\* A task is started only while its loop has a place.
LEMMA StartInv == ASSUME IInv, TInv, DispatchStart PROVE IInv'
<1> DEFINE t == Head(queue)
           w == [task |-> t, attempt |-> 1]
<1>1. t \in Task
  BY DEF TInv, QueueOK, DispatchStart, Startable, Dispatching
<1>2. /\ running' = running \union {t} /\ working' = working \union {w}
      /\ results' = results /\ pc = "dispatch" /\ pc' = pc /\ ~Blocked(t)
  BY DEF DispatchStart, Startable, Dispatching
<1>3. w.task = t /\ w = [task |-> w.task, attempt |-> w.attempt]
  OBVIOUS
<1> HIDE DEF t, w
<1>4. IsFiniteSet(running')
  BY <1>2, FS_AddElement DEF IInv
<1>5. ASSUME NEW l \in Nodes PROVE Cardinality(At(l)') <= Width[l]
  <2>1. IsFiniteSet(At(l)) /\ IsFiniteSet(Active(l)) /\ At(l) \subseteq Active(l)
    BY FS_Subset DEF IInv, At, Active
  <2>2. CASE t.origin # l
    <3>1. At(l)' = At(l)
      BY <1>2, <2>2 DEF At
    <3> QED
      BY <3>1 DEF IInv, WidthBound
  <2>3. CASE t.origin = l
    <3>1. l # NULL
      BY GraphAssumption
    <3>2. ~(Cardinality(Active(l)) >= Width[l])
      BY <1>2, <2>3, <3>1 DEF Blocked
    <3>3. Cardinality(At(l)) <= Cardinality(Active(l))
      BY <2>1, FS_Subset
    <3>4. At(l)' = At(l) \union {t}
      BY <1>2, <2>3 DEF At
    <3>5. Cardinality(At(l) \union {t}) \in {Cardinality(At(l)), Cardinality(At(l)) + 1}
      BY <2>1, FS_AddElement
    <3>6. Cardinality(At(l)) \in Nat /\ Cardinality(Active(l)) \in Nat /\ Width[l] \in Nat
      BY <2>1, FS_CardinalityType, GraphAssumption
    <3> QED
      BY <3>2, <3>3, <3>4, <3>5, <3>6
  <2> QED
    BY <2>2, <2>3
<1>6. WidthBound'
  BY <1>5 DEF WidthBound
<1>7. Tracked'
  BY <1>2, <1>3 DEF IInv, Tracked
<1> QED
  BY <1>2, <1>3, <1>4, <1>6, <1>7 DEF IInv

\* Steps that start, end and receive nothing.
LEMMA IdleInv ==
  ASSUME IInv, UNCHANGED <<running, working, results>>,
         pc' = pc \/ pc' = "ended" \/ (pc = "dispatch" /\ pc' = "receive" /\ running # {})
  PROVE  IInv'
BY DEF IInv, WidthBound, At, Tracked

\* The execution is over, or a new one begins.
LEMMA EmptyInv ==
  ASSUME running' = {}, working' = {}, results' = <<>>, pc' # "receive"
  PROVE  IInv'
<1>1. <<>> \in Seq({})
  OBVIOUS
<1>2. Cardinality({}) = 0 /\ IsFiniteSet({})
  BY FS_EmptySet
<1>3. ASSUME NEW l \in Nodes PROVE Cardinality(At(l)') <= Width[l]
  <2>1. At(l)' = {}
    BY DEF At
  <2>2. Cardinality(At(l)') = 0
    BY <1>2, <2>1
  <2>3. Width[l] \in Nat
    BY GraphAssumption
  <2> QED
    BY <2>2, <2>3
<1>4. WidthBound'
  BY <1>3 DEF WidthBound
<1> QED
  BY <1>1, <1>4, FS_EmptySet DEF IInv, Tracked

\* Every step keeps the invariant.
LEMMA StepInv == TInv /\ IInv /\ [Next]_vars => IInv'
<1> SUFFICES ASSUME TInv, IInv, [Next]_vars PROVE IInv'
  OBVIOUS
<1>1. CASE DispatchStopped \/ DispatchLimit
  <2>1. running' = running /\ working' = {} /\ results' = <<>> /\ pc' = "ended"
    BY <1>1 DEF DispatchStopped, DispatchLimit, Halt
  <2>2. <<>> \in Seq({})
    OBVIOUS
  <2> QED
    BY <2>1, <2>2 DEF IInv, WidthBound, At, Tracked
<1>2. CASE DispatchSeeded \/ DispatchForEach \/ RequestStop
  BY <1>2, IdleInv DEF DispatchSeeded, DispatchForEach, RequestStop
<1>3. CASE DispatchBlocked
  <2> DEFINE l == Head(queue).origin
  <2>1. Head(queue) \in Task
    BY <1>3 DEF TInv, QueueOK, DispatchBlocked, Dispatching
  <2>2. l \in Nodes /\ Cardinality(Active(l)) >= Width[l]
    BY <1>3, <2>1 DEF DispatchBlocked, Blocked, Task
  <2> HIDE DEF l
  <2>3. Width[l] \in Nat /\ Width[l] # 0
    BY <2>2, GraphAssumption
  <2>4. Active(l) # {}
    BY <2>2, <2>3, FS_EmptySet
  <2>5. running # {}
    BY <2>4 DEF Active
  <2> QED
    BY <1>3, <2>5, IdleInv DEF DispatchBlocked, Dispatching
<1>4. CASE DispatchStart
  BY <1>4, StartInv
<1>5. CASE DispatchDone
  BY <1>5, IdleInv DEF DispatchDone
<1>6. CASE ReceiveBreak \/ ReceiveTerminal \/ ReceiveHalt \/ ReceiveResult
  <2>1. Receiving /\ Take(Received)
    BY <1>6 DEF ReceiveBreak, ReceiveTerminal, ReceiveHalt, ReceiveResult
  <2>2. \/ pc' = "dispatch" /\ results' = Tail(results) /\ working' = working
        \/ pc' = "ended" /\ results' = <<>> /\ working' = {}
    BY <1>6 DEF ReceiveBreak, ReceiveTerminal, ReceiveHalt, ReceiveResult, Halt
  <2> QED
    BY <2>1, <2>2, TakeInv
<1>7. ASSUME NEW w \in working, Reuse(w) \/ Finish(w) PROVE IInv'
  <2>1. \E item, out, halt : Send(w, item, out, halt)
    BY <1>7 DEF Reuse, Finish
  <2> QED
    BY <2>1, SendInv
<1>8. ASSUME NEW w \in working, Retry(w) PROVE IInv'
  <2> DEFINE v == [w EXCEPT !.attempt = @ + 1]
  <2>1. /\ working' = (working \ {w}) \union {v}
        /\ running' = running /\ results' = results /\ pc' = pc
    BY <1>8 DEF Retry
  <2>2. w = [task |-> w.task, attempt |-> w.attempt]
    BY DEF IInv
  <2>3. v.task = w.task /\ v = [task |-> v.task, attempt |-> v.attempt]
    BY <2>2
  <2> HIDE DEF v
  <2>4. Tracked'
    BY <2>1, <2>3 DEF IInv, Tracked
  <2> QED
    BY <2>1, <2>3, <2>4 DEF IInv, WidthBound, At
<1>9. CASE Crash \/ Resume
  BY <1>9, EmptyInv DEF Crash, Resume
<1>10. CASE UNCHANGED vars
  BY <1>10, IdleInv DEF vars
<1> QED
  BY <1>1, <1>2, <1>3, <1>4, <1>5, <1>6, <1>7, <1>8, <1>9, <1>10
  DEF Next, Scheduler, NodeSteps, Over

\* The invariant holds in every reachable state.
LEMMA Invariant == Spec => []IInv
<1>1. Init => IInv
  <2> SUFFICES ASSUME Init PROVE IInv
    OBVIOUS
  <2>1. running = {} /\ working = {} /\ results = <<>> /\ pc = "dispatch"
    BY DEF Init
  <2>2. <<>> \in Seq({})
    OBVIOUS
  <2>3. \A l \in Nodes : At(l) = {} /\ Width[l] \in Nat
    BY <2>1, GraphAssumption DEF At
  <2> QED
    BY <2>1, <2>2, <2>3, FS_EmptySet DEF IInv, WidthBound, Tracked
<1> QED
  BY <1>1, StepInv, TypesHold, PTL DEF Spec

-----------------------------------------------------------------------------
(* The theorems.                                                           *)

\* In every workflow a loop or for_each node has at most max_concurrency tasks
\* running, although tasks of it are queued by results, by other loops and by a
\* resume: what dispatching checks is enough.
THEOREM WidthsHold == Spec => []WidthBound
<1>1. IInv => WidthBound
  BY DEF IInv
<1> QED
  BY <1>1, Invariant, PTL

\* In every workflow the scheduler waits for a result only while some node is at
\* work or a result is in the channel, so a loop at its width, a break or a resume
\* never leaves it waiting for ever.
THEOREM NeverWaitsInVain == Spec => []Awaited
<1>1. IInv => Awaited
  BY DEF IInv, Tracked, Awaited
<1> QED
  BY <1>1, Invariant, PTL

-----------------------------------------------------------------------------
(* The steps of the executor are such steps.                               *)

\* The first items of a for_each node.
LEMMA ForEachMoves ==
  ASSUME Structured(Inside), TInv, ShapeOK, StartsOK, DispatchForEach
  PROVE  \E o : Moves(Head(queue), o)
<1> DEFINE t == Head(queue)
           n == t.node
           first == Least(Width[n], Size[n])
           out == [ok |-> TRUE, hit |-> TRUE]
           o == [item |-> NoItem, out |-> out]
<1>1. o \in Output
  BY NoItemTyped DEF Output, Outcome
<1> HIDE DEF o, t
<1>2. /\ t \in Task /\ first \in Nat /\ n \in Nodes
      /\ \A u : u \in Elements(queue') <=>
           \/ u \in Elements(queue) \ {t}
           \/ u \notin Pending \ {t} /\ \E i \in 1 .. first : u = FirstTask(t, i)
      /\ next' = IF first > 0 /\ next[n] = NULL THEN [next EXCEPT ![n] = first] ELSE next
  BY ForEachQueue DEF Task, t
<1>3. /\ running' = running /\ runs' = runs /\ done' = done /\ broken' = broken /\ seeds' = seeds
      /\ n \in ForEach /\ t.origin # n /\ Dispatching
  BY DEF DispatchForEach, Expands, resume, t
<1>4. t \in Elements(queue) /\ t \notin running /\ t \in Pending /\ TaskOK(t)
  BY <1>3, DispatchedIs DEF Pending, ShapeOK, t
<1>5. t.origin = NULL /\ t.item = NoItem
  BY <1>2, <1>3, <1>4, HomeIs DEF TaskOK
<1>6. n \notin seeds /\ n \in Starters
  BY <1>3, SeedIs, StructuredTypes
<1>7. runs[n] = <<>> /\ Quiet(n)
  BY <1>4, <1>5, <1>6 DEF StartsOK
<1>8. Each(n) = first
  BY <1>3, <1>2, StructuredTypes DEF Each, LoopNodes
<1>9. ASSUME NEW u \in Pending' PROVE u \in Pending \ {t} \/ First(t, u)
  <2>1. CASE u \in running'
    BY <1>3, <1>4, <2>1 DEF Pending
  <2>2. CASE u \in Elements(queue) \ {t}
    BY <2>2 DEF Pending
  <2>3. ASSUME NEW i \in 1 .. first, u = FirstTask(t, i) PROVE First(t, u)
    <3>1. i \in Nat \ {0} /\ i - 1 \in Nat /\ i - 1 \in 0 .. Each(n) - 1 /\ first > 0
      BY <1>2, <1>8
    <3>2. u.origin = n /\ u.node = n /\ u.after = NULL /\ u.item = [t.item EXCEPT ![Source[n]] = i - 1, ![n] = i - 1]
      BY <1>2, <2>3, <3>1, FirstTaskIs
    <3>3. u.item = ItemOf(n, i - 1)
      BY <1>3, <1>5, <1>6, <3>1, <3>2, ItemOfUpdate
    <3>4. next'[n] = first
      BY <1>2, <1>7, <3>1 DEF Quiet, TInv, RestOK, Item
    <3>5. next'[n] # NULL
      BY <1>2, <3>4, NullIs
    <3> QED
      BY <1>3, <1>5, <1>6, <1>8, <3>1, <3>2, <3>3, <3>4, <3>5 DEF First, Opens
  <2> QED
    BY <1>2, <1>9, <2>1, <2>2, <2>3 DEF Pending
<1>10. Counts(t)
  <2> SUFFICES ASSUME NEW s \in Nodes, s # n PROVE next'[s] = next[s]
    BY <1>5, <1>6 DEF Counts
  <2> QED
    BY <1>2 DEF TInv, RestOK, Item
<1>11. Closes(t)
  BY <1>3 DEF Closes
<1>12. Notes(t, o)
  BY <1>3, <1>5 DEF Notes
<1>13. Moves(t, o)
  BY <1>1, <1>3, <1>4, <1>6, <1>9, <1>10, <1>11, <1>12 DEF Moves
<1> QED
  BY <1>13 DEF t

\* What is common to the steps that take a result.
ReceivedOutput == [item |-> Received.item, out |-> Received.out]

\* The task of a result is well formed.
LEMMA ReceivedShape ==
  ASSUME Structured(Inside), TInv, ShapeOK, StartsOK, Receiving
  PROVE  LET t == Received.task IN
         /\ t \in Task /\ t.node \in Nodes /\ t.origin \in Nodes \union {NULL} /\ TaskOK(t)
         /\ t \in Pending /\ t \in running /\ t \notin Elements(queue)
         /\ t.origin = Home(t.node) /\ t.node \notin seeds
         /\ ReceivedOutput \in Output /\ ReceivedOutput.item = t.item
         /\ t.node \in LoopNodes => t.origin = NULL /\ (Received.out.ok \/ Received.halt)
         /\ t.origin = NULL => runs[t.node] = <<>> /\ Quiet(t.node)
         /\ t.origin # NULL => t.origin \in Starters /\ t.node \notin LoopNodes
         /\ StartsLoop(t.node, Received.out) => t.node \in LoopNodes
<1> DEFINE t == Received.task
<1>1. /\ t \in Task /\ t.node \in Nodes /\ t.origin \in Nodes \union {NULL} /\ t \in running
      /\ t \notin Elements(queue) /\ Received = results[1] /\ 1 \in 1 .. Len(results)
  BY ReceivedIs
<1>2. t \in Pending /\ TaskOK(t) /\ t.origin = Home(t.node) /\ t.node \notin seeds
  BY <1>1 DEF Pending, ShapeOK
<1>3. Received.item = t.item /\ (t.node \in LoopNodes => Received.out.ok \/ Received.halt)
  BY <1>1 DEF ShapeOK
<1>4. ReceivedOutput \in Output /\ ReceivedOutput.item = t.item
  BY <1>3, RecordedTyped DEF ReceivedOutput
<1>5. t.node \in LoopNodes => t.origin = NULL
  BY <1>1, <1>2, HomeIs
<1>6. t.origin = NULL => runs[t.node] = <<>> /\ Quiet(t.node)
  BY <1>2 DEF StartsOK
<1>7. t.origin # NULL => t.origin \in Starters /\ t.node \notin LoopNodes
  BY <1>2, <1>5 DEF TaskOK
<1>8. StartsLoop(t.node, Received.out) => t.node \in LoopNodes
  BY <1>1 DEF StartsLoop, LoopNodes
<1> QED
  BY <1>1, <1>2, <1>3, <1>4, <1>5, <1>6, <1>7, <1>8

\* A result is recorded for its task.
LEMMA TakeNotes ==
  ASSUME Structured(Inside), TInv, ShapeOK, StartsOK, Receiving, Take(Received)
  PROVE  Notes(Received.task, ReceivedOutput) /\ seeds' = seeds /\ running' = running \ {Received.task}
<1>1. runs' = Recorded(Received) /\ seeds' = seeds /\ running' = running \ {Received.task}
  BY DEF Take, resume
<1>2. /\ Recorded(Received)[Received.task.node] = Append(runs[Received.task.node], ReceivedOutput)
      /\ \A n \in Nodes : n # Received.task.node => Recorded(Received)[n] = runs[n]
  BY RecordedTyped DEF ReceivedOutput
<1>3. ReceivedOutput.item = Received.task.item /\ Received.task.origin = Home(Received.task.node)
  BY ReceivedShape
<1> QED
  BY <1>1, <1>2, <1>3 DEF Notes

\* A result is recorded and nothing is queued.
LEMMA OnlyTakes ==
  ASSUME Structured(Inside), TInv, ShapeOK, StartsOK, Receiving, Take(Received),
         queue' = queue, next' = next, done' = done, broken' = broken
  PROVE  Moves(Received.task, ReceivedOutput)
<1> DEFINE t == Received.task
<1>1. /\ t \in Pending /\ t \notin Elements(queue) /\ t.node \notin seeds /\ ReceivedOutput \in Output
  BY ReceivedShape
<1>2. Notes(t, ReceivedOutput) /\ seeds' = seeds /\ running' = running \ {t}
  BY TakeNotes
<1>3. \A u \in Pending' : u \in Pending \ {t}
  BY <1>1, <1>2 DEF Pending
<1>4. Counts(t) /\ Closes(t)
  BY DEF Counts, Closes
<1> QED
  BY <1>1, <1>2, <1>3, <1>4 DEF Moves

\* A loop that runs one item at a time runs nothing but the task that breaks it.
LEMMA OneAtATime ==
  ASSUME IInv, NEW l \in Nodes, Width[l] = 1, NEW t \in running, t.origin = l, NEW u \in running, u.origin = l
  PROVE  u = t
<1>1. At(l) \subseteq running /\ t \in At(l) /\ u \in At(l)
  BY DEF At
<1>2. IsFiniteSet(At(l)) /\ Cardinality(At(l)) <= 1
  BY <1>1, FS_Subset DEF IInv, WidthBound
<1>3. Cardinality(At(l)) \in Nat
  BY <1>2, FS_CardinalityType
<1>4. Cardinality({t}) = 1 /\ IsFiniteSet({t})
  BY FS_Singleton
<1>5. {t} \in SUBSET At(l)
  BY <1>1
<1>6. Cardinality({t}) <= Cardinality(At(l)) /\ (Cardinality(At(l)) = Cardinality({t}) => At(l) = {t})
  BY <1>2, <1>5, FS_Subset
<1>7. Cardinality(At(l)) = Cardinality({t})
  BY <1>2, <1>3, <1>4, <1>6
<1> QED
  BY <1>1, <1>6, <1>7

\* A break is such a step.
LEMMA BreakMoves ==
  ASSUME Structured(Inside), TInv, IInv, ShapeOK, StartsOK, ReceiveBreak
  PROVE  Moves(Received.task, ReceivedOutput)
<1> DEFINE t == Received.task
           l == t.origin
<1>1. Receiving /\ Take(Received) /\ next' = next
  BY DEF ReceiveBreak
<1>2. CASE l = NULL
  <2>1. queue' = queue /\ done' = done /\ broken' = broken
    BY <1>2, BreakQueue
  <2> QED
    BY <1>1, <2>1, OnlyTakes
<1>3. CASE l # NULL
  <2>1. /\ t \in Pending /\ t \in running /\ t \notin Elements(queue) /\ t.node \notin seeds /\ ReceivedOutput \in Output
        /\ l \in Starters
    BY <1>1, <1>3, ReceivedShape
  <2>2. Notes(t, ReceivedOutput) /\ seeds' = seeds /\ running' = running \ {t}
    BY <1>1, TakeNotes
  <2>3. /\ l \in Nodes /\ done' = done \union {l} /\ broken' = broken \union {l}
        /\ \A u : u \in Elements(queue') <=>
             \/ u \in Elements(queue) /\ u.origin # l
             \/ /\ l \notin done /\ u \notin running \ {t}
                /\ \E e \in Elements(Edges) : e.from = l /\ e.when = "after" /\ u = AfterTask(l, e.to)
    BY <1>3, BreakQueue
  <2>4. ASSUME NEW u \in Pending' PROVE u \in Pending \ {t} \/ After(u)
    <3>1. CASE u \in running'
      BY <2>2, <3>1 DEF Pending
    <3>2. CASE u \in Elements(queue)
      BY <2>1, <3>2 DEF Pending
    <3>3. CASE l \notin done /\ \E e \in Elements(Edges) : e.from = l /\ e.when = "after" /\ u = AfterTask(l, e.to)
      BY <2>3, <3>3 DEF After
    <3> QED
      BY <2>3, <2>4, <3>1, <3>2, <3>3 DEF Pending
  <2>5. Counts(t)
    BY <1>1 DEF Counts
  <2>6. ASSUME Width[l] = 1, NEW u \in Pending', u.origin = l PROVE FALSE
    <3>1. CASE u \in running'
      BY <2>1, <2>2, <2>3, <2>6, <3>1, OneAtATime
    <3>2. CASE u \in Elements(queue')
      <4>1. u.origin = l => ~\E e \in Elements(Edges) : u = AfterTask(l, e.to)
        BY <1>3, AfterTaskIs
      <4> QED
        BY <2>3, <2>6, <3>2, <4>1
    <3> QED
      BY <2>6, <3>1, <3>2 DEF Pending
  <2>7. Closes(t)
    BY <2>1, <2>3, <2>6 DEF Closes
  <2> QED
    BY <2>1, <2>2, <2>4, <2>5, <2>7 DEF Moves
<1> QED
  BY <1>2, <1>3

\* A loop that is not halted starts.
LEMMA LoopStarts ==
  ASSUME Structured(Inside), TInv, ShapeOK, StartsOK, Receiving, ~Halting(Received)
  PROVE  StartsLoop(Received.task.node, Received.out) <=> Received.task.node \in LoopNodes
<1> DEFINE t == Received.task
<1>1. ASSUME t.node \in LoopNodes PROVE StartsLoop(t.node, Received.out)
  <2>1. t.origin = NULL /\ (Received.out.ok \/ Received.halt)
    BY <1>1, ReceivedShape
  <2>2. ~Received.halt
    BY <2>1 DEF Halting
  <2> QED
    BY <1>1, <2>1, <2>2 DEF StartsLoop, LoopNodes
<1> QED
  BY <1>1, ReceivedShape

\* The next index after a result.
LEMMA ResultNext ==
  ASSUME Structured(Inside), TInv, ShapeOK, StartsOK, IndexOK, ReceiveResult
  PROVE  LET t == Received.task
             n == Received.task.node
             l == Received.task.origin IN
         /\ n \in LoopNodes => /\ ~Advances /\ l = NULL /\ next'[n] # NULL /\ (Finite(n) => next'[n] = Each(n))
                               /\ \A s \in Nodes : s # n => next'[s] = next[s]
         /\ n \notin LoopNodes /\ ~Goes => next' = next
         /\ Goes => /\ n \notin LoopNodes /\ l \in Nodes /\ next[l] # NULL /\ next[l] \in Nat /\ NextIndex(t) = next[l]
                    /\ next'[l] = next[l] + 1 /\ \A s \in Nodes : s # l => next'[s] = next[s]
<1> DEFINE t == Received.task
           n == Received.task.node
           l == Received.task.origin
<1>1. Receiving /\ ~Halting(Received)
  BY ResultStep
<1>2. next' = IF Goes THEN [NextStart EXCEPT ![l] = NextIndex(t) + 1] ELSE NextStart
  BY ResultStep
<1>3. StartsLoop(n, Received.out) <=> n \in LoopNodes
  BY <1>1, LoopStarts
<1>4. next \in [Nodes -> Nat \union {NULL}] /\ n \in Nodes /\ t \in Pending /\ l \in Nodes \union {NULL}
  BY <1>1, ReceivedShape DEF TInv, RestOK, Item
<1>5. Advances => l # NULL
  BY DEF Advances, ItemOver
<1>6. ASSUME n \in LoopNodes
      PROVE  /\ ~Advances /\ l = NULL /\ next'[n] # NULL /\ (Finite(n) => next'[n] = Each(n))
             /\ \A s \in Nodes : s # n => next'[s] = next[s]
  <2>1. l = NULL /\ next[n] = NULL
    BY <1>1, <1>6, ReceivedShape DEF Quiet
  <2>2. ~Advances /\ ~Goes
    BY <1>5, <2>1 DEF Goes
  <2>3. next' = [next EXCEPT ![n] = IF Kind[n] = "infinite" THEN 0 ELSE Least(Width[n], Size[n])]
    BY <1>2, <1>3, <1>6, <2>1, <2>2 DEF NextStart
  <2>4. next'[n] = (IF Kind[n] = "infinite" THEN 0 ELSE Least(Width[n], Size[n])) /\ \A s \in Nodes : s # n => next'[s] = next[s]
    BY <1>4, <2>3
  <2>5. Least(Width[n], Size[n]) \in Nat
    BY <1>4, EachIs
  <2>6. next'[n] \in Nat
    BY <2>4, <2>5
  <2> QED
    BY <2>1, <2>2, <2>4, <2>6, NullIs DEF Finite, Each
<1>7. ASSUME n \notin LoopNodes PROVE NextStart = next
  BY <1>3, <1>7 DEF NextStart
<1>8. ASSUME Goes
      PROVE  /\ n \notin LoopNodes /\ l \in Nodes /\ next[l] # NULL /\ next[l] \in Nat /\ NextIndex(t) = next[l]
             /\ next'[l] = next[l] + 1 /\ \A s \in Nodes : s # l => next'[s] = next[s]
  <2>1. l # NULL /\ l \in Nodes
    BY <1>4, <1>5, <1>8 DEF Goes
  <2>2. n \notin LoopNodes
    BY <1>1, <2>1, ReceivedShape
  <2>3. next[l] # NULL
    BY <1>4, <2>1 DEF IndexOK
  <2>4. next[l] \in Nat /\ NextIndex(t) = next[l]
    BY <1>4, <2>1, <2>3 DEF NextIndex
  <2>5. next' = [next EXCEPT ![l] = next[l] + 1]
    BY <1>2, <1>7, <1>8, <2>2, <2>4
  <2> QED
    BY <1>4, <2>1, <2>2, <2>3, <2>4, <2>5
<1> QED
  BY <1>2, <1>6, <1>7, <1>8

\* What a result queues.
LEMMA ResultNew ==
  ASSUME Structured(Inside), TInv, ShapeOK, StartsOK, IndexOK, ReceiveResult, NEW u \in Pending'
  PROVE  LET t == Received.task IN
         u \in Pending \ {t} \/ Succ(t, u) \/ First(t, u) \/ After(u) \/ NextItem(t, u)
<1> DEFINE t == Received.task
           n == Received.task.node
           l == Received.task.origin
<1>1. /\ Receiving /\ ~Halting(Received) /\ runs' = Recorded(Received)
      /\ done' = done \union (IF EmptyLoop THEN {n} ELSE {}) \union (IF Ends THEN {l} ELSE {})
  BY ResultStep DEF Take
<1>2. /\ t \in Task /\ n \in Nodes /\ l \in Nodes \union {NULL} /\ TaskOK(t) /\ t \in Pending
      /\ t \notin Elements(queue) /\ l = Home(n)
      /\ (l = NULL => runs[n] = <<>> /\ Quiet(n)) /\ (l # NULL => l \in Starters /\ n \notin LoopNodes)
  BY <1>1, ReceivedShape
<1>3. StartsLoop(n, Received.out) <=> n \in LoopNodes
  BY <1>1, LoopStarts
<1>4. /\ running' = running \ {t}
      /\ Elements(queue') = Elements(queue) \union Elements(Follow) \union Elements(Skipped) \union Elements(More)
  BY ResultQueue
<1>5. CASE u \in running' \/ u \in Elements(queue)
  BY <1>2, <1>4, <1>5 DEF Pending
<1>6. CASE u \in Elements(Follow)
  <2>1. PICK e \in Elements(Edges) :
              /\ e.from = n /\ Taken(Recorded(Received), e, t, Received.out)
              /\ IF StartsLoop(n, Received.out)
                 THEN \E i \in 1 .. Each(n) : u = ItemTask(e.to, t, i)
                 ELSE u = NextTask(e.to, t)
    BY <1>1, <1>6, FollowHas
  <2>2. e.when # "after"
    BY <2>1, AfterNeverMatches DEF Taken
  <2>3. CASE n \notin LoopNodes
    <3>1. u = NextTask(e.to, t) /\ (e.to \in AwaitAll => AllInputsReady(runs', e.to, t.item))
      BY <1>1, <1>3, <2>1, <2>3 DEF Taken
    <3>2. Succ(t, u)
      BY <1>2, <2>1, <2>2, <2>3, <3>1 DEF Succ
    <3> QED
      BY <3>2
  <2>4. CASE n \in LoopNodes
    <3>1. PICK i \in 1 .. Each(n) : u = ItemTask(e.to, t, i)
      BY <1>3, <2>1, <2>4
    <3>2. l = NULL /\ n \in Starters /\ n \notin ForEach /\ t.item = NoItem
      BY <1>2, <2>4, StructuredTypes DEF TaskOK
    <3>3. Each(n) \in Nat
      BY <1>2, EachIs
    <3>4. i - 1 \in Nat /\ i - 1 \in 0 .. Each(n) - 1
      BY <3>3
    <3>5. u.origin = n /\ u.after = NULL /\ u.node = e.to
      BY <1>2, <3>1, ItemTaskIs
    <3>6. u.item = [t.item EXCEPT ![n] = i - 1]
      BY <3>1, ItemTaskItem
    <3>7. u.item = ItemOf(n, i - 1)
      BY <3>2, <3>4, <3>6, ItemOfUpdate
    <3>8. next'[n] # NULL /\ (Finite(n) => next'[n] = Each(n))
      BY <2>4, ResultNext
    <3>9. Opens(n, u.node)
      BY <2>1, <2>2, <3>2, <3>5 DEF Opens
    <3>10. First(t, u)
      BY <3>2, <3>4, <3>5, <3>7, <3>8, <3>9 DEF First
    <3> QED
      BY <3>10
  <2> QED
    BY <2>3, <2>4
<1>7. CASE u \in Elements(Skipped)
  <2>1. /\ EmptyLoop /\ n \notin done
        /\ \E e \in Elements(Edges) : e.from = n /\ e.when = "after" /\ u = AfterTask(n, e.to)
    BY <1>1, <1>7, SkippedHas
  <2>2. After(u)
    BY <1>1, <2>1 DEF After
  <2> QED
    BY <2>2
<1>8. CASE u \in Elements(More) /\ Ends
  <2>1. l \notin done /\ \E e \in Elements(Edges) : e.from = l /\ e.when = "after" /\ u = AfterTask(l, e.to)
    BY <1>1, <1>8, MoreHas
  <2>2. After(u)
    BY <1>1, <1>8, <2>1 DEF After
  <2> QED
    BY <2>2
<1>9. CASE u \in Elements(More) /\ ~Ends
  <2>1. /\ Goes
        /\ IF l \in ForEach THEN u = EachTask(t, NextIndex(t))
           ELSE \E e \in Elements(Edges) : e.from = l /\ e.when # "after" /\ u = BodyTask(e.to, t, NextIndex(t))
    BY <1>1, <1>9, MoreHas
  <2>2. /\ n \notin LoopNodes /\ l \in Nodes /\ next[l] # NULL /\ next[l] \in Nat /\ NextIndex(t) = next[l]
        /\ next'[l] = next[l] + 1
    BY <2>1, ResultNext
  <2>3. l # NULL /\ t.after = NULL /\ l \in Starters /\ t.item = ItemOf(l, t.item[l]) /\ t.item[l] \in Nat
    BY <1>2, <2>2, NullIs, PendingTyped DEF TaskOK
  <2>4. ASSUME NEW v \in Elements(More)
        PROVE  v.origin = l /\ v.after = NULL /\ Opens(l, v.node) /\ v.item = ItemOf(l, next[l])
    <3>1. IF l \in ForEach THEN v = EachTask(t, next[l])
          ELSE \E e \in Elements(Edges) : e.from = l /\ e.when # "after" /\ v = BodyTask(e.to, t, next[l])
      BY <1>1, <1>9, <2>2, <2>4, MoreHas
    <3>2. CASE l \in ForEach
      <4>1. v.origin = l /\ v.after = NULL /\ v.node = l
        BY <1>2, <2>3, <3>1, <3>2, EachTaskIs
      <4>2. v.item = [t.item EXCEPT ![Source[l]] = next[l], ![l] = next[l]]
        BY <3>1, <3>2, EachTaskItem
      <4>3. v.item = ItemOf(l, next[l])
        BY <2>2, <2>3, <3>2, <4>2, ItemOfUpdate
      <4> QED
        BY <3>2, <4>1, <4>3 DEF Opens
    <3>3. CASE l \notin ForEach
      <4>1. PICK e \in Elements(Edges) : e.from = l /\ e.when # "after" /\ v = BodyTask(e.to, t, next[l])
        BY <3>1, <3>3
      <4>2. v.origin = l /\ v.after = NULL /\ v.node = e.to
        BY <1>2, <2>3, <4>1, BodyTaskIs
      <4>3. v.item = [t.item EXCEPT ![l] = next[l]]
        BY <4>1, BodyTaskItem
      <4>4. v.item = ItemOf(l, next[l])
        BY <2>2, <2>3, <3>3, <4>3, ItemOfUpdate
      <4> QED
        BY <3>3, <4>1, <4>2, <4>4 DEF Opens
    <3> QED
      BY <3>2, <3>3
  <2>5. ASSUME NEW v \in Pending', v.origin = l
        PROVE  v.item[l] # t.item[l] \/ v.item[l] = next[l]
    <3>1. CASE v \in Waiting
      BY <2>1, <2>5, <3>1 DEF Goes, Advances, ItemOver
    <3>2. CASE v \in Elements(More)
      BY <2>2, <2>3, <2>4, <3>2, ItemOfIs
    <3>3. v \in Waiting \/ v \in Elements(More)
      BY <1>2, <1>4, <2>5 DEF Waiting, Others, Pending
    <3> QED
      BY <3>1, <3>2, <3>3
  <2>6. NextItem(t, u)
    BY <1>9, <2>2, <2>3, <2>4, <2>5 DEF NextItem
  <2> QED
    BY <2>6
<1> QED
  BY <1>4, <1>5, <1>6, <1>7, <1>8, <1>9 DEF Pending

\* Any other result is such a step.
LEMMA ResultMoves ==
  ASSUME Structured(Inside), TInv, ShapeOK, StartsOK, IndexOK, LoopsOK, ReceiveResult
  PROVE  Moves(Received.task, ReceivedOutput)
<1> DEFINE t == Received.task
           n == Received.task.node
           l == Received.task.origin
<1>1. /\ Receiving /\ ~Halting(Received) /\ Take(Received) /\ broken' = broken
      /\ done' = done \union (IF EmptyLoop THEN {n} ELSE {}) \union (IF Ends THEN {l} ELSE {})
  BY ResultStep
<1>2. /\ t \in Task /\ n \in Nodes /\ l \in Nodes \union {NULL} /\ t \in Pending /\ t \notin Elements(queue)
      /\ n \notin seeds /\ ReceivedOutput \in Output
      /\ (l = NULL => runs[n] = <<>> /\ Quiet(n)) /\ (l # NULL => l \in Starters /\ n \notin LoopNodes)
  BY <1>1, ReceivedShape
<1>3. Notes(t, ReceivedOutput) /\ seeds' = seeds /\ running' = running \ {t}
  BY <1>1, TakeNotes
<1>4. Counts(t)
  <2> SUFFICES ASSUME NEW s \in Nodes
               PROVE  \/ next'[s] = next[s]
                      \/ s = n /\ l = NULL /\ s \in Starters
                      \/ s = l /\ next[s] # NULL /\ next'[s] = next[s] + 1
    BY DEF Counts
  <2>1. CASE n \in LoopNodes
    BY <2>1, ResultNext, StructuredTypes
  <2>2. CASE Goes
    BY <2>2, ResultNext
  <2>3. CASE n \notin LoopNodes /\ ~Goes
    BY <2>3, ResultNext
  <2> QED
    BY <2>1, <2>2, <2>3
<1>5. EmptyLoop => n \in LoopNodes /\ l = NULL /\ n \in Starters
  BY <1>1, ReceivedShape, StructuredTypes DEF EmptyLoop
<1>6. Ends => l # NULL /\ l \in Starters
  BY <1>2 DEF Ends, Advances, ItemOver
<1>7. ASSUME EmptyLoop, NEW u \in Pending' PROVE u.origin # n
  <2>1. n # NULL /\ Quiet(n)
    BY <1>2, <1>5, <1>7, NullIs
  <2>2. Follow = <<>>
    BY <1>7 DEF EmptyLoop
  <2>3. More = <<>>
    <3>1. ~Advances
      BY <1>5, <1>7, ResultNext
    <3> QED
      BY <3>1 DEF More, Ends, Goes
  <2>4. u \in Pending \/ u \in Elements(Skipped)
    <3>1. Elements(queue') = Elements(queue) \union Elements(Follow) \union Elements(Skipped) \union Elements(More)
      BY ResultQueue
    <3> QED
      BY <1>3, <1>7, <2>2, <2>3, <3>1, EmptyIs DEF Pending
  <2>5. CASE u \in Pending
    BY <2>1, <2>5 DEF Quiet
  <2>6. CASE u \in Elements(Skipped)
    BY <1>1, <2>1, <2>6, SkippedHas, AfterTaskIs
  <2> QED
    BY <2>4, <2>5, <2>6
<1>8. ASSUME Ends, NEW u \in Pending' PROVE u.origin # l
  <2>1. u \in Waiting \/ u \in Elements(More)
    <3>1. Elements(queue') = Elements(queue) \union Elements(Follow) \union Elements(Skipped) \union Elements(More)
      BY ResultQueue
    <3> QED
      BY <1>2, <1>3, <1>8, <3>1 DEF Waiting, Others, Pending
  <2>2. CASE u \in Waiting
    BY <1>8, <2>2 DEF Ends, LoopOver
  <2>3. CASE u \in Elements(More)
    <3>1. ~Goes
      BY <1>8 DEF Ends, Goes
    <3>2. \E e \in Elements(Edges) : u = AfterTask(l, e.to)
      BY <1>1, <2>3, <3>1, MoreHas
    <3> QED
      BY <1>6, <1>8, <3>2, AfterTaskIs
  <2> QED
    BY <2>1, <2>2, <2>3
<1>9. Closes(t)
  <2>1. \A s \in done' : s \notin done => (EmptyLoop /\ s = n) \/ (Ends /\ s = l)
    BY <1>1
  <2>2. done \subseteq done' /\ broken \subseteq broken' /\ \A s \in broken' : s \in broken
    BY <1>1
  <2> QED
    BY <1>5, <1>6, <1>7, <1>8, <2>1, <2>2 DEF Closes
<1>10. \A u \in Pending' : u \in Pending \ {t} \/ Succ(t, u) \/ First(t, u) \/ After(u) \/ NextItem(t, u)
  BY ResultNew
<1> QED
  BY <1>2, <1>3, <1>4, <1>9, <1>10 DEF Moves

(* Steps that record and queue nothing. *)
Idles == Pending' \subseteq Pending /\ UNCHANGED <<runs, next, done, broken, seeds>>

\* Such steps begin nothing.
LEMMA IdleQuiet == ASSUME Idles, NEW n PROVE (Quiet(n) => Quiet(n)') /\ (Begun(n)' => Begun(n))
<1>1. /\ \A t \in Pending' : t \in Pending
      /\ runs' = runs /\ next' = next /\ done' = done
  BY DEF Idles
<1>2. Quiet(n) => Quiet(n)'
  BY <1>1 DEF Quiet
<1> QED
  BY <1>1, <1>2 DEF Begun

\* They keep StartsOK,
LEMMA IdleStartsOK == ASSUME StartsOK, Idles PROVE StartsOK'
<1>1. /\ \A t \in Pending' : t \in Pending
      /\ runs' = runs /\ done' = done /\ seeds' = seeds
  BY DEF Idles
<1>2. \A n : (Quiet(n) => Quiet(n)') /\ (Begun(n)' => Begun(n))
  BY IdleQuiet
<1>3. ASSUME NEW t \in Pending', t.origin = NULL, t.node \notin seeds PROVE runs[t.node] = <<>> /\ Quiet(t.node)'
  BY <1>1, <1>2, <1>3 DEF StartsOK
<1>4. ASSUME NEW n \in Nodes, Inside[n] = NULL, n \notin seeds, Begun(n)', NEW e \in Elements(Edges), e.to = n
      PROVE  IF e.when = "after" THEN e.from \in done ELSE runs[e.from] # <<>>
  BY <1>2, <1>4 DEF StartsOK
<1> QED
  BY <1>1, <1>3, <1>4 DEF StartsOK

\* LoopsOK,
LEMMA IdleLoopsOK == ASSUME LoopsOK, Idles PROVE LoopsOK'
<1>1. /\ \A t \in Pending' : t \in Pending
      /\ broken' = broken /\ done' = done
  BY DEF Idles
<1>2. AfterLoopWaits' /\ BreakEndsLoop'
  BY <1>1 DEF LoopsOK, AfterLoopWaits, BreakEndsLoop
<1>3. ASSUME NEW l \in Nodes PROVE IsFiniteSet(Items(l)') /\ Cardinality(Items(l)') <= Width[l]
  <2>1. IsFiniteSet(Items(l)) /\ Cardinality(Items(l)) <= Width[l] /\ Width[l] \in Nat
    BY GraphAssumption DEF LoopsOK
  <2>2. Items(l)' \subseteq Items(l)
    BY <1>1 DEF Items
  <2>3. IsFiniteSet(Items(l)') /\ Cardinality(Items(l)') <= Cardinality(Items(l))
    BY <2>1, <2>2, FS_Subset
  <2> QED
    BY <2>1, <2>3, FS_CardinalityType
<1> QED
  BY <1>2, <1>3 DEF LoopsOK

\* IndexOK,
LEMMA IdleIndexOK == ASSUME IndexOK, Idles PROVE IndexOK'
<1>1. /\ \A t \in Pending' : t \in Pending
      /\ runs' = runs /\ next' = next
  BY DEF Idles
<1> QED
  BY <1>1 DEF IndexOK

\* and OnceOK.
LEMMA IdleOnceOK == ASSUME OnceOK, Idles PROVE OnceOK'
<1>1. /\ \A t \in Pending' : t \in Pending
      /\ runs' = runs
  BY DEF Idles
<1>2. \A p, x : HasRun(p, x)' <=> HasRun(p, x)
  BY <1>1 DEF HasRun
<1>3. \A p, x : Rests(p, x)' <=> Rests(p, x)
  BY <1>1, <1>2 DEF Rests
<1>4. \A t \in Pending' : t.origin # NULL => Rests(t.node, t.item)'
  BY <1>1, <1>3 DEF OnceOK
<1>5. \A n \in Nodes : Home(n) # NULL => \A o \in Elements(runs'[n]) : Rests(n, o.item)'
  BY <1>1, <1>3 DEF OnceOK
<1>6. \A t \in Pending' : t.origin # NULL /\ Finite(t.origin) => ~HasRun(t.node, t.item)'
  BY <1>1, <1>2 DEF OnceOK
<1> QED
  BY <1>1, <1>4, <1>5, <1>6 DEF OnceOK

(* A new execution. *)
\* All it queues are nodes that start, and of loops nothing was kept.
Restarts ==
  /\ running' = {} /\ next' = [n \in Nodes |-> NULL] /\ done' = {} /\ broken' = {}
  /\ \A u \in Elements(queue') :
       \E n \in Nodes : /\ n \notin seeds' /\ u = RootTask(n) /\ Inside[n] = NULL
                        /\ \A e \in Elements(Edges) : e.to = n => e.when # "after" /\ runs'[e.from] # <<>>
  /\ \A n \in Nodes : (n \notin seeds' => runs'[n] = <<>>) /\ (Home(n) # NULL => n \notin seeds')
                      /\ Len(runs'[n]) <= 1

\* What is queued at a restart is outside of loops.
LEMMA RestartPending ==
  ASSUME Restarts, NEW u \in Pending'
  PROVE  /\ u.origin = NULL /\ u.after = NULL /\ u.item = NoItem /\ u.node \in Nodes
         /\ u.node \notin seeds' /\ u = RootTask(u.node) /\ Inside[u.node] = NULL
         /\ \A e \in Elements(Edges) : e.to = u.node => e.when # "after" /\ runs'[e.from] # <<>>
<1>1. PICK n \in Nodes : /\ n \notin seeds' /\ u = RootTask(n) /\ Inside[n] = NULL
                         /\ \A e \in Elements(Edges) : e.to = n => e.when # "after" /\ runs'[e.from] # <<>>
  BY DEF Restarts, Pending
<1> QED
  BY <1>1, RootTaskIs

\* No loop has begun.
LEMMA RestartQuiet == ASSUME Restarts, NEW n \in Nodes PROVE Quiet(n)'
<1>1. next'[n] = NULL /\ n \notin done'
  BY DEF Restarts
<1>2. \A u \in Pending' : u.origin # n
  BY RestartPending, NullIs
<1>3. \A m \in Nodes : Home(m) = n => runs'[m] = <<>>
  BY NullIs DEF Restarts
<1> QED
  BY <1>1, <1>2, <1>3 DEF Quiet

\* A restart establishes the parts of the invariant.
LEMMA RestartInv ==
  ASSUME Structured(Inside), TInv', Restarts
  PROVE  StartsOK' /\ LoopsOK' /\ IndexOK' /\ OnceOK' /\ \A u \in Pending' : TaskOK(u)
<1>1. StartsOK'
  <2>1. ASSUME NEW u \in Pending', u.origin = NULL, u.node \notin seeds' PROVE runs'[u.node] = <<>> /\ Quiet(u.node)'
    BY <2>1, RestartPending, RestartQuiet DEF Restarts
  <2>2. ASSUME NEW n \in Nodes, Inside[n] = NULL, n \notin seeds', Begun(n)', NEW e \in Elements(Edges), e.to = n
        PROVE  IF e.when = "after" THEN e.from \in done' ELSE runs'[e.from] # <<>>
    <3>1. runs'[n] = <<>> /\ Quiet(n)'
      BY <2>2, RestartQuiet DEF Restarts
    <3>2. PICK u \in Pending' : u.node = n
      BY <2>2, <3>1 DEF Begun
    <3> QED
      BY <2>2, <3>2, RestartPending
  <2> QED
    BY <2>1, <2>2 DEF StartsOK
<1>2. LoopsOK'
  <2>1. done' = {} /\ broken' = {}
    BY DEF Restarts
  <2>2. ASSUME NEW l \in Nodes PROVE IsFiniteSet(Items(l)') /\ Cardinality(Items(l)') <= Width[l]
    <3>1. Items(l)' = {}
      BY RestartPending, NullIs DEF Items
    <3>2. Width[l] \in Nat
      BY GraphAssumption
    <3>3. IsFiniteSet({}) /\ Cardinality({}) = 0
      BY FS_EmptySet
    <3> QED
      BY <3>1, <3>2, <3>3
  <2> QED
    BY <2>1, <2>2 DEF LoopsOK, AfterLoopWaits, BreakEndsLoop
<1>3. \A u \in Pending' : u.origin = NULL
  BY RestartPending
<1>4. ASSUME NEW n \in Nodes, Home(n) # NULL PROVE runs'[n] = <<>> /\ Elements(runs'[n]) = {}
  BY <1>4, EmptyIs DEF Restarts
<1>5. IndexOK'
  BY <1>3, <1>4 DEF IndexOK
<1>6. OnceOK'
  <2>1. ASSUME NEW n \in Nodes, NEW i \in 1 .. Len(runs'[n]), NEW j \in 1 .. Len(runs'[n]) PROVE i = j
    <3>1. Len(runs'[n]) <= 1
      BY DEF Restarts
    <3>2. Len(runs'[n]) \in Nat
      BY DEF TInv, RecordOK
    <3> QED
      BY <3>1, <3>2
  <2> QED
    BY <1>3, <1>4, <2>1 DEF OnceOK
<1>7. ASSUME NEW u \in Pending' PROVE TaskOK(u)
  BY RestartPending DEF TaskOK
<1> QED
  BY <1>1, <1>2, <1>5, <1>6, <1>7

\* What a resume keeps.
LEMMA KeptIs ==
  ASSUME Structured(Inside), MaxResumes > 0, NEW ch, NEW n \in Kept(ch)
  PROVE  /\ n \in Nodes /\ n \notin RunAgain /\ n \notin Starters /\ Inside[n] = NULL /\ Home(n) = NULL
         /\ saved.out[n] # NULL /\ saved.out[n].out.ok
         /\ \A e \in saved.entries : e.key[1] = n => e.out.ok
<1>1. n \in Nodes /\ n \notin RunAgain /\ saved.out[n] # NULL /\ saved.out[n].out.ok
      /\ \A e \in saved.entries : e.key[1] = n => e.out.ok
  BY DEF Kept
<1>2. \A m \in Nodes : m \in ForEach \/ Inside[m] # NULL => m \in RunAgain
  BY DEF Structured
<1>3. n \notin Starters /\ Inside[n] = NULL
  BY <1>1, <1>2, RunAgainIs, StructuredTypes
<1> QED
  BY <1>1, <1>3, HomeIs, StructuredTypes

\* What a resume reads.
LEMMA RereadIs ==
  ASSUME Structured(Inside), MaxResumes > 0, TInv, ShapeOK, NEW ch, NEW n \in Nodes
  PROVE  /\ n \notin Kept(ch) => Reread(Kept(ch))[n] = <<>>
         /\ n \in Kept(ch) => Reread(Kept(ch))[n] # <<>> /\ Latest(Reread(Kept(ch)), n).out.ok
         /\ Len(Reread(Kept(ch))[n]) <= 1
         /\ \A v \in Elements(Reread(Kept(ch))[n]) : OutputOK(n, v)
<1>1. CASE n \notin Kept(ch)
  <2>1. Reread(Kept(ch))[n] = <<>>
    BY <1>1 DEF Reread
  <2> QED
    BY <1>1, <2>1, EmptyIs
<1>2. CASE n \in Kept(ch)
  <2> DEFINE s == saved.out[n]
             v == [s EXCEPT !.item = Snapshot(n, @)]
  <2>1. s \in Output /\ OutputOK(n, s) /\ Home(n) = NULL /\ s.out.ok
    BY <1>2, KeptIs DEF TInv, RecordOK, ShapeOK
  <2>2. s.item = NoItem
    BY <2>1 DEF OutputOK
  <2>3. Reread(Kept(ch))[n] = <<v>>
    BY <1>2 DEF Reread
  <2>4. v.item = Snapshot(n, s.item) /\ v.out = s.out
    BY <2>1 DEF Output
  <2>5. v.item = NoItem
    BY <2>2, <2>4 DEF Snapshot
  <2> HIDE DEF v
  <2>6. OutputOK(n, v)
    BY <2>1, <2>5 DEF OutputOK
  <2>7. Len(Reread(Kept(ch))[n]) = 1 /\ Reread(Kept(ch))[n][1] = v /\ Reread(Kept(ch))[n] # <<>> /\ Elements(Reread(Kept(ch))[n]) = {v}
    BY <2>3, SingleIs
  <2>8. Latest(Reread(Kept(ch)), n) = v
    BY <2>7 DEF Latest
  <2> QED
    BY <1>2, <2>1, <2>4, <2>6, <2>7, <2>8
<1> QED
  BY <1>1, <1>2

\* What a resumed run begins with.
LEMMA ResumedIs ==
  ASSUME Structured(Inside), MaxResumes > 0, TInv, ShapeOK, Resume, NEW n \in Nodes
  PROVE  /\ n \notin seeds' => runs'[n] = <<>>
         /\ n \in seeds' => /\ n \notin RunAgain /\ n \notin Starters /\ Inside[n] = NULL /\ Home(n) = NULL
                            /\ runs'[n] # <<>> /\ Latest(runs', n).out.ok
         /\ Len(runs'[n]) <= 1
         /\ \A v \in Elements(runs'[n]) : OutputOK(n, v)
<1> DEFINE ch == stale'
           os == Reread(Kept(ch))
<1>1. seeds' = Kept(ch) /\ runs' = os
  BY ResumeIs
<1>2. n \in Kept(ch) => n \notin RunAgain /\ n \notin Starters /\ Inside[n] = NULL /\ Home(n) = NULL
  BY KeptIs
<1>3. /\ n \notin Kept(ch) => os[n] = <<>>
      /\ n \in Kept(ch) => os[n] # <<>> /\ Latest(os, n).out.ok
      /\ Len(os[n]) <= 1
      /\ \A v \in Elements(os[n]) : OutputOK(n, v)
  BY RereadIs
<1> HIDE DEF ch, os
<1> QED
  BY <1>1, <1>2, <1>3

\* A resume is such a restart.
LEMMA ResumeRestarts ==
  ASSUME Structured(Inside), TInv, TInv', ShapeOK, Resume
  PROVE  Restarts /\ MaxResumes > 0
<1>1. MaxResumes > 0
  BY BoundAssumption DEF Resume, TInv, RestOK
<1>2. /\ queue' = Frontier(runs', seeds')
      /\ running' = {} /\ next' = [n \in Nodes |-> NULL] /\ done' = {} /\ broken' = {}
  BY DEF Resume
<1>3. runs' \in [Nodes -> Seq(Output)] /\ seeds' \in SUBSET Nodes
  BY ResumeIs DEF TInv, RecordOK
<1>4. ASSUME NEW u \in Elements(queue')
      PROVE  \E n \in Nodes : /\ n \notin seeds' /\ u = RootTask(n) /\ Inside[n] = NULL
                              /\ \A e \in Elements(Edges) : e.to = n => e.when # "after" /\ runs'[e.from] # <<>>
  <2>1. /\ u.node \notin seeds'
        /\ \/ \E n \in Elements(Roots) : u = RootTask(n)
           \/ \E n \in seeds' : u \in Elements(Successors(runs', RootTask(n), Latest(runs', n).out))
    BY <1>2, <1>3, <1>4, FrontierIs
  <2>2. CASE \E n \in Elements(Roots) : u = RootTask(n)
    BY <2>1, <2>2, RootIs, RootTaskIs
  <2>3. ASSUME NEW n \in seeds', u \in Elements(Successors(runs', RootTask(n), Latest(runs', n).out))
        PROVE  \E m \in Nodes : /\ m \notin seeds' /\ u = RootTask(m) /\ Inside[m] = NULL
                                /\ \A e \in Elements(Edges) : e.to = m => e.when # "after" /\ runs'[e.from] # <<>>
    <3> DEFINE t == RootTask(n)
               out == Latest(runs', n).out
    <3>1. /\ n \in Nodes /\ n \notin Starters /\ Inside[n] = NULL /\ runs'[n] # <<>>
      BY <1>1, <1>3, <2>3, ResumedIs
    <3>2. t \in Task /\ t.node = n /\ t.origin = NULL /\ t.item = NoItem /\ t.after = NULL
      BY <3>1, RootTaskTyped, RootTaskIs
    <3>3. ~StartsLoop(n, out)
      BY <3>1, StructuredTypes DEF StartsLoop, LoopNodes, Starters
    <3> HIDE DEF t, out
    <3>4. PICK e \in Elements(Edges) : e.from = n /\ Taken(runs', e, t, out) /\ u = NextTask(e.to, t)
      <4>1. u \in Elements(Successors(runs', t, out))
        BY <2>3 DEF t, out
      <4>2. t \in Task
        BY <3>2
      <4>3. \E e \in Elements(Edges) :
              /\ e.from = t.node /\ Taken(runs', e, t, out)
              /\ IF StartsLoop(t.node, out)
                 THEN \E i \in 1 .. Each(t.node) : u = ItemTask(e.to, t, i)
                 ELSE u = NextTask(e.to, t)
        BY ONLY <4>1, <4>2, SuccessorsAre
      <4> QED
        BY <3>2, <3>3, <4>3
    <3>5. e.when # "after" /\ (e.to \in AwaitAll => AllInputsReady(runs', e.to, NoItem))
      BY <3>2, <3>3, <3>4, AfterNeverMatches DEF Taken
    <3>6. e.to \in Nodes /\ Inside[e.to] = NULL
      BY <3>1, <3>4, <3>5, EdgeIs
    <3>7. u = RootTask(e.to) /\ u.node = e.to
      BY <3>2, <3>4, NextTaskIs DEF NextTask, RootTask
    <3>8. ASSUME NEW g \in Elements(Edges), g.to = e.to PROVE g.when # "after" /\ runs'[g.from] # <<>>
      <4>1. CASE g = e
        BY <3>1, <3>4, <3>5, <4>1
      <4>2. CASE g # e
        <5>1. g.when # "after" /\ e.to \in AwaitAll
          BY <3>8, <4>2, SeveralInputs
        <5>2. runs'[g.from] # <<>>
          BY <1>3, <3>5, <3>6, <3>8, <5>1, ReadyInputs
        <5> QED
          BY <5>1, <5>2
      <4> QED
        BY <4>1, <4>2
    <3> QED
      BY <2>1, <3>6, <3>7, <3>8
  <2> QED
    BY <2>1, <2>2, <2>3
<1>5. ASSUME NEW n \in Nodes
      PROVE  (n \notin seeds' => runs'[n] = <<>>) /\ (Home(n) # NULL => n \notin seeds') /\ Len(runs'[n]) <= 1
  BY <1>1, ResumedIs
<1> QED
  BY <1>1, <1>2, <1>4, <1>5 DEF Restarts

-----------------------------------------------------------------------------
(* Shape: what changes besides the queue. *)

\* The last output of a node is of its loop.
LEMMA LatestShape ==
  ASSUME NEW os \in [Nodes -> Seq(Output)], NEW n \in Nodes, \A v \in Elements(os[n]) : OutputOK(n, v), Latest(os, n) # NULL
  PROVE  OutputOK(n, Latest(os, n)) /\ os[n] # <<>>
<1>1. os[n] # <<>>
  BY DEF Latest
<1> QED
  BY <1>1, LatestTyped

\* Of the results in the channel.
Sent(r) ==
  /\ r.item = r.task.item
  /\ r.task.node \in LoopNodes => r.out.ok \/ r.halt

\* A result sent again is well formed.
LEMMA ReuseShape ==
  ASSUME Structured(Inside), TInv, ShapeOK, NEW w \in working, Reuse(w)
  PROVE  \E item, out, halt : Send(w, item, out, halt) /\ item = w.task.item /\ w.task.node \notin LoopNodes
<1>1. w.task \in Task /\ w.task \in running /\ w.task.node \in Nodes
  BY WorksIs
<1>2. MaxResumes > 0
  BY BoundAssumption DEF Reuse, TInv, RestOK
<1>3. TaskOK(w.task) /\ w.task.origin = Home(w.task.node)
  BY <1>1 DEF ShapeOK, Pending
<1>4. Snapshot(w.task.node, w.task.item) = w.task.item
  <2>1. CASE w.task.node \in Agents
    <3>1. w.task.node \notin ForEach /\ Inside[w.task.node] = NULL
      BY <1>1, <1>2, <2>1 DEF Structured
    <3>2. w.task.origin = NULL
      BY <1>1, <1>3, <3>1, HomeIs
    <3>3. w.task.item = NoItem
      BY <1>3, <3>2 DEF TaskOK
    <3> QED
      BY <3>3 DEF Snapshot
  <2>2. CASE w.task.node \notin Agents
    BY <2>2 DEF Snapshot
  <2> QED
    BY <2>1, <2>2
<1>5. w.task.node \notin LoopNodes
  BY DEF Reuse, LoopNodes
<1>6. PICK e : Send(w, Snapshot(w.task.node, w.task.item), e.out, FALSE)
  BY DEF Reuse
<1> QED
  BY <1>4, <1>5, <1>6

\* So is a new one.
LEMMA FinishShape ==
  ASSUME Structured(Inside), TInv, ShapeOK, NEW w \in working, Finish(w)
  PROVE  \E item, out, halt : /\ Send(w, item, out, halt) /\ item = w.task.item
                              /\ w.task.node \in LoopNodes => out.ok \/ halt
<1>1. PICK out \in Outcomes[w.task.node] :
        Send(w, w.task.item, out, HaltsRun(w.task.node, out) \/ stop)
  BY DEF Finish
<1>2. w.task.node \in LoopNodes => out.ok \/ HaltsRun(w.task.node, out)
  BY <1>1 DEF Structured
<1> DEFINE halt == HaltsRun(w.task.node, out) \/ stop
<1>3. w.task.node \in LoopNodes => out.ok \/ halt
  BY <1>2
<1>4. Send(w, w.task.item, out, halt)
  BY <1>1
<1> HIDE DEF halt
<1> QED
  BY <1>3, <1>4

-----------------------------------------------------------------------------
(* The invariant of structured workflows.                                  *)

\* The inductive invariant of structured workflows.
SInv == ShapeOK /\ StartsOK /\ LoopsOK /\ IndexOK /\ OnceOK /\ SavedOK

\* The kinds of steps.
Waits ==
  /\ Idles /\ saved' = saved /\ stale' = stale /\ (pc = "crashed" <=> pc' = "crashed")
  /\ (running' \subseteq running \/ DispatchStart)
Receives == Receiving /\ Take(Received) /\ Moves(Received.task, ReceivedOutput) /\ pc' # "crashed"
Spreads == DispatchForEach /\ \E o : Moves(Head(queue), o)

\* Nothing changes that matters.
LEMMA SameWaits ==
  ASSUME queue' = queue, running' = running, UNCHANGED <<runs, next, done, broken, seeds, stale, saved>>,
         pc = "crashed" <=> pc' = "crashed"
  PROVE  Waits
BY DEF Waits, Idles, Pending

\* A task is dispatched, or put back.
LEMMA DispatchWaits ==
  ASSUME TInv, DispatchStopped \/ DispatchSeeded \/ DispatchBlocked \/ DispatchLimit \/ DispatchStart \/ DispatchDone
  PROVE  Waits
<1>1. CASE DispatchStopped \/ DispatchDone
  BY <1>1, SameWaits DEF DispatchStopped, DispatchDone, Dispatching, loops, resume, Halt
<1>2. CASE DispatchBlocked
  <2>1. /\ queue' = Append(Tail(queue), Head(queue)) /\ running' = running
        /\ UNCHANGED <<runs, next, done, broken, seeds, stale, saved>> /\ pc = "dispatch" /\ pc' # "crashed" /\ queue # <<>>
    BY <1>2 DEF DispatchBlocked, Dispatching, loops, resume
  <2>2. Elements(queue') = Elements(queue)
    BY <2>1, ToBack DEF TInv, QueueOK
  <2>3. Pending' = Pending
    BY <2>1, <2>2 DEF Pending
  <2> QED
    BY <2>1, <2>3 DEF Waits, Idles
<1>3. CASE DispatchSeeded \/ DispatchLimit
  <2>1. /\ queue' = Tail(queue) /\ running' = running /\ Dispatching
        /\ UNCHANGED <<runs, next, done, broken, seeds, stale, saved>> /\ pc = "dispatch" /\ pc' # "crashed"
    BY <1>3 DEF DispatchSeeded, DispatchLimit, Startable, loops, Dispatching, resume, Halt
  <2>2. Elements(queue') \subseteq Elements(queue)
    BY <2>1, DispatchedIs
  <2>3. Pending' \subseteq Pending
    BY <2>1, <2>2 DEF Pending
  <2> QED
    BY <2>1, <2>3 DEF Waits, Idles
<1>4. CASE DispatchStart
  <2>1. /\ queue' = Tail(queue) /\ running' = running \union {Head(queue)} /\ Dispatching
        /\ UNCHANGED <<runs, next, done, broken, seeds, stale, saved>> /\ pc = "dispatch" /\ pc' # "crashed"
    BY <1>4 DEF DispatchStart, Startable, Dispatching, loops, resume
  <2>2. Elements(queue') \subseteq Elements(queue) /\ Head(queue) \in Elements(queue)
    BY <2>1, DispatchedIs
  <2>3. Pending' \subseteq Pending
    BY <2>1, <2>2 DEF Pending
  <2> QED
    BY <1>4, <2>1, <2>3 DEF Waits, Idles
<1> QED
  BY <1>1, <1>2, <1>3, <1>4

\* Every step is of one of these kinds.
LEMMA StepKinds ==
  ASSUME Structured(Inside), TInv, IInv, SInv, [Next]_vars
  PROVE  Waits \/ Crash \/ Resume \/ Receives \/ Spreads
<1> USE DEF SInv
<1>1. CASE DispatchStopped \/ DispatchSeeded \/ DispatchBlocked \/ DispatchLimit \/ DispatchStart \/ DispatchDone
  BY <1>1, DispatchWaits
<1>2. CASE RequestStop \/ UNCHANGED vars
  BY <1>2, SameWaits DEF RequestStop, vars, loops, resume
<1>3. CASE NodeSteps
  <2>1. PICK w \in working : Reuse(w) \/ Finish(w) \/ Retry(w)
    BY <1>3 DEF NodeSteps
  <2>2. CASE Reuse(w) \/ Finish(w)
    <3>1. PICK item, out, halt : Send(w, item, out, halt)
      BY <2>2 DEF Reuse, Finish
    <3> QED
      BY <3>1, SameWaits DEF Send, loops, resume
  <2>3. CASE Retry(w)
    BY <2>3, SameWaits DEF Retry, loops, resume
  <2> QED
    BY <2>1, <2>2, <2>3
<1>4. CASE DispatchForEach
  BY <1>4, ForEachMoves DEF Spreads
<1>5. CASE ReceiveBreak
  BY <1>5, BreakMoves DEF ReceiveBreak, Receives
<1>6. CASE ReceiveTerminal \/ ReceiveHalt
  BY <1>6, OnlyTakes DEF ReceiveTerminal, ReceiveHalt, Halt, Receives, loops
<1>7. CASE ReceiveResult
  BY <1>7, ResultMoves DEF ReceiveResult, Receives
<1> QED
  BY <1>1, <1>2, <1>3, <1>4, <1>5, <1>6, <1>7 DEF Next, Scheduler, Over

-----------------------------------------------------------------------------
\* What is queued and counted, after any step.
LEMMA StepQueueInv ==
  ASSUME Structured(Inside), TInv, TInv', IInv, SInv, [Next]_vars
  PROVE  StartsOK' /\ LoopsOK' /\ IndexOK' /\ OnceOK' /\ \A u \in Pending' : TaskOK(u)
<1> USE DEF SInv
<1>1. ASSUME Idles PROVE StartsOK' /\ LoopsOK' /\ IndexOK' /\ OnceOK' /\ \A u \in Pending' : TaskOK(u)
  <2>1. \A u \in Pending' : TaskOK(u)
    BY <1>1 DEF Idles, ShapeOK
  <2> QED
    BY <1>1, <2>1, IdleStartsOK, IdleLoopsOK, IdleIndexOK, IdleOnceOK
<1>2. ASSUME NEW t, NEW o, Moves(t, o) PROVE StartsOK' /\ LoopsOK' /\ IndexOK' /\ OnceOK' /\ \A u \in Pending' : TaskOK(u)
  <2>1. \A u \in Pending' : TaskOK(u)
    BY <1>2, MoveTaskOK
  <2> QED
    BY <1>2, <2>1, MoveStartsOK, MoveLoopsOK, MoveIndexOK, MoveOnceOK
<1>3. Crash => Idles
  BY EmptyIs DEF Crash, Idles, Pending, loops, resume
<1>4. Resume => StartsOK' /\ LoopsOK' /\ IndexOK' /\ OnceOK' /\ \A u \in Pending' : TaskOK(u)
  BY ResumeRestarts, RestartInv
<1> QED
  BY <1>1, <1>2, <1>3, <1>4, StepKinds DEF Waits, Receives, Spreads

\* What runs.
LEMMA StepRunning ==
  ASSUME Structured(Inside), TInv, TInv', IInv, SInv, [Next]_vars
  PROVE  \A t \in running' : t.origin = Home(t.node) /\ t.node \notin seeds'
<1> USE DEF SInv
<1>1. ASSUME running' \subseteq running, seeds' = seeds PROVE \A t \in running' : t.origin = Home(t.node) /\ t.node \notin seeds'
  BY <1>1 DEF ShapeOK
<1>2. CASE Waits /\ ~DispatchStart
  BY <1>1, <1>2 DEF Waits, Idles
<1>3. CASE DispatchStart
  <2> DEFINE t == Head(queue)
  <2>1. Dispatching /\ ~Seeded(t) /\ ~Expands(t) /\ running' = running \union {t} /\ seeds' = seeds
    BY <1>3 DEF DispatchStart, Startable, resume
  <2>2. t \in Task /\ t \in Pending /\ t.node \in Nodes
    BY <2>1, DispatchedIs DEF Pending, Task
  <2>3. TaskOK(t)
    BY <2>2 DEF ShapeOK
  <2> HIDE DEF t
  <2>4. t.origin = Home(t.node)
    <3>1. CASE t.origin # NULL
      BY <2>3, <3>1 DEF TaskOK
    <3>2. CASE t.origin = NULL
      <4>1. t.node \notin ForEach /\ Inside[t.node] = NULL
        BY <2>1, <2>2, <2>3, <3>2, NullIs DEF TaskOK, Expands
      <4> QED
        BY <2>2, <3>2, <4>1, HomeIs
    <3> QED
      BY <3>1, <3>2
  <2>5. ASSUME t.node \in seeds PROVE FALSE
    <3>1. Home(t.node) = NULL /\ \A e \in Elements(Edges) : e.to = t.node => e.when # "after"
      BY <2>5, SeedIs
    <3>2. t.origin = NULL
      BY <2>4, <3>1
    <3>3. t.after = NULL
      BY <2>3, <3>1, <3>2 DEF TaskOK
    <3> QED
      BY <2>1, <2>5, <3>2, <3>3 DEF Seeded
  <2> QED
    BY <2>1, <2>4, <2>5 DEF ShapeOK
<1>4. CASE Crash \/ Resume
  BY <1>4 DEF Crash, Resume
<1>5. CASE Receives
  BY <1>1, <1>5 DEF Receives, Take, resume
<1>6. CASE Spreads
  BY <1>1, <1>6 DEF Spreads, DispatchForEach, resume
<1> QED
  BY <1>2, <1>3, <1>4, <1>5, <1>6, StepKinds

\* What is in the channel.
LEMMA StepSent ==
  ASSUME Structured(Inside), TInv, TInv', IInv, SInv, [Next]_vars
  PROVE  \A i \in 1 .. Len(results') : Sent(results'[i])
<1> USE DEF SInv
<1>0. results \in Seq(Result) /\ \A i \in 1 .. Len(results) : Sent(results[i])
  BY DEF ShapeOK, TInv, WorkOK, Sent
<1>1. ASSUME results' = results \/ results' = <<>> PROVE \A i \in 1 .. Len(results') : Sent(results'[i])
  BY <1>0, <1>1, EmptyIs
<1>2. ASSUME results # <<>>, results' = Tail(results) PROVE \A i \in 1 .. Len(results') : Sent(results'[i])
  BY <1>0, <1>2
<1>3. ASSUME NEW w \in working, NEW item, NEW out, NEW halt, Send(w, item, out, halt), item = w.task.item,
             w.task.node \in LoopNodes => out.ok \/ halt
      PROVE  \A i \in 1 .. Len(results') : Sent(results'[i])
  <2> DEFINE r == [task |-> w.task, item |-> item, out |-> out, halt |-> halt]
  <2>1. results' = Append(results, r)
    BY <1>3 DEF Send
  <2>2. Sent(r)
    BY <1>3 DEF Sent
  <2> HIDE DEF r
  <2>3. Len(results') = Len(results) + 1 /\ Len(results) \in Nat /\ results'[Len(results) + 1] = r
        /\ \A i \in 1 .. Len(results) : results'[i] = results[i]
    BY <1>0, <2>1, Lengthened, SMTT(30)
  <2>4. \A i \in 1 .. Len(results') : i \in 1 .. Len(results) \/ i = Len(results) + 1
    BY <2>3
  <2> QED
    BY <1>0, <2>2, <2>3, <2>4
<1>4. CASE \/ DispatchStopped \/ DispatchLimit \/ DispatchSeeded \/ DispatchBlocked \/ DispatchForEach
           \/ DispatchDone \/ DispatchStart \/ RequestStop \/ UNCHANGED vars \/ Crash \/ Resume
           \/ ReceiveTerminal \/ ReceiveHalt
  BY <1>1, <1>4 DEF DispatchStopped, DispatchLimit, DispatchSeeded, DispatchBlocked, DispatchForEach, DispatchDone,
                    DispatchStart, RequestStop, vars, Crash, Resume, ReceiveTerminal, ReceiveHalt, Halt
<1>5. CASE ReceiveBreak \/ ReceiveResult
  BY <1>2, <1>5 DEF ReceiveBreak, ReceiveResult, Receiving
<1>6. CASE NodeSteps
  <2>1. PICK w \in working : Reuse(w) \/ Finish(w) \/ Retry(w)
    BY <1>6 DEF NodeSteps
  <2>2. CASE Reuse(w)
    BY <1>3, <2>2, ReuseShape
  <2>3. CASE Finish(w)
    BY <1>3, <2>3, FinishShape
  <2>4. CASE Retry(w)
    BY <1>1, <2>4 DEF Retry
  <2> QED
    BY <2>1, <2>2, <2>3, <2>4
<1> QED
  BY <1>4, <1>5, <1>6 DEF Next, Scheduler, Over

\* What was recorded, with one result more.
LEMMA RecordedShape ==
  ASSUME Structured(Inside), TInv, ShapeOK, StartsOK, Receiving, NEW n \in Nodes
  PROVE  \A v \in Elements(Recorded(Received)[n]) : OutputOK(n, v)
<1> DEFINE o == [item |-> Received.item, out |-> Received.out]
<1>1. runs[n] \in Seq(Output) /\ \A v \in Elements(runs[n]) : OutputOK(n, v)
  BY DEF TInv, RecordOK, ShapeOK
<1>2. CASE n # Received.task.node
  <2>1. Recorded(Received)[n] = runs[n]
    BY <1>2, RecordedTyped
  <2> QED
    BY <1>1, <2>1
<1>3. CASE n = Received.task.node
  <2>1. Recorded(Received)[n] = Append(runs[n], o) /\ o \in Output
    BY <1>3, RecordedTyped
  <2>2. OutputOK(n, o)
    <3> DEFINE t == Received.task
    <3>1. TaskOK(t) /\ t \in Pending /\ t.origin = Home(n) /\ o.item = t.item
      BY <1>3, ReceivedShape DEF ReceivedOutput
    <3>2. t.origin # NULL => t.item[t.origin] \in Nat
      BY <3>1, PendingTyped
    <3> HIDE DEF t, o
    <3> QED
      BY <3>1, <3>2 DEF OutputOK, TaskOK
  <2> HIDE DEF o
  <2>3. ASSUME NEW v \in Elements(Append(runs[n], o)) PROVE v \in Elements(runs[n]) \/ v = o
    <3> DEFINE r == runs[n]
    <3>1. r \in Seq(Output) /\ v \in Elements(Append(r, o))
      BY <1>1, <2>3
    <3> HIDE DEF r
    <3>2. PICK i \in 1 .. Len(Append(r, o)) : v = Append(r, o)[i]
      BY <3>1, InElements
    <3>3. (i \in 1 .. Len(r) /\ v = r[i]) \/ v = o
      BY <2>1, <3>1, <3>2
    <3> QED
      BY <3>3, InElements DEF r
  <2> QED
    BY <1>1, <2>1, <2>2, <2>3
<1> QED
  BY <1>2, <1>3

\* What is recorded and saved.
LEMMA StepOutputs ==
  ASSUME Structured(Inside), TInv, TInv', IInv, SInv, [Next]_vars
  PROVE  /\ \A n \in Nodes : \A o \in Elements(runs'[n]) : OutputOK(n, o)
         /\ \A n \in Nodes : saved'.out[n] # NULL /\ Home(n) = NULL => OutputOK(n, saved'.out[n])
<1> USE DEF SInv
<1>0. /\ \A n \in Nodes : \A o \in Elements(runs[n]) : OutputOK(n, o)
      /\ \A n \in Nodes : saved.out[n] # NULL /\ Home(n) = NULL => OutputOK(n, saved.out[n])
  BY DEF ShapeOK
<1>1. CASE Waits
  BY <1>0, <1>1 DEF Waits, Idles
<1>2. CASE Crash
  <2>1. runs' = runs
    BY <1>2 DEF Crash
  <2>2. \A n \in Nodes : NoCheckpoint.out[n] = NULL
    BY DEF NoCheckpoint
  <2>3. ASSUME Receiving, NEW blank, NEW lost, NEW now, saved' = Torn(now, blank, lost),
               now = saved \/ now = Saved(Recorded(Received), Received.task, Received.out),
               NEW n \in Nodes, saved'.out[n] # NULL, Home(n) = NULL
        PROVE  OutputOK(n, saved'.out[n])
    <3>1. saved.out[n] # NULL /\ (saved'.out[n] = BlankOutput \/ saved'.out[n] = now.out[n])
      <4>1. Torn(now, blank, lost).out[n] # NULL
        BY <2>3
      <4> QED
        BY <2>3, <4>1, TornOutput
    <3>2. OutputOK(n, BlankOutput)
      BY <2>3 DEF OutputOK, BlankOutput
    <3>3. OutputOK(n, saved.out[n])
      BY <1>0, <2>3, <3>1
    <3>4. ASSUME now = Saved(Recorded(Received), Received.task, Received.out), saved'.out[n] = now.out[n]
          PROVE  OutputOK(n, now.out[n])
      <4>1. now.out[n] = Latest(Recorded(Received), n)
        BY <2>3, <3>4, NewRecordOK
      <4>2. Recorded(Received) \in [Nodes -> Seq(Output)]
        BY <2>3, RecordedTyped
      <4>3. \A v \in Elements(Recorded(Received)[n]) : OutputOK(n, v)
        BY <1>0, <2>3, RecordedShape
      <4> DEFINE os == Recorded(Received)
      <4> HIDE DEF os
      <4>4. OutputOK(n, Latest(os, n))
        BY <2>3, <3>4, <4>1, <4>2, <4>3, LatestShape DEF os
      <4> QED
        BY <4>1, <4>4 DEF os
    <3> QED
      BY <2>3, <3>1, <3>2, <3>3, <3>4
  <2> QED
    BY <1>0, <1>2, <2>1, <2>2, <2>3, CrashLeaves
<1>3. CASE Resume
  <2>1. saved' = saved /\ MaxResumes > 0
    BY <1>3, ResumeRestarts DEF Resume
  <2> QED
    BY <1>0, <1>3, <2>1, ResumedIs
<1>4. CASE Spreads
  <2>1. runs' = runs /\ saved' = saved
    BY <1>4 DEF Spreads, DispatchForEach
  <2> QED
    BY <1>0, <2>1
<1>5. CASE Receives
  <2>1. \A n \in Nodes : \A o \in Elements(runs'[n]) : OutputOK(n, o)
    BY <1>5, MoveOutputOK DEF Receives
  <2>2. \A n \in Nodes : saved'.out[n] = Latest(runs', n)
    BY <1>5 DEF Receives, Take, Saved
  <2>3. runs' \in [Nodes -> Seq(Output)]
    BY DEF TInv, RecordOK
  <2>4. ASSUME NEW n \in Nodes, saved'.out[n] # NULL PROVE OutputOK(n, saved'.out[n])
    BY <2>1, <2>2, <2>3, <2>4, LatestShape
  <2> QED
    BY <2>1, <2>4
<1> QED
  BY <1>1, <1>2, <1>3, <1>4, <1>5, StepKinds

\* The loops and the seeds.
LEMMA StepStarters ==
  ASSUME Structured(Inside), TInv, TInv', IInv, SInv, [Next]_vars
  PROVE  /\ \A n \in Nodes \ Starters : next'[n] = NULL
         /\ done' \subseteq Starters
         /\ seeds' \intersect RunAgain = {} /\ (MaxResumes = 0 => seeds' = {})
<1> USE DEF SInv
<1>0. /\ \A n \in Nodes \ Starters : next[n] = NULL
      /\ done \subseteq Starters
      /\ seeds \intersect RunAgain = {} /\ (MaxResumes = 0 => seeds = {})
  BY DEF ShapeOK
<1>1. CASE Waits \/ Crash
  BY <1>0, <1>1 DEF Waits, Idles, Crash, loops, resume
<1>2. ASSUME NEW t, NEW o, Moves(t, o)
      PROVE  /\ \A n \in Nodes \ Starters : next'[n] = NULL
             /\ done' \subseteq Starters
             /\ seeds' \intersect RunAgain = {} /\ (MaxResumes = 0 => seeds' = {})
  <2>1. \A n \in Nodes \ Starters : next'[n] = next[n]
    <3>1. t.origin # NULL => t.origin \in Starters
      BY <1>2, MoverIs
    <3> QED
      BY <1>2, <3>1, NullIs DEF Moves, Counts
  <2>2. done' \subseteq Starters
    BY <1>0, <1>2 DEF Moves, Closes
  <2> QED
    BY <1>0, <1>2, <2>1, <2>2 DEF Moves
<1>3. CASE Resume
  <2>1. next' = [n \in Nodes |-> NULL] /\ done' = {} /\ seeds' \subseteq Nodes /\ MaxResumes > 0
    BY <1>3, ResumeRestarts, ResumeIs DEF Resume
  <2>2. \A n \in seeds' : n \notin RunAgain
    BY <1>3, <2>1, ResumedIs
  <2> QED
    BY <2>1, <2>2, BoundAssumption
<1> QED
  BY <1>1, <1>2, <1>3, StepKinds DEF Receives, Spreads

\* Shapes, after any step.
LEMMA StepShapeOK ==
  ASSUME Structured(Inside), TInv, TInv', IInv, SInv, [Next]_vars
  PROVE  ShapeOK'
<1>1. \A u \in Pending' : TaskOK(u)
  BY StepQueueInv
<1>2. \A t \in running' : t.origin = Home(t.node) /\ t.node \notin seeds'
  BY StepRunning
<1>3. \A i \in 1 .. Len(results') : Sent(results'[i])
  BY StepSent
<1> QED
  BY <1>1, <1>2, <1>3, StepOutputs, StepStarters DEF ShapeOK, Sent

\* What the checkpoint says of what runs once.
LEMMA StepSavedOK ==
  ASSUME Structured(Inside), TInv, TInv', IInv, SInv, [Next]_vars
  PROVE  SavedOK'
<1> USE DEF SInv
<1>1. ASSUME runs' = runs, saved' = saved, seeds' = seeds, stale' = stale, pc = "crashed" <=> pc' = "crashed",
             pc' = "crashed" => running' \subseteq running
      PROVE  SavedOK'
  BY <1>1 DEF SavedOK
<1>2. CASE Waits \/ Spreads
  BY <1>1, <1>2 DEF Waits, Idles, DispatchStart, Startable, Spreads, DispatchForEach, Dispatching, resume
<1>3. CASE Crash
  BY <1>3 DEF Crash, SavedOK
<1>4. CASE Resume
  <2>1. saved' = saved /\ seeds' = Kept(stale')
    BY <1>4, ResumeIs
  <2> QED
    BY <1>4, <2>1 DEF SavedOK, Kept, Resume
<1>5. CASE Receives
  <2>1. saved'.out = [n \in Nodes |-> Latest(runs', n)]
    BY <1>5 DEF Receives, Take, Saved
  <2>2. \A n \in Nodes : saved'.out[n] # NULL => runs'[n] # <<>>
    BY <2>1 DEF Latest
  <2> QED
    BY <1>5, <2>2 DEF SavedOK, Receives
<1> QED
  BY <1>2, <1>3, <1>4, <1>5, StepKinds

\* The invariant holds at first.
LEMMA InitSInv == ASSUME Structured(Inside), Init, TInv PROVE SInv
<1>1. /\ running = {} /\ results = <<>> /\ runs = [n \in Nodes |-> <<>>] /\ next = [n \in Nodes |-> NULL]
      /\ done = {} /\ broken = {} /\ seeds = {} /\ saved = NoCheckpoint
  BY DEF Init
<1>2. \A u \in Pending : \E n \in Elements(Roots) : u = RootTask(n)
  BY <1>1, RootTasksAre DEF Init, Pending
<1>3. ASSUME NEW u \in Pending
      PROVE  /\ u.origin = NULL /\ u.after = NULL /\ u.item = NoItem /\ u.node \in Nodes /\ Inside[u.node] = NULL
             /\ \A e \in Elements(Edges) : e.to # u.node
  BY <1>2, RootIs, RootTaskIs
<1>4. \A n \in Nodes : runs[n] = <<>> /\ Elements(runs[n]) = {} /\ next[n] = NULL /\ Len(runs[n]) = 0
  BY <1>1, EmptyIs
<1>5. saved.entries = {} /\ \A n \in Nodes : saved.out[n] = NULL
  BY <1>1 DEF NoCheckpoint
<1>6. ShapeOK
  <2>1. \A t \in Pending : TaskOK(t)
    BY <1>3 DEF TaskOK
  <2> QED
    BY <1>1, <1>4, <1>5, <2>1, EmptyIs DEF ShapeOK
<1>7. \A n \in Nodes : Quiet(n)
  BY <1>1, <1>3, <1>4, NullIs DEF Quiet
<1>8. StartsOK
  BY <1>3, <1>4, <1>7 DEF StartsOK, Begun
<1>9. LoopsOK
  <2>1. ASSUME NEW l \in Nodes PROVE IsFiniteSet(Items(l)) /\ Cardinality(Items(l)) <= Width[l]
    <3>1. Items(l) = {}
      BY <1>3, NullIs DEF Items
    <3>2. Width[l] \in Nat
      BY GraphAssumption
    <3>3. IsFiniteSet({}) /\ Cardinality({}) = 0
      BY FS_EmptySet
    <3> QED
      BY <3>1, <3>2, <3>3
  <2> QED
    BY <1>1, <2>1 DEF LoopsOK, AfterLoopWaits, BreakEndsLoop
<1>10. IndexOK /\ OnceOK
  <2>1. IndexOK
    BY <1>3, <1>4 DEF IndexOK
  <2>2. \A n \in Nodes : \A i \in 1 .. Len(runs[n]) : FALSE
    BY <1>4
  <2>3. \A n \in Nodes : \A o \in Elements(runs[n]) : FALSE
    BY <1>4
  <2>4. \A t \in Pending : t.origin = NULL
    BY <1>3
  <2> HIDE DEF Init
  <2>5. OnceOK
    BY <2>2, <2>3, <2>4, Zenon DEF OnceOK
  <2> QED
    BY <2>1, <2>5
<1>11. SavedOK
  BY <1>1, <1>4, <1>5 DEF SavedOK
<1> QED
  BY <1>6, <1>8, <1>9, <1>10, <1>11 DEF SInv

\* The invariant of structured workflows.
LEMMA StructuredInvariant == Structured(Inside) /\ Spec => []SInv
<1> DEFINE J == Structured(Inside) /\ SInv
<1>1. Structured(Inside) /\ Init /\ TInv => J
  BY InitSInv
<1>2. J /\ TInv /\ TInv' /\ IInv /\ [Next]_vars => J'
  BY StepShapeOK, StepQueueInv, StepSavedOK DEF SInv
<1>3. J => SInv
  OBVIOUS
<1> HIDE DEF J
<1> QED
  BY <1>1, <1>2, <1>3, TypesHold, Invariant, PTL DEF Spec

\* A join runs once per item.
LEMMA JoinsHold == ASSUME Structured(Inside), SInv PROVE JoinsOnce
<1> SUFFICES ASSUME NEW n \in AwaitAll, NEW i \in 1 .. Len(runs[n]), NEW j \in 1 .. Len(runs[n]),
                    runs[n][i].item = runs[n][j].item,
                    \A l \in LoopNodes : Kind[l] = "infinite" => runs[n][i].item[l] = NULL
             PROVE  i = j
  BY DEF JoinsOnce
<1>1. n \in Nodes
  BY GraphAssumption
<1>2. CASE Home(n) = NULL \/ Finite(Home(n))
  BY <1>1, <1>2 DEF SInv, OnceOK
<1>3. CASE Home(n) # NULL /\ ~Finite(Home(n))
  <2>1. Home(n) \in LoopNodes /\ Kind[Home(n)] = "infinite"
    BY <1>1, <1>3, HomeIs, StructuredTypes DEF Finite, LoopNodes
  <2>2. runs[n][i] \in Elements(runs[n])
    BY InElements
  <2>3. runs[n][i].item[Home(n)] \in Nat
    BY <1>1, <1>3, <2>2 DEF SInv, ShapeOK, OutputOK
  <2> QED
    BY <2>1, <2>3, NullIs
<1> QED
  BY <1>2, <1>3

\* A resume repeats nothing.
LEMMA RepeatsNothing == ASSUME Structured(Inside), TInv, SInv PROVE NothingRepeated
<1> SUFFICES ASSUME NEW w \in working, w.task.item = NoItem,
                    w.task.node \notin RunAgain \union DescendantsOf(stale),
                    saved.out[w.task.node] # NULL, saved.out[w.task.node].out.ok,
                    ~\E e \in saved.entries : e.key[1] = w.task.node /\ ~e.out.ok
             PROVE  FALSE
  BY DEF NothingRepeated
<1> DEFINE t == w.task
           n == t.node
<1>1. t \in Task /\ t \in running /\ n \in Nodes /\ t \in Pending
  BY WorksIs DEF Pending
<1>2. TaskOK(t) /\ t.origin = Home(n) /\ n \notin seeds /\ (t.origin # NULL => t.item[t.origin] \in Nat)
  BY <1>1, PendingTyped DEF SInv, ShapeOK
<1>3. t.origin = NULL
  <2>1. ASSUME t.origin # NULL PROVE FALSE
    BY <1>2, <2>1, ItemOfIs DEF TaskOK
  <2> QED
    BY <2>1
<1>4. n \in seeds \/ runs[n] # <<>>
  <2>1. pc # "crashed"
    BY <1>1 DEF SInv, SavedOK
  <2>2. n \in Nodes \ RunAgain /\ Home(n) = NULL
    BY <1>1, <1>2, <1>3
  <2> QED
    BY <2>1, <2>2 DEF SInv, SavedOK
<1>5. runs[n] = <<>>
  BY <1>1, <1>2, <1>3 DEF SInv, StartsOK
<1> QED
  BY <1>2, <1>4, <1>5

\* In a structured workflow, in whatever order results come in and however often the run
\* is killed and resumed: a join runs once per item although each of its inputs may bring
\* it about, what follows a loop starts only when no task of the loop is left, a break of
\* a loop of width 1 leaves nothing of the loop, and no more items of a loop are under
\* way than max_concurrency.
THEOREM JoinsAndLoops == Structured(Inside) /\ Spec => []Consistent
<1>1. Structured(Inside) /\ TInv /\ SInv => Consistent
  <2> SUFFICES ASSUME Structured(Inside), TInv, SInv PROVE Consistent
    OBVIOUS
  <2>1. TypeOK
    BY TInvTypeOK
  <2>2. InFlight
    BY DEF SInv, LoopsOK, InFlight, Items
  <2> QED
    BY <2>1, <2>2, JoinsHold DEF Consistent, SInv, LoopsOK
<1> DEFINE J == Structured(Inside)
<1>2. J /\ TInv /\ SInv => Consistent
  BY <1>1
<1>3. J => J'
  OBVIOUS
<1>4. J <=> Structured(Inside)
  OBVIOUS
<1> HIDE DEF J
<1> QED
  BY <1>2, <1>3, <1>4, TypesHold, StructuredInvariant, PTL

\* In a structured workflow, however often the run is killed, in the middle of writing its
\* checkpoint too, and resumed: no node outside of loops and for_each nodes is at work whose
\* success the checkpoint holds, unless a resume found it, or what it follows, out of date,
\* or the checkpoint has lost its entry.
THEOREM ResumesRepeatNothing == Structured(Inside) /\ Spec => []NothingRepeated
<1>1. Structured(Inside) /\ TInv /\ SInv => NothingRepeated
  BY RepeatsNothing
<1>3. Structured(Inside) => Structured(Inside)'
  OBVIOUS
<1> QED
  BY <1>1, <1>3, TypesHold, StructuredInvariant, PTL

-----------------------------------------------------------------------------
(* Complete workflows: nothing is left out.                                *)

\* The execution goes on, and is not to stop.
Going == ~stop /\ ~halted /\ pc # "crashed"

\* A node outside of loops has run, or is going to.
Reached(m) ==
  \/ runs[m] # <<>>
  \/ \E u \in Pending : (u.node = m /\ u.origin = NULL) \/ (u.origin = m /\ m \in ForEach)

\* A node of a loop has run for item x, or is going to.
ReachedFor(m, x) ==
  \/ HasRun(m, x)
  \/ \E u \in Pending : u.node = m /\ u.item = x /\ u.origin # NULL

\* Edge e calls for the node it leads to, by output o.
Called(e, o) ==
  /\ EdgeMatches(e, o.out) /\ e.from \notin LoopNodes
  /\ e.to \in AwaitAll => AllInputsReady(runs, e.to, o.item)
  /\ Home(e.from) \notin broken

\* What is called for is reached.
CalledOK ==
  \A e \in Elements(Edges) : \A o \in Elements(runs[e.from]) :
    Called(e, o) => IF Home(e.from) = NULL THEN Reached(e.to) ELSE ReachedFor(e.to, o.item)

\* An edge into the body of l.
BodyEdge(l, e) == e \in Elements(Edges) /\ e.from = l /\ e.when # "after"
HasBody(l) == \E e \in Elements(Edges) : BodyEdge(l, e)
HasTasks(l) == \E u \in Pending : u.origin = l

\* A loop that started is over or has tasks; every item up to the next index is
\* reached; and it is not over before its last item.
Counted(l) ==
  Finite(l) /\ l \notin broken /\ next[l] # NULL =>
    /\ \A e : BodyEdge(l, e) => \A i \in 0 .. next[l] - 1 : ReachedFor(e.to, ItemOf(l, i))
    /\ l \in done => next[l] >= Size[l] \/ ~HasBody(l)

\* Loops make progress.
ProgressOK ==
  \A l \in LoopNodes :
    /\ \A o \in Elements(runs[l]) : o.out.ok
    /\ HasTasks(l) => HasBody(l)
    /\ runs[l] # <<>> => next[l] # NULL /\ (l \in done \/ HasTasks(l))
    /\ Counted(l)

\* What follows a loop that is over is reached.
FollowedOK == \A e \in Elements(Edges) : e.when = "after" /\ e.from \in done => Reached(e.to)

\* The inductive invariant of complete workflows.  A seed has its kept output; a run that
\* ended by itself has nothing left to do; and while it goes on, what is called for is
\* reached, loops make progress and what follows them is reached.
CInv ==
  /\ \A n \in seeds : runs[n] # <<>>
  /\ pc = "ended" /\ ~halted => Pending = {}
  /\ Going => CalledOK /\ ProgressOK /\ FollowedOK

\* What was reached stays so, unless its loop is broken.
Keeps ==
  /\ \A m \in Nodes : Reached(m) => Reached(m)'
  /\ \A m \in Nodes : Home(m) \notin broken' => \A x : ReachedFor(m, x) => ReachedFor(m, x)'

-----------------------------------------------------------------------------
\* A task is received.
LEMMA ReceiveKeeps ==
  ASSUME Structured(Inside), TInv, TInv', SInv, NEW t, NEW o, Moves(t, o), ~(t.node \in ForEach /\ t.origin = NULL),
         \A u \in Pending \ {t} : u \in Pending' \/ (u.origin = t.origin /\ t.origin # NULL /\ t.origin \in broken')
  PROVE  Keeps
<1>1. /\ t \in Pending /\ TaskOK(t) /\ t.node \in Nodes
      /\ \A m \in Nodes : runs[m] # <<>> => runs'[m] # <<>>
      /\ o \in Elements(runs'[t.node]) /\ o.item = t.item
  BY NotesIs DEF Moves, SInv, ShapeOK
<1>2. runs'[t.node] # <<>>
  BY <1>1, EmptyIs
<1>3. ASSUME t.origin \in ForEach PROVE runs'[t.origin] # <<>>
  <2>1. t.origin # NULL /\ t.origin \in Nodes
    BY <1>3, NullIs, GraphAssumption
  <2>4. t.origin = Home(t.node)
    BY <1>1, <2>1 DEF TaskOK
  <2>2. CASE t.node = t.origin
    BY <1>2, <2>2
  <2>3. CASE t.node # t.origin
    <3>1. HasRun(t.origin, t.item)
      BY <1>1, <1>3, <2>1, <2>3, <2>4 DEF SInv, OnceOK, Rests
    <3>2. runs[t.origin] # <<>>
      BY <3>1, EmptyIs DEF HasRun
    <3> QED
      BY <1>1, <2>1, <3>2
  <2> QED
    BY <2>2, <2>3
<1>4. ASSUME NEW m \in Nodes, Reached(m) PROVE Reached(m)'
  <2>1. CASE runs[m] # <<>>
    BY <1>1, <2>1 DEF Reached
  <2>2. ASSUME NEW u \in Pending, (u.node = m /\ u.origin = NULL) \/ (u.origin = m /\ m \in ForEach) PROVE Reached(m)'
    <3>1. CASE u = t
      BY <1>2, <1>3, <2>2, <3>1 DEF Reached
    <3>2. CASE u # t /\ u \in Pending'
      BY <2>2, <3>2 DEF Reached
    <3>3. CASE u.origin = t.origin /\ t.origin # NULL
      BY <1>3, <2>2, <3>3 DEF Reached
    <3> QED
      BY <2>2, <3>1, <3>2, <3>3
  <2> QED
    BY <1>4, <2>1, <2>2 DEF Reached
<1>5. ASSUME NEW m \in Nodes, Home(m) \notin broken', NEW x, ReachedFor(m, x) PROVE ReachedFor(m, x)'
  <2>1. CASE HasRun(m, x)
    BY <2>1, HasRunKept DEF ReachedFor
  <2>2. ASSUME NEW u \in Pending, u.node = m, u.item = x, u.origin # NULL PROVE ReachedFor(m, x)'
    <3>1. CASE u = t
      <4>1. HasRun(m, x)'
        BY <1>1, <2>2, <3>1 DEF HasRun
      <4> QED
        BY <4>1 DEF ReachedFor
    <3>2. u.origin = Home(m)
      BY <2>2 DEF SInv, ShapeOK, TaskOK
    <3>3. CASE u # t
      <4>1. u \in Pending'
        BY <1>5, <2>2, <3>2, <3>3
      <4> QED
        BY <2>2, <4>1 DEF ReachedFor
    <3> QED
      BY <3>1, <3>3
  <2> QED
    BY <1>5, <2>1, <2>2 DEF ReachedFor
<1> QED
  BY <1>4, <1>5 DEF Keeps

\* What has run, seen from a state with the same outputs.
LEMMA SameRuns == ASSUME runs' = runs, NEW p, NEW x PROVE HasRun(p, x)' <=> HasRun(p, x)
BY DEF HasRun

\* A seeded task is dropped.
LEMMA SeededKeeps ==
  ASSUME Structured(Inside), TInv, SInv, CInv, DispatchSeeded
  PROVE  Keeps
<1> DEFINE t == Head(queue)
<1>1. /\ Dispatching /\ Seeded(t) /\ queue' = Tail(queue) /\ running' = running /\ runs' = runs
  BY DEF DispatchSeeded
<1>2. \A u \in Pending : u = t \/ u \in Pending'
  BY <1>1, DispatchedIs DEF Pending
<1>3. t.origin = NULL /\ runs'[t.node] # <<>>
  BY <1>1 DEF Seeded, CInv
<1> HIDE DEF t
<1>4. ASSUME NEW m \in Nodes, Reached(m) PROVE Reached(m)'
  BY <1>1, <1>2, <1>3, <1>4, NullIs DEF Reached
<1>5. ASSUME NEW m, NEW x, ReachedFor(m, x) PROVE ReachedFor(m, x)'
  BY <1>1, <1>2, <1>3, <1>5, SameRuns DEF ReachedFor
<1> QED
  BY <1>4, <1>5 DEF Keeps

\* A for_each node is spread: its list is not empty.
LEMMA ForEachKeeps ==
  ASSUME Complete(Inside), TInv, SInv, DispatchForEach
  PROVE  Keeps /\ \A u \in Pending : u.origin # NULL => u \in Pending'
<1> DEFINE t == Head(queue)
           n == t.node
           first == Least(Width[n], Size[n])
<1>0. Structured(Inside)
  BY DEF Complete
<1>1. /\ t \in Task /\ first \in Nat /\ n \in Nodes
      /\ \A u : u \in Elements(queue') <=>
           \/ u \in Elements(queue) \ {t}
           \/ u \notin Pending \ {t} /\ \E i \in 1 .. first : u = FirstTask(t, i)
  BY ForEachQueue DEF Task
<1>2. /\ running' = running /\ runs' = runs /\ n \in ForEach /\ t.origin # n /\ Dispatching
  BY DEF DispatchForEach, Expands
<1>3. t \in Elements(queue) /\ t \notin running /\ TaskOK(t)
  BY <1>2, DispatchedIs DEF Pending, SInv, ShapeOK
<1>4. t.origin = NULL
  BY <1>0, <1>1, <1>2, <1>3, HomeIs DEF TaskOK
<1>5. first >= 1
  <2>1. Width[n] \in Nat \ {0} /\ Size[n] \in Nat /\ Size[n] > 0
    BY <1>1, <1>2, GraphAssumption DEF Complete
  <2> QED
    BY <2>1 DEF Least
<1> HIDE DEF t, first
<1>6. \A u \in Pending : u = t \/ u \in Pending'
  BY <1>1, <1>2 DEF Pending
<1>7. \E u \in Pending' : u.origin = n
  <2>1. 1 \in 1 .. first /\ 1 \in Nat \ {0}
    BY <1>1, <1>5
  <2>2. FirstTask(t, 1).origin = n
    BY <1>1, <2>1, FirstTaskIs
  <2>3. FirstTask(t, 1) # t
    BY <1>2, <2>2
  <2>4. FirstTask(t, 1) \in Pending'
    <3>1. CASE FirstTask(t, 1) \in Pending
      BY <1>6, <2>3, <3>1
    <3>2. CASE FirstTask(t, 1) \notin Pending
      BY <1>1, <2>1, <3>2 DEF Pending
    <3> QED
      BY <3>1, <3>2
  <2> QED
    BY <2>2, <2>4
<1>8. ASSUME NEW m \in Nodes, Reached(m) PROVE Reached(m)'
  <2>1. CASE runs[m] # <<>>
    BY <1>2, <2>1 DEF Reached
  <2>2. ASSUME NEW u \in Pending, (u.node = m /\ u.origin = NULL) \/ (u.origin = m /\ m \in ForEach) PROVE Reached(m)'
    <3>1. CASE u = t
      <4>1. m = n
        BY <1>4, <2>2, <3>1, NullIs
      <4> QED
        BY <1>2, <1>7, <4>1 DEF Reached
    <3>2. CASE u \in Pending'
      BY <2>2, <3>2 DEF Reached
    <3> QED
      BY <1>6, <3>1, <3>2
  <2> QED
    BY <1>8, <2>1, <2>2 DEF Reached
<1>9. ASSUME NEW m, NEW x, ReachedFor(m, x) PROVE ReachedFor(m, x)'
  BY <1>2, <1>4, <1>6, <1>9, SameRuns DEF ReachedFor
<1> QED
  BY <1>4, <1>6, <1>8, <1>9 DEF Keeps

\* The outputs os2 are os with one more output o of p.
OneMore(os, os2, p, o) ==
  /\ os \in [Nodes -> Seq(Output)] /\ os2 \in [Nodes -> Seq(Output)] /\ p \in Nodes /\ o \in Output
  /\ os2[p] = Append(os[p], o) /\ \A m \in Nodes : m # p => os2[m] = os[m]

\* What has one more output.
LEMMA OneMoreIs ==
  ASSUME NEW os, NEW os2, NEW p, NEW o, OneMore(os, os2, p, o)
  PROVE  /\ Len(os[p]) \in Nat /\ Len(os2[p]) = Len(os[p]) + 1 /\ os2[p] # <<>>
         /\ os2[p][Len(os[p]) + 1] = o /\ \A i \in 1 .. Len(os[p]) : os2[p][i] = os[p][i]
<1> DEFINE s == os[p]
           s2 == os2[p]
<1>1. s \in Seq(Output) /\ s2 = Append(s, o) /\ o \in Output
  BY DEF OneMore
<1> HIDE DEF s, s2
<1>2. Len(s) \in Nat /\ Len(s2) = Len(s) + 1 /\ s2 # <<>> /\ s2[Len(s) + 1] = o /\ \A i \in 1 .. Len(s) : s2[i] = s[i]
  BY <1>1
<1> QED
  BY <1>2 DEF s, s2

\* What is new is the output recorded.
LEMMA NewOutput ==
  ASSUME NEW os, NEW os2, NEW p, NEW o, OneMore(os, os2, p, o)
  PROVE  \A v : v \in Elements(os2[p]) <=> v \in Elements(os[p]) \/ v = o
<1> DEFINE s == os[p]
           s2 == os2[p]
<1>1. /\ Len(s) \in Nat /\ Len(s2) = Len(s) + 1
      /\ s2[Len(s) + 1] = o /\ \A i \in 1 .. Len(s) : s2[i] = s[i]
  BY OneMoreIs
<1> HIDE DEF s, s2
<1>2. \A i : i \in 1 .. Len(s2) <=> i \in 1 .. Len(s) \/ i = Len(s) + 1
  BY <1>1
<1>3. \A v : v \in Elements(s2) <=> v \in Elements(s) \/ v = o
  BY <1>1, <1>2, InElements
<1> QED
  BY <1>3 DEF s, s2

\* The output just recorded is the one that counts for its item.
LEMMA MatchingNew ==
  ASSUME NEW os, NEW os2, NEW p, NEW o, OneMore(os, os2, p, o)
  PROVE  MatchingOutput(os2, p, o.item) = o
<1> DEFINE k == Len(os[p]) + 1
           same == {i \in 1 .. Len(os2[p]) : os2[p][i].item = o.item}
<1>1. Len(os2[p]) = k /\ k \in Nat /\ k > 0 /\ os2[p] # <<>> /\ os2[p][k] = o
  BY OneMoreIs
<1> HIDE DEF k
<1>2. Latest(os2, p) = o
  BY <1>1 DEF Latest
<1>3. k \in same /\ \A j \in same : j \in 1 .. k
  BY <1>1
<1>4. (CHOOSE i \in same : \A j \in same : j <= i) = k
  <2>1. \A j \in same : j <= k
    BY <1>1, <1>3
  <2>2. \A i \in same : (\A j \in same : j <= i) => i = k
    BY <1>1, <1>3
  <2> HIDE DEF same
  <2> QED
    BY <1>3, <2>1, <2>2
<1> QED
  BY <1>1, <1>2, <1>3, <1>4 DEF MatchingOutput

\* It does not count for another item that had an output.
LEMMA MatchingKept ==
  ASSUME NEW os, NEW os2, NEW p, NEW o, OneMore(os, os2, p, o),
         NEW x, x # NoItem, x # o.item, NEW v \in Elements(os[p]), v.item = x
  PROVE  MatchingOutput(os2, p, x) = MatchingOutput(os, p, x)
<1> DEFINE same == {i \in 1 .. Len(os[p]) : os[p][i].item = x}
           same2 == {i \in 1 .. Len(os2[p]) : os2[p][i].item = x}
<1>1. /\ Len(os[p]) \in Nat /\ Len(os2[p]) = Len(os[p]) + 1
      /\ os2[p][Len(os[p]) + 1] = o /\ \A i \in 1 .. Len(os[p]) : os2[p][i] = os[p][i]
  BY OneMoreIs
<1>2. same2 = same
  <2>1. \A i : i \in 1 .. Len(os2[p]) <=> i \in 1 .. Len(os[p]) \/ i = Len(os[p]) + 1
    BY <1>1
  <2> QED
    BY <1>1, <2>1
<1>3. \E i \in same : TRUE
  BY InElements
<1>4. \A i \in same : os2[p][i] = os[p][i]
  BY <1>1
<1> DEFINE b == CHOOSE i \in same : \A j \in same : j <= i
<1>5. MatchingOutput(os, p, x) = os[p][b]
  BY <1>3 DEF MatchingOutput
<1>6. MatchingOutput(os2, p, x) = os2[p][CHOOSE i \in same2 : \A j \in same2 : j <= i]
  BY <1>2, <1>3 DEF MatchingOutput
<1>7. MatchingOutput(os2, p, x) = os2[p][b]
  BY <1>2, <1>6
<1>8. b \in same
  <2>1. \A i \in same : i \in Nat /\ Len(os[p]) - i \in Nat
    BY <1>1
  <2>2. \E i \in same : \A j \in same : j <= i
    <3> DEFINE G == {Len(os[p]) - i : i \in same}
    <3>1. G \in SUBSET Nat /\ G # {}
      BY <1>3, <2>1
    <3>2. PICK g \in G : \A h \in G : g <= h
      BY <3>1, LeastNumber
    <3>3. PICK i \in same : g = Len(os[p]) - i
      BY <3>2
    <3>4. \A j \in same : Len(os[p]) - i <= Len(os[p]) - j
      BY <3>2, <3>3
    <3>5. \A j \in same : j <= i
      BY <1>1, <2>1, <3>4
    <3> QED
      BY <3>5
  <2> HIDE DEF same
  <2> QED
    BY <2>2
<1> QED
  BY <1>4, <1>5, <1>7, <1>8

\* Another node's outputs count as before.
LEMMA MatchingOther ==
  ASSUME NEW os, NEW os2, NEW p, os2[p] = os[p], NEW x
  PROVE  MatchingOutput(os2, p, x) = MatchingOutput(os, p, x)
BY DEF MatchingOutput, Latest

-----------------------------------------------------------------------------
\* An edge stays in its loop.
LEMMA HomeAlong ==
  ASSUME Structured(Inside), NEW e \in Elements(Edges), e.when # "after", e.from \notin LoopNodes
  PROVE  Home(e.from) = Inside[e.to]
<1>1. e.from \in Nodes
  BY EdgeIs
<1>2. CASE e.from \in ForEach
  BY <1>1, <1>2, EdgeIs, HomeIs, StructuredTypes
<1>3. CASE e.from \notin ForEach
  <2>1. e.from \notin Starters
    BY <1>3 DEF Starters
  <2> QED
    BY <1>1, <1>3, <2>1, EdgeIs, HomeIs
<1> QED
  BY <1>2, <1>3

\* The output r of task t is recorded.
Records(t, r) ==
  /\ OneMore(runs, runs', t.node, r) /\ r.item = t.item /\ t.origin = Home(t.node)
  /\ t.origin = NULL => runs[t.node] = <<>>

\* An edge that calls for a node, and did not before, does so for the item of the
\* task received, from which another edge leads to that node and matches too.
LEMMA Trigger ==
  ASSUME Structured(Inside), TInv, SInv, SInv', NEW t, NEW r, Records(t, r), broken \subseteq broken',
         NEW e \in Elements(Edges), NEW o \in Elements(runs'[e.from]), Called(e, o)',
         ~(o \in Elements(runs[e.from]) /\ Called(e, o))
  PROVE  /\ o.item = t.item
         /\ \E g \in Elements(Edges) :
              /\ g.from = t.node /\ g.to = e.to /\ EdgeMatches(g, r.out) /\ g.from \notin LoopNodes
              /\ Home(g.from) = Home(e.from)
<1>1. /\ e.from \in Nodes /\ e.to \in Nodes /\ t.node \in Nodes
      /\ runs \in [Nodes -> Seq(Output)] /\ runs' \in [Nodes -> Seq(Output)]
  BY EdgeIs DEF Records, OneMore
<1>2. /\ EdgeMatches(e, o.out) /\ e.from \notin LoopNodes /\ Home(e.from) \notin broken'
      /\ e.to \in AwaitAll => AllInputsReady(runs', e.to, o.item)
  BY DEF Called
<1>3. e.when # "after"
  BY <1>2, AfterNeverMatches
<1>4. CASE o \notin Elements(runs[e.from])
  <2>1. e.from = t.node
    BY <1>1, <1>4 DEF Records, OneMore
  <2>2. o = r
    BY <1>4, <2>1, NewOutput DEF Records
  <2> QED
    BY <1>2, <2>1, <2>2 DEF Records
<1>5. CASE o \in Elements(runs[e.from])
  <2>1. ~Called(e, o)
    BY <1>5
  <2>2. e.to \in AwaitAll /\ ~AllInputsReady(runs, e.to, o.item)
    BY <1>2, <2>1 DEF Called
  <2>3. PICK g \in Elements(Edges) :
          /\ g.to = e.to /\ g.from # e.to
          /\ ~(MatchingOutput(runs, g.from, o.item) # NULL
               /\ EdgeMatches(g, MatchingOutput(runs, g.from, o.item).out))
    BY <2>2 DEF AllInputsReady
  <2>4. /\ MatchingOutput(runs', g.from, o.item) # NULL
        /\ EdgeMatches(g, MatchingOutput(runs', g.from, o.item).out)
    BY <1>2, <2>2, <2>3 DEF AllInputsReady
  <2>5. g.from = t.node
    <3>1. ASSUME g.from # t.node PROVE FALSE
      <4>1. runs'[g.from] = runs[g.from]
        BY <3>1, EdgeIs DEF Records, OneMore
      <4>2. MatchingOutput(runs', g.from, o.item) = MatchingOutput(runs, g.from, o.item)
        BY <4>1, MatchingOther
      <4> QED
        BY <2>3, <2>4, <4>2
    <3> QED
      BY <3>1
  <2>6. g.when # "after" /\ g.from \notin LoopNodes
    BY <1>2, <1>3, <2>3, SeveralInputs
  <2>7. Home(g.from) = Home(e.from) /\ Home(e.from) = Inside[e.to]
    BY <1>2, <1>3, <2>3, <2>6, HomeAlong
  <2>8. o.item = t.item
    <3>1. OutputOK(e.from, o)
      BY <1>1, <1>5 DEF SInv, ShapeOK
    <3>2. r \in Elements(runs'[t.node])
      BY NewOutput DEF Records
    <3>3. OutputOK(t.node, r) /\ r.item = t.item
      BY <1>1, <3>2 DEF SInv, ShapeOK, Records
    <3>4. CASE Home(e.from) = NULL
      BY <2>5, <2>7, <3>1, <3>3, <3>4 DEF OutputOK
    <3>5. CASE Home(e.from) # NULL
      <4> DEFINE l == Home(e.from)
                 i == o.item[l]
      <4>1. l \in Starters /\ Inside[e.to] = l
        BY <1>1, <2>7, <3>5, HomeIs
      <4>2. i \in Nat /\ o.item = ItemOf(l, i) /\ o.item # NoItem
        BY <3>1, <3>5, <4>1, ItemOfIs DEF OutputOK
      <4>3. ASSUME HasRun(g.from, o.item) PROVE o.item = t.item
        <5>1. PICK v \in Elements(runs[g.from]) : v.item = o.item
          BY <4>3 DEF HasRun
        <5>2. ASSUME o.item # t.item PROVE FALSE
          <6>1. MatchingOutput(runs', g.from, o.item) = MatchingOutput(runs, g.from, o.item)
            BY <2>5, <4>2, <5>1, <5>2, MatchingKept DEF Records
          <6> QED
            BY <2>3, <2>4, <6>1
        <5> QED
          BY <5>2
      <4>4. CASE g.from = l
        <5>1. l \in ForEach
          BY <2>6, <4>1, <4>4, StructuredTypes
        <5>2. CASE e.from = l
          <6>1. HasRun(g.from, o.item)
            BY <1>5, <4>4, <5>2 DEF HasRun
          <6> QED
            BY <4>3, <6>1
        <5>3. CASE e.from # l
          <6>1. Rests(e.from, o.item)
            BY <1>1, <1>5, <3>5 DEF SInv, OnceOK
          <6>2. HasRun(g.from, o.item)
            BY <4>4, <5>1, <5>3, <6>1 DEF Rests
          <6> QED
            BY <4>3, <6>2
        <5> QED
          BY <5>2, <5>3
      <4>5. CASE g.from # l
        <5>1. \A p \in Nodes : \A v \in Elements(runs'[p]) : OutputOK(p, v)
          BY DEF SInv, ShapeOK
        <5> HIDE DEF l, i
        <5>2. AllInputsReady(runs', e.to, ItemOf(l, i))
          BY <1>2, <2>2, <4>2
        <5>3. PICK v \in Elements(runs'[g.from]) : v.item = ItemOf(l, i)
          <6>1. /\ runs' \in [Nodes -> Seq(Output)] /\ e.to \in Nodes /\ l \in Starters /\ Inside[e.to] = l /\ i \in Nat
                /\ g \in Elements(Edges) /\ g.to = e.to /\ g.from \notin LoopNodes /\ g.from # l
            BY <1>1, <2>3, <2>6, <4>1, <4>2, <4>5
          <6>2. Structured(Inside)
            OBVIOUS
          <6> DEFINE n == e.to
          <6>3. runs' \in [Nodes -> Seq(Output)] /\ n \in Nodes /\ Inside[n] = l /\ g.to = n
            BY <6>1
          <6>5. AllInputsReady(runs', n, ItemOf(l, i))
            BY <5>2
          <6> HIDE DEF n
          <6>6. \E v \in Elements(runs'[g.from]) : v.item = ItemOf(l, i)
            BY ONLY <6>1, <6>2, <6>3, <5>1, <6>5, ReadyInItem
          <6> QED
            BY <6>6
        <5>4. v \in Elements(runs[g.from]) \/ v = r
          BY <2>5, <5>3, NewOutput DEF Records
        <5>5. CASE v = r
          BY <3>3, <4>2, <5>3, <5>5
        <5>6. CASE v \in Elements(runs[g.from])
          <6>1. HasRun(g.from, o.item)
            BY <4>2, <5>3, <5>6 DEF HasRun
          <6> QED
            BY <4>3, <6>1
        <5> QED
          BY <5>4, <5>5, <5>6
      <4> QED
        BY <4>4, <4>5
    <3> QED
      BY <3>4, <3>5
  <2>9. MatchingOutput(runs', g.from, o.item) = r
    BY <2>5, <2>8, MatchingNew DEF Records
  <2> QED
    BY <2>3, <2>4, <2>5, <2>6, <2>7, <2>8, <2>9
<1> QED
  BY <1>4, <1>5

\* What is queued after a result, nothing left out.
LEMMA ResultGains ==
  ASSUME TInv, ReceiveResult
  PROVE  LET t == Received.task IN
         /\ \A u : u \in Pending' <=> u \in Waiting \/ u \in Elements(More)
         /\ \A u \in Others : u \in Pending'
         /\ \A u \in Elements(Due) : u \in Pending'
         /\ EmptyLoop => \A u \in Elements(AfterLoop(t.node)) : u \in Pending'
         /\ Ends => \A u \in Elements(AfterLoop(t.origin)) : u \in Pending'
         /\ Goes => \A u \in Elements(ItemTasks(t, NextIndex(t))) : u \in Pending'
<1> DEFINE t == Received.task
<1>1. Receiving /\ t \in Task /\ t.node \in Nodes /\ t \notin Elements(queue)
  BY ResultStep, ReceivedIs
<1>2. /\ running' = running \ {t}
      /\ Elements(queue') = Elements(queue) \union Elements(Follow) \union Elements(Skipped) \union Elements(More)
  BY ResultQueue
<1>3. \A u : u \in Pending' <=> u \in Waiting \/ u \in Elements(More)
  BY <1>1, <1>2 DEF Pending, Waiting, Others
<1>4. Elements(Follow) = Elements(Due) \ Others
  BY <1>1, FollowIs
<1>5. (\A u \in Others : u \in Waiting) /\ (\A u \in Elements(Due) : u \in Waiting)
  BY <1>4 DEF Waiting
<1>6. ASSUME EmptyLoop, NEW u \in Elements(AfterLoop(t.node)) PROVE u \in Pending'
  <2>1. AfterLoop(t.node) \in Seq(Task) /\ Skipped = Fresh(AfterLoop(t.node), Others)
    BY <1>1, <1>6, AfterLoopIs DEF Skipped
  <2>2. u \in Others \/ u \in Elements(Skipped)
    BY <1>6, <2>1, FreshIs
  <2> QED
    BY <1>3, <2>2 DEF Waiting
<1>7. ASSUME Ends, NEW u \in Elements(AfterLoop(t.origin)) PROVE u \in Pending'
  <2>1. t.origin \in Nodes
    BY <1>1, <1>7, MoreIs DEF Ends
  <2>2. AfterLoop(t.origin) \in Seq(Task) /\ More = Fresh(AfterLoop(t.origin), Waiting)
    BY <1>7, <2>1, AfterLoopIs DEF More
  <2>3. u \in Waiting \/ u \in Elements(More)
    BY <1>7, <2>2, FreshIs
  <2> QED
    BY <1>3, <2>3
<1>8. ASSUME Goes, NEW u \in Elements(ItemTasks(t, NextIndex(t))) PROVE u \in Pending'
  <2>1. t.origin \in Nodes /\ NextIndex(t) \in Nat /\ ~Ends
    BY <1>1, <1>8, MoreIs DEF Goes, Ends
  <2>2. t.origin # NULL
    BY <2>1, NullIs
  <2>3. ItemTasks(t, NextIndex(t)) \in Seq(Task) /\ More = Fresh(ItemTasks(t, NextIndex(t)), Waiting)
    BY <1>1, <1>8, <2>1, <2>2, ItemTasksAre DEF More
  <2>4. u \in Waiting \/ u \in Elements(More)
    BY <1>8, <2>3, FreshIs
  <2> QED
    BY <1>3, <2>4
<1> QED
  BY <1>3, <1>5, <1>6, <1>7, <1>8

\* What a received task records.
LEMMA TakeRecords ==
  ASSUME Structured(Inside), TInv, SInv, Receiving, Take(Received)
  PROVE  Records(Received.task, ReceivedOutput)
<1>1. runs' = Recorded(Received)
  BY DEF Take
<1>2. /\ Received.task.node \in Nodes /\ ReceivedOutput \in Output /\ ReceivedOutput.item = Received.task.item
      /\ Received.task.origin = Home(Received.task.node)
      /\ Received.task.origin = NULL => runs[Received.task.node] = <<>>
  BY ReceivedShape DEF SInv
<1>3. runs \in [Nodes -> Seq(Output)]
  BY DEF TInv, RecordOK
<1>4. OneMore(runs, runs', Received.task.node, ReceivedOutput)
  BY <1>1, <1>2, <1>3, RecordedTyped DEF OneMore, ReceivedOutput
<1> QED
  BY <1>2, <1>4 DEF Records

\* The steps that receive keep what is reached.
LEMMA ResultKeeps ==
  ASSUME Structured(Inside), TInv, TInv', SInv, ReceiveResult
  PROVE  Keeps
<1> DEFINE t == Received.task
<1>1. Receiving
  BY ResultStep
<1>2. Moves(t, ReceivedOutput)
  BY ResultMoves DEF SInv
<1>3. t.origin = Home(t.node) /\ t.node \in Nodes
  BY <1>1, ReceivedShape DEF SInv
<1>4. ~(t.node \in ForEach /\ t.origin = NULL)
  BY <1>3, HomeIs, NullIs
<1>5. \A u \in Pending \ {t} : u \in Pending'
  BY ResultGains DEF Others
<1> QED
  BY <1>2, <1>4, <1>5, ReceiveKeeps

\* A break gives up nothing outside of its loop.
LEMMA BreakKeeps ==
  ASSUME Complete(Inside), TInv, TInv', IInv, SInv, ReceiveBreak
  PROVE  LET l == Received.task.origin IN
         /\ Keeps
         /\ l \in Starters /\ l \in broken' /\ l \in done' /\ done' = done \union {l} /\ broken' = broken \union {l}
         /\ \A u \in Pending : u.origin # l => u \in Pending'
         /\ l \notin done => \A e \in Elements(Edges) : e.from = l /\ e.when = "after" => AfterTask(l, e.to) \in Pending'
         /\ Received.task.node \notin LoopNodes
<1> DEFINE t == Received.task
           l == t.origin
<1>0. Structured(Inside)
  BY DEF Complete
<1>1. Receiving /\ Kind[t.node] = "break"
  BY DEF ReceiveBreak, Breaks
<1>2. Moves(t, ReceivedOutput)
  BY <1>0, BreakMoves DEF SInv
<1>3. l = Home(t.node) /\ t.node \in Nodes /\ (l # NULL => l \in Starters)
  BY <1>0, <1>1, ReceivedShape DEF SInv
<1>4. l # NULL
  BY <1>0, <1>1, <1>3, HomeIs DEF Complete
<1>5. ~(t.node \in ForEach /\ l = NULL)
  BY <1>4
<1>6. /\ running' = running \ {t} /\ done' = done \union {l} /\ broken' = broken \union {l}
      /\ \A u : u \in Elements(queue') <=>
           \/ u \in Elements(queue) /\ u.origin # l
           \/ /\ l \notin done /\ u \notin running \ {t}
              /\ \E e \in Elements(Edges) : e.from = l /\ e.when = "after" /\ u = AfterTask(l, e.to)
  BY <1>4, BreakQueue
<1>7. \A u \in Pending : u # t /\ u.origin # l => u \in Pending'
  BY <1>6 DEF Pending
<1>8. Keeps
  <2>1. \A u \in Pending \ {t} : u \in Pending' \/ (u.origin = l /\ l # NULL /\ l \in broken')
    BY <1>4, <1>6, <1>7
  <2> QED
    BY <1>0, <1>2, <1>5, <2>1, ReceiveKeeps
<1>9. ASSUME l \notin done, NEW e \in Elements(Edges), e.from = l, e.when = "after" PROVE AfterTask(l, e.to) \in Pending'
  BY <1>6, <1>9 DEF Pending
<1>10. t.node \notin LoopNodes
  BY <1>1 DEF LoopNodes
<1> QED
  BY <1>3, <1>4, <1>6, <1>7, <1>8, <1>9, <1>10

-----------------------------------------------------------------------------
(* What is called for. *)

\* What was called for is still reached.
LEMMA StillCalled ==
  ASSUME Structured(Inside), CalledOK, Keeps, NEW e \in Elements(Edges), NEW o \in Elements(runs[e.from]),
         Called(e, o), Home(e.from) \notin broken'
  PROVE  IF Home(e.from) = NULL THEN Reached(e.to)' ELSE ReachedFor(e.to, o.item)'
<1>1. e.to \in Nodes /\ e.when # "after" /\ e.from \notin LoopNodes
  BY EdgeIs, AfterNeverMatches DEF Called
<1>2. Home(e.from) = Inside[e.to]
  BY <1>1, HomeAlong
<1>3. Home(e.from) # NULL => Home(e.to) = Home(e.from)
  BY <1>1, <1>2, HomeIs
<1>4. IF Home(e.from) = NULL THEN Reached(e.to) ELSE ReachedFor(e.to, o.item)
  BY DEF CalledOK
<1> QED
  BY <1>1, <1>3, <1>4 DEF Keeps

\* Where nothing is recorded nothing new is called for.
LEMMA SameCalled ==
  ASSUME Structured(Inside), CalledOK, Keeps, runs' = runs, broken' = broken
  PROVE  CalledOK'
<1> SUFFICES ASSUME NEW e \in Elements(Edges), NEW o \in Elements(runs'[e.from]), Called(e, o)'
             PROVE  IF Home(e.from) = NULL THEN Reached(e.to)' ELSE ReachedFor(e.to, o.item)'
  BY DEF CalledOK
<1>1. Called(e, o) /\ o \in Elements(runs[e.from]) /\ Home(e.from) \notin broken'
  BY DEF Called
<1> QED
  BY <1>1, StillCalled

\* After a result what is called for is reached.
LEMMA ResultCalled ==
  ASSUME Structured(Inside), TInv, TInv', SInv, SInv', CalledOK, ReceiveResult
  PROVE  CalledOK'
<1> SUFFICES ASSUME NEW e \in Elements(Edges), NEW o \in Elements(runs'[e.from]), Called(e, o)'
             PROVE  IF Home(e.from) = NULL THEN Reached(e.to)' ELSE ReachedFor(e.to, o.item)'
  BY DEF CalledOK
<1> DEFINE t == Received.task
           r == ReceivedOutput
<1>1. Receiving /\ Take(Received) /\ broken' = broken /\ ~Halting(Received)
  BY ResultStep
<1>2. Keeps
  BY ResultKeeps
<1>3. CASE o \in Elements(runs[e.from]) /\ Called(e, o)
  <2>1. Home(e.from) \notin broken'
    BY DEF Called
  <2> QED
    BY <1>2, <1>3, <2>1, StillCalled
<1>4. CASE ~(o \in Elements(runs[e.from]) /\ Called(e, o))
  <2>1. Records(t, r)
    BY <1>1, TakeRecords
  <2>2. o.item = t.item
    BY <1>1, <1>4, <2>1, Trigger
  <2>3. PICK g \in Elements(Edges) :
              /\ g.from = t.node /\ g.to = e.to /\ EdgeMatches(g, r.out) /\ g.from \notin LoopNodes
              /\ Home(g.from) = Home(e.from)
    BY <1>1, <1>4, <2>1, Trigger
  <2>4. /\ t \in Task /\ t.node \in Nodes /\ t.origin = Home(t.node) /\ r.out = Received.out /\ runs' = Recorded(Received)
    BY <1>1, ReceivedShape DEF SInv, ReceivedOutput, Take
  <2>5. ~StartsLoop(t.node, Received.out)
    BY <1>1, <2>3, LoopStarts DEF SInv
  <2>6. e.to \in AwaitAll => AllInputsReady(runs', e.to, t.item)
    BY <2>2 DEF Called
  <2>7. Taken(Recorded(Received), g, t, Received.out)
    BY <2>3, <2>4, <2>6 DEF Taken
  <2>8. NextTask(e.to, t) \in Elements(Due)
    BY <2>3, <2>4, <2>5, <2>7, SuccessorsAre DEF Due
  <2>9. NextTask(e.to, t) \in Pending'
    BY <2>8, ResultGains
  <2>10. /\ NextTask(e.to, t).node = e.to /\ NextTask(e.to, t).item = o.item
         /\ NextTask(e.to, t).origin = Home(e.from)
    BY <2>2, <2>3, <2>4, NextTaskIs
  <2> QED
    BY <2>9, <2>10 DEF Reached, ReachedFor
<1> QED
  BY <1>3, <1>4

\* The same after a break.
LEMMA BreakCalled ==
  ASSUME Complete(Inside), TInv, TInv', IInv, SInv, SInv', CalledOK, ReceiveBreak
  PROVE  CalledOK'
<1> SUFFICES ASSUME NEW e \in Elements(Edges), NEW o \in Elements(runs'[e.from]), Called(e, o)'
             PROVE  IF Home(e.from) = NULL THEN Reached(e.to)' ELSE ReachedFor(e.to, o.item)'
  BY DEF CalledOK
<1> DEFINE t == Received.task
           r == ReceivedOutput
<1>0. Structured(Inside)
  BY DEF Complete
<1>1. Receiving /\ Take(Received)
  BY DEF ReceiveBreak
<1>2. Keeps /\ t.origin \in broken' /\ broken \subseteq broken'
  BY BreakKeeps
<1>3. Records(t, r)
  BY <1>0, <1>1, TakeRecords
<1>4. CASE ~(o \in Elements(runs[e.from]) /\ Called(e, o))
  <2>1. Home(e.from) = t.origin
    BY <1>0, <1>2, <1>3, <1>4, Trigger DEF Records
  <2> QED
    BY <1>2, <2>1 DEF Called
<1>5. CASE o \in Elements(runs[e.from]) /\ Called(e, o)
  <2>1. Home(e.from) \notin broken'
    BY DEF Called
  <2> QED
    BY <1>0, <1>2, <1>5, <2>1, StillCalled
<1> QED
  BY <1>4, <1>5

-----------------------------------------------------------------------------
(* What follows a loop. *)

\* Nothing ends.
LEMMA SameFollowed ==
  ASSUME Structured(Inside), FollowedOK, Keeps,
         \A e \in Elements(Edges) : e.when = "after" /\ e.from \in done' /\ e.from \notin done => AfterTask(e.from, e.to) \in Pending'
  PROVE  FollowedOK'
<1> SUFFICES ASSUME NEW e \in Elements(Edges), e.when = "after", e.from \in done' PROVE Reached(e.to)'
  BY DEF FollowedOK
<1>1. e.to \in Nodes
  BY EdgeIs
<1>2. CASE e.from \in done
  BY <1>1, <1>2 DEF FollowedOK, Keeps
<1>3. CASE e.from \notin done
  BY <1>3, AfterTaskIs DEF Reached
<1> QED
  BY <1>2, <1>3

\* A loop that a result ends is followed.
LEMMA ResultFollowed ==
  ASSUME Structured(Inside), TInv, TInv', SInv, FollowedOK, ReceiveResult
  PROVE  FollowedOK'
<1> DEFINE t == Received.task
<1>1. Receiving /\ done' = done \union (IF EmptyLoop THEN {t.node} ELSE {}) \union (IF Ends THEN {t.origin} ELSE {})
  BY ResultStep
<1>2. ASSUME NEW e \in Elements(Edges), e.when = "after", e.from \in done', e.from \notin done
      PROVE  AfterTask(e.from, e.to) \in Pending'
  <2>1. e.from \in Nodes
    BY EdgeIs
  <2>2. AfterTask(e.from, e.to) \in Elements(AfterLoop(e.from))
    BY <1>2, <2>1, AfterLoopIs
  <2>3. (EmptyLoop /\ e.from = t.node) \/ (Ends /\ e.from = t.origin)
    BY <1>1, <1>2
  <2> QED
    BY <2>2, <2>3, ResultGains
<1> QED
  BY <1>2, ResultKeeps, SameFollowed

\* A loop that a break ends is followed.
LEMMA BreakFollowed ==
  ASSUME Complete(Inside), TInv, TInv', IInv, SInv, FollowedOK, ReceiveBreak
  PROVE  FollowedOK'
<1>1. \A e \in Elements(Edges) : e.when = "after" /\ e.from \in done' /\ e.from \notin done => AfterTask(e.from, e.to) \in Pending'
  BY BreakKeeps
<1> QED
  BY <1>1, BreakKeeps, SameFollowed DEF Complete

(* The progress of loops. *)

\* The edges into a loop.
LEMMA BodyIs ==
  ASSUME Structured(Inside), NEW l \in LoopNodes, NEW e, BodyEdge(l, e)
  PROVE  e \in Elements(Edges) /\ e.from = l /\ e.when # "after" /\ e.to \in Nodes /\ Home(e.to) = l
<1>1. e \in Elements(Edges) /\ e.from = l /\ e.when # "after"
  BY DEF BodyEdge
<1>2. l \in Starters /\ l # NULL
  BY StructuredTypes
<1> QED
  BY <1>1, <1>2, EdgeIs, HomeIs

\* Loops are not for_each nodes.
LEMMA LoopIs ==
  ASSUME Structured(Inside), NEW l \in LoopNodes
  PROVE  l \in Nodes /\ l # NULL /\ l \in Starters /\ l \notin ForEach /\ Home(l) = NULL
BY StructuredTypes, HomeIs

\* An item that was reached.
LEMMA KeptItem ==
  ASSUME Structured(Inside), Keeps, NEW l \in LoopNodes, l \notin broken', NEW e, BodyEdge(l, e), NEW x,
         ReachedFor(e.to, x)
  PROVE  ReachedFor(e.to, x)'
<1>1. e.to \in Nodes /\ Home(e.to) \notin broken'
  BY BodyIs
<1> QED
  BY <1>1 DEF Keeps

\* A loop nothing happens to.
LEMMA SameCounted ==
  ASSUME Structured(Inside), Keeps, NEW l \in LoopNodes, Counted(l), next'[l] = next[l], l \in done' => l \in done,
         l \in broken => l \in broken'
  PROVE  Counted(l)'
<1> SUFFICES ASSUME Finite(l), l \notin broken', next[l] # NULL
             PROVE  /\ \A e : BodyEdge(l, e) => \A i \in 0 .. next[l] - 1 : ReachedFor(e.to, ItemOf(l, i))'
                    /\ l \in done' => next[l] >= Size[l] \/ ~HasBody(l)
  BY DEF Counted
<1>1. /\ \A e : BodyEdge(l, e) => \A i \in 0 .. next[l] - 1 : ReachedFor(e.to, ItemOf(l, i))
      /\ l \in done => next[l] >= Size[l] \/ ~HasBody(l)
  BY DEF Counted
<1>2. ASSUME NEW e, BodyEdge(l, e), NEW i \in 0 .. next[l] - 1 PROVE ReachedFor(e.to, ItemOf(l, i))'
  <2>1. ReachedFor(e.to, ItemOf(l, i))
    BY <1>1, <1>2
  <2> QED
    BY <1>2, <2>1, KeptItem
<1> QED
  BY <1>1, <1>2

\* Nothing is recorded, and no task of a loop is queued or dropped.
LEMMA SameProgress ==
  ASSUME Structured(Inside), ProgressOK, Keeps, runs' = runs, done' = done, broken' = broken,
         \A l \in LoopNodes : next'[l] = next[l],
         \A u \in Pending : u.origin # NULL => u \in Pending',
         \A u \in Pending' : u.origin \in LoopNodes => u \in Pending
  PROVE  ProgressOK'
<1> SUFFICES ASSUME NEW l \in LoopNodes
             PROVE  /\ \A o \in Elements(runs'[l]) : o.out.ok
                    /\ HasTasks(l)' => HasBody(l)
                    /\ runs'[l] # <<>> => next'[l] # NULL /\ (l \in done' \/ HasTasks(l)')
                    /\ Counted(l)'
  BY DEF ProgressOK, HasBody, BodyEdge
<1>1. l # NULL
  BY LoopIs
<1>2. HasTasks(l)' <=> HasTasks(l)
  BY <1>1 DEF HasTasks
<1>3. Counted(l)'
  BY SameCounted DEF ProgressOK
<1> QED
  BY <1>2, <1>3 DEF ProgressOK

\* The tasks of a loop come from its body.
LEMMA MoveBody ==
  ASSUME Structured(Inside), NEW t, NEW o, Moves(t, o), ProgressOK, NEW l \in LoopNodes, HasTasks(l)'
  PROVE  HasBody(l)
<1>1. PICK u \in Pending' : u.origin = l
  BY DEF HasTasks
<1>2. l # NULL /\ l \notin ForEach
  BY LoopIs
<1>3. HasTasks(l) => HasBody(l)
  BY DEF ProgressOK
<1>4. t \in Pending
  BY DEF Moves
<1>5. CASE u \in Pending
  BY <1>1, <1>3, <1>5 DEF HasTasks
<1>6. CASE Succ(t, u)
  <2>1. u.origin = t.origin
    BY <1>6 DEF Succ, NextTask
  <2> QED
    BY <1>1, <1>3, <1>4, <2>1 DEF HasTasks
<1>7. CASE First(t, u)
  <2>1. Opens(l, u.node)
    BY <1>1, <1>7 DEF First
  <2> QED
    BY <1>2, <2>1 DEF Opens, HasBody, BodyEdge
<1>8. CASE After(u)
  BY <1>1, <1>2, <1>8, AfterTaskIs DEF After
<1>9. CASE NextItem(t, u)
  <2>1. u.origin = t.origin
    BY <1>9 DEF NextItem
  <2> QED
    BY <1>1, <1>3, <1>4, <2>1 DEF HasTasks
<1> QED
  BY <1>5, <1>6, <1>7, <1>8, <1>9 DEF Moves

\* A break ends its loop, and no other.
LEMMA BreakProgress ==
  ASSUME Complete(Inside), TInv, TInv', IInv, SInv, ProgressOK, ReceiveBreak
  PROVE  ProgressOK'
<1> DEFINE t == Received.task
           b == t.origin
<1>0. Structured(Inside)
  BY DEF Complete
<1>1. Receiving /\ Take(Received) /\ next' = next
  BY DEF ReceiveBreak
<1>2. /\ Keeps /\ b \in done' /\ done' = done \union {b} /\ broken' = broken \union {b}
      /\ \A u \in Pending : u.origin # b => u \in Pending'
      /\ t.node \notin LoopNodes
  BY BreakKeeps
<1>3. Moves(t, ReceivedOutput)
  BY <1>0, BreakMoves DEF SInv
<1>4. \A m \in Nodes : m # t.node => runs'[m] = runs[m]
  BY <1>3, NotesIs
<1> HIDE DEF b, t
<1> SUFFICES ASSUME NEW l \in LoopNodes
             PROVE  /\ \A o \in Elements(runs'[l]) : o.out.ok
                    /\ HasTasks(l)' => HasBody(l)
                    /\ runs'[l] # <<>> => next'[l] # NULL /\ (l \in done' \/ HasTasks(l)')
                    /\ Counted(l)'
  BY DEF ProgressOK, HasBody, BodyEdge
<1>5. runs'[l] = runs[l]
  BY <1>0, <1>2, <1>4, LoopIs
<1>6. HasTasks(l)' => HasBody(l)
  BY <1>0, <1>3, MoveBody
<1>7. CASE l = b
  <2>1. Counted(l)'
    BY <1>2, <1>7 DEF Counted
  <2> QED
    BY <1>1, <1>2, <1>5, <1>6, <1>7, <2>1 DEF ProgressOK
<1>8. CASE l # b
  <2>1. HasTasks(l) => HasTasks(l)'
    BY <1>2, <1>8 DEF HasTasks
  <2>2. Counted(l)'
    <3>1. /\ Counted(l) /\ next'[l] = next[l] /\ (l \in done' => l \in done)
          /\ (l \in broken => l \in broken')
      BY <1>1, <1>2, <1>8 DEF ProgressOK
    <3> QED
      BY <1>0, <1>2, <3>1, SameCounted
  <2> QED
    BY <1>1, <1>2, <1>5, <1>6, <2>1, <2>2 DEF ProgressOK
<1> QED
  BY <1>7, <1>8

\* What holds of loop l if it makes progress.
Progress(l) ==
  /\ \A o \in Elements(runs[l]) : o.out.ok
  /\ HasTasks(l) => HasBody(l)
  /\ runs[l] # <<>> => next[l] # NULL /\ (l \in done \/ HasTasks(l))
  /\ Counted(l)

\* Progress, loop by loop.
LEMMA ProgressIs == (ProgressOK <=> \A l \in LoopNodes : Progress(l)) /\ (ProgressOK' <=> \A l \in LoopNodes : Progress(l)')
BY DEF ProgressOK, Progress

\* A sequence that is not empty has an element.
LEMMA SomeElement == \A S : \A s \in Seq(S) : s # <<>> => \E x : x \in Elements(s)
<1> SUFFICES ASSUME NEW S, NEW s \in Seq(S), s # <<>> PROVE \E x : x \in Elements(s)
  OBVIOUS
<1>1. 1 \in 1 .. Len(s)
  OBVIOUS
<1> QED
  BY <1>1, InElements

\* The first tasks of a loop that starts.
LEMMA LoopDue ==
  ASSUME Complete(Inside), TInv, SInv, ReceiveResult, Received.task.node \in LoopNodes,
         NEW e, BodyEdge(Received.task.node, e), NEW i \in 0 .. Each(Received.task.node) - 1
  PROVE  LET l == Received.task.node IN
         \E u \in Elements(Due) : u.node = e.to /\ u.origin = l /\ u.item = ItemOf(l, i)
<1> DEFINE t == Received.task
           l == t.node
           u == ItemTask(e.to, t, i + 1)
<1>0. Structured(Inside)
  BY DEF Complete
<1>1. Receiving /\ ~Halting(Received)
  BY ResultStep
<1>2. StartsLoop(l, Received.out)
  BY <1>0, <1>1, LoopStarts DEF SInv
<1>3. t \in Task /\ l \in Nodes /\ t.origin = NULL /\ TaskOK(t)
  BY <1>0, <1>1, ReceivedShape DEF SInv
<1>4. e \in Elements(Edges) /\ e.from = l /\ e.when # "after"
  BY <1>0, BodyIs
<1>5. e.when \in {"always", "success"}
  BY <1>4 DEF Complete
<1>6. EdgeMatches(e, Received.out)
  BY <1>2, <1>5 DEF EdgeMatches, StartsLoop
<1>7. Taken(Recorded(Received), e, t, Received.out)
  BY <1>2, <1>6 DEF Taken
<1>8. Each(l) \in Nat
  BY <1>3, EachIs
<1>9. i \in Nat /\ i + 1 \in 1 .. Each(l) /\ (i + 1) - 1 = i
  BY <1>8
<1>10. u \in Elements(Due)
  <2> HIDE DEF u
  <2>1. \E j \in 1 .. Each(l) : u = ItemTask(e.to, t, j)
    BY <1>9 DEF u
  <2> QED
    BY <1>2, <1>3, <1>4, <1>7, <2>1, SuccessorsAre DEF Due
<1>11. u.node = e.to /\ u.origin = l
  BY <1>3, ItemTaskIs
<1>12. u.item = [t.item EXCEPT ![l] = i]
  BY <1>9, ItemTaskItem
<1>13. t.item = NoItem /\ l \in Starters /\ l \notin ForEach
  BY <1>0, <1>3, LoopIs DEF TaskOK
<1>14. u.item = ItemOf(l, i)
  BY <1>0, <1>9, <1>12, <1>13, ItemOfUpdate
<1> QED
  BY <1>10, <1>11, <1>14

\* A loop starts.
LEMMA StartProgress ==
  ASSUME Complete(Inside), TInv, TInv', SInv, ProgressOK, ReceiveResult, NEW l \in LoopNodes, l = Received.task.node
  PROVE  Progress(l)'
<1> DEFINE t == Received.task
<1>0. Structured(Inside)
  BY DEF Complete
<1>1. /\ Receiving /\ ~Halting(Received) /\ Take(Received) /\ broken' = broken
      /\ done' = done \union (IF EmptyLoop THEN {l} ELSE {}) \union (IF Ends THEN {t.origin} ELSE {})
  BY ResultStep
<1>2. StartsLoop(l, Received.out)
  BY <1>0, <1>1, LoopStarts DEF SInv
<1>3. t \in Task /\ l \in Nodes /\ t.origin = NULL /\ runs[l] = <<>> /\ Quiet(l)
  BY <1>0, <1>1, ReceivedShape DEF SInv
<1>4. ~Advances /\ next'[l] # NULL /\ (Finite(l) => next'[l] = Each(l))
  BY <1>0, ResultNext DEF SInv
<1>5. \A o \in Elements(runs'[l]) : o.out.ok
  <2>1. Records(t, ReceivedOutput)
    BY <1>0, <1>1, TakeRecords
  <2>2. \A o \in Elements(runs'[l]) : o = ReceivedOutput
    BY <1>3, <2>1, NewOutput, EmptyIs, SMTT(60) DEF Records
  <2>3. ReceivedOutput.out.ok
    BY <1>2 DEF StartsLoop, ReceivedOutput
  <2> QED
    BY <2>2, <2>3
<1>6. HasTasks(l)' => HasBody(l)
  <2>1. Moves(t, ReceivedOutput)
    BY <1>0, ResultMoves DEF SInv
  <2> QED
    BY <1>0, <2>1, MoveBody
<1>7. l \in done' \/ HasTasks(l)'
  <2>1. CASE EmptyLoop
    BY <1>1, <2>1
  <2>2. CASE ~EmptyLoop
    <3>1. Follow # <<>> /\ Follow \in Seq(Task)
      BY <1>1, <1>2, <2>2, FollowIs DEF EmptyLoop
    <3>2. PICK u : u \in Elements(Follow)
      BY <3>1, SomeElement
    <3>3. u.origin = l /\ u \in Elements(Due)
      BY <1>1, <1>2, <1>3, <3>2, FollowHas, ItemTaskIs
    <3>4. u \in Pending'
      BY <3>3, ResultGains
    <3> QED
      BY <3>3, <3>4 DEF HasTasks
  <2> QED
    BY <2>1, <2>2
<1>8. Counted(l)'
  <2> SUFFICES ASSUME Finite(l)
               PROVE  /\ \A e : BodyEdge(l, e) => \A i \in 0 .. Each(l) - 1 : ReachedFor(e.to, ItemOf(l, i))'
                      /\ l \in done' => Each(l) >= Size[l] \/ ~HasBody(l)
    BY <1>4 DEF Counted
  <2>1. l # NULL
    BY <1>0, LoopIs
  <2>2. ASSUME NEW e, BodyEdge(l, e), NEW i \in 0 .. Each(l) - 1 PROVE ReachedFor(e.to, ItemOf(l, i))'
    <3>1. PICK u \in Elements(Due) : u.node = e.to /\ u.origin = l /\ u.item = ItemOf(l, i)
      BY <2>2, LoopDue
    <3>2. u \in Pending'
      BY <3>1, ResultGains
    <3> QED
      BY <2>1, <3>1, <3>2 DEF ReachedFor
  <2>3. ASSUME l \in done', NEW e, BodyEdge(l, e) PROVE Each(l) >= Size[l]
    <3>1. ~Ends /\ l \notin done
      BY <1>3, <1>4 DEF Ends, Quiet
    <3>2. EmptyLoop
      BY <1>1, <2>3, <3>1
    <3>3. Elements(Due) \subseteq Others
      BY <1>1, <3>2, FollowIs, EmptyIs DEF EmptyLoop
    <3>4. \A u \in Others : u.origin # l
      BY <1>3 DEF Others, Quiet
    <3>5. Each(l) \in Nat /\ Width[l] \in Nat \ {0} /\ Size[l] \in Nat
      BY <1>3, EachIs, GraphAssumption
    <3>6. Each(l) = 0
      <4>1. ASSUME Each(l) # 0 PROVE FALSE
        <5>1. 0 \in 0 .. Each(l) - 1
          BY <3>5, <4>1
        <5> QED
          BY <2>3, <3>3, <3>4, <5>1, LoopDue
      <4> QED
        BY <4>1
    <3> QED
      BY <3>5, <3>6 DEF Each, Least, Finite
  <2> QED
    BY <2>2, <2>3 DEF HasBody
<1> QED
  BY <1>4, <1>5, <1>6, <1>7, <1>8 DEF Progress, HasBody, BodyEdge

\* The tasks of the next item of a loop.
LEMMA GoesOn ==
  ASSUME Structured(Inside), TInv, SInv, ReceiveResult, Goes, Received.task.origin \in LoopNodes,
         NEW e, BodyEdge(Received.task.origin, e)
  PROVE  LET l == Received.task.origin IN
         \E u \in Pending' : u.node = e.to /\ u.origin = l /\ u.item = ItemOf(l, next[l])
<1> DEFINE t == Received.task
           l == t.origin
           u == BodyTask(e.to, t, next[l])
<1>1. Receiving
  BY ResultStep
<1>2. t \in Task /\ t \in Pending /\ l \in Nodes /\ l # NULL /\ l \in Starters /\ l \notin ForEach /\ TaskOK(t)
  BY <1>1, ReceivedShape, LoopIs DEF SInv
<1>3. next[l] \in Nat /\ NextIndex(t) = next[l]
  BY ResultNext DEF SInv
<1>4. t.item = ItemOf(l, t.item[l]) /\ t.item[l] \in Nat
  BY <1>2, PendingTyped DEF TaskOK
<1>5. u \in Elements(ItemTasks(t, NextIndex(t)))
  BY <1>2, <1>3, ItemTasksAre DEF BodyEdge
<1>6. u \in Pending'
  BY <1>5, ResultGains
<1>7. u.node = e.to /\ u.origin = l
  BY <1>2, BodyTaskIs
<1>8. u.item = [t.item EXCEPT ![l] = next[l]]
  BY BodyTaskItem
<1>9. u.item = ItemOf(l, next[l])
  BY <1>2, <1>3, <1>4, <1>8, ItemOfUpdate
<1> QED
  BY <1>6, <1>7, <1>9

\* A result of an item: the loop goes on or is over.
LEMMA ItemProgress ==
  ASSUME Structured(Inside), TInv, TInv', SInv, ProgressOK, ReceiveResult, ~stop, NEW l \in LoopNodes, l = Received.task.origin
  PROVE  Progress(l)'
<1> DEFINE t == Received.task
<1>1. /\ Receiving /\ ~Halting(Received) /\ broken' = broken
      /\ done' = done \union (IF EmptyLoop THEN {t.node} ELSE {}) \union (IF Ends THEN {l} ELSE {})
  BY ResultStep
<1>2. /\ t \in Task /\ t \in Pending /\ l \in Nodes /\ l # NULL /\ t.node \in Nodes /\ t.node \notin LoopNodes
      /\ t.node # l /\ l \in Starters
  BY <1>1, ReceivedShape, LoopIs DEF SInv
<1>3. ~StartsLoop(t.node, Received.out) /\ ~EmptyLoop
  BY <1>1, <1>2, LoopStarts DEF SInv, EmptyLoop
<1>4. Moves(t, ReceivedOutput)
  BY ResultMoves DEF SInv
<1>5. runs'[l] = runs[l]
  BY <1>2, <1>4, NotesIs
<1>6. HasTasks(l)' => HasBody(l)
  BY <1>4, MoveBody
<1>7. next[l] # NULL /\ next[l] \in Nat
  BY <1>2 DEF SInv, IndexOK, TInv, RestOK, Item
<1>8. (~Goes => next'[l] = next[l]) /\ (Goes => next'[l] = next[l] + 1)
  BY <1>2, ResultNext DEF SInv
<1>9. NextIndex(t) = next[l]
  BY <1>7 DEF NextIndex
<1>10. Progress(l) /\ HasTasks(l) /\ HasBody(l)
  BY <1>2, ProgressIs DEF Progress, HasTasks
<1>11. l \in done' \/ HasTasks(l)'
  <2>1. CASE Follow # <<>>
    <3>1. Follow \in Seq(Task)
      BY <1>1, FollowIs
    <3>2. PICK u : u \in Elements(Follow)
      BY <2>1, <3>1, SomeElement
    <3>3. u.origin = l /\ u \in Elements(Due)
      BY <1>1, <1>2, <1>3, <3>2, FollowHas, NextTaskIs
    <3>4. u \in Pending'
      BY <3>3, ResultGains
    <3> QED
      BY <3>3, <3>4 DEF HasTasks
  <2>2. ASSUME NEW u \in Waiting, u.origin = l PROVE HasTasks(l)'
    BY <2>2, ResultGains DEF HasTasks
  <2>3. ASSUME Follow = <<>>, ~\E u \in Waiting : u.origin = l PROVE l \in done' \/ HasTasks(l)'
    <3>1. Advances
      BY <1>2, <2>3 DEF Advances, ItemOver
    <3>2. CASE Goes
      <4>1. PICK e : BodyEdge(l, e)
        BY <1>10 DEF HasBody
      <4> QED
        BY <3>2, <4>1, GoesOn DEF HasTasks
    <3>3. CASE ~Goes /\ LoopOver(l, Waiting)
      <4>1. Ends
        BY <3>1, <3>3 DEF Goes, Ends
      <4> QED
        BY <1>1, <4>1
    <3>4. ASSUME NEW u \in Waiting, u.after = l PROVE l \in done
      <4>1. u \in Pending
        <5>1. Elements(Follow) = {} /\ Elements(Skipped) = {}
          BY <1>3, <2>3, EmptyIs DEF Skipped
        <5> QED
          BY <3>4, <5>1 DEF Waiting, Others
      <4>2. TaskOK(u) /\ u.node \in Nodes
        BY <4>1, PendingTyped DEF SInv, ShapeOK
      <4>3. u.origin = NULL /\ Inside[u.node] = NULL
        BY <1>2, <3>4, <4>2 DEF TaskOK
      <4>4. PICK e \in Elements(Edges) : e.from = l /\ e.to = u.node /\ e.when = "after"
        BY <1>2, <3>4, <4>2, <4>3 DEF TaskOK
      <4>5. u.node \notin seeds
        BY <4>4, SeedIs DEF SInv
      <4>6. Begun(u.node)
        BY <4>1, <4>3 DEF Begun
      <4> QED
        BY <4>2, <4>3, <4>4, <4>5, <4>6 DEF SInv, StartsOK
    <3> QED
      BY <1>1, <2>3, <3>2, <3>3, <3>4 DEF LoopOver
  <2> QED
    BY <2>1, <2>2, <2>3
<1>12. Counted(l)'
  <2> SUFFICES ASSUME Finite(l), l \notin broken, next'[l] # NULL
               PROVE  /\ \A e : BodyEdge(l, e) => \A i \in 0 .. next'[l] - 1 : ReachedFor(e.to, ItemOf(l, i))'
                      /\ l \in done' => next'[l] >= Size[l] \/ ~HasBody(l)
    BY <1>1 DEF Counted
  <2>1. /\ \A e : BodyEdge(l, e) => \A i \in 0 .. next[l] - 1 : ReachedFor(e.to, ItemOf(l, i))
        /\ l \in done => next[l] >= Size[l]
    BY <1>7, <1>10 DEF Progress, Counted
  <2>2. ASSUME NEW e, BodyEdge(l, e), NEW i \in 0 .. next'[l] - 1 PROVE ReachedFor(e.to, ItemOf(l, i))'
    <3>1. CASE i \in 0 .. next[l] - 1
      <4>1. ReachedFor(e.to, ItemOf(l, i))
        BY <2>1, <2>2, <3>1
      <4>2. Keeps /\ l \notin broken'
        BY <1>1, ResultKeeps
      <4> QED
        BY <2>2, <4>1, <4>2, KeptItem
    <3>2. CASE i \notin 0 .. next[l] - 1
      <4>1. Goes /\ i = next[l]
        BY <1>7, <1>8, <3>2
      <4>2. PICK u \in Pending' : u.node = e.to /\ u.origin = l /\ u.item = ItemOf(l, next[l])
        BY <2>2, <4>1, GoesOn
      <4> QED
        BY <1>2, <4>1, <4>2 DEF ReachedFor
    <3> QED
      BY <3>1, <3>2
  <2>3. Size[l] \in Nat
    BY <1>2, GraphAssumption
  <2>4. ASSUME l \in done' PROVE next'[l] >= Size[l]
    <3>1. CASE l \in done
      BY <1>7, <1>8, <2>1, <2>3, <3>1
    <3>2. CASE l \notin done
      <4>1. Ends
        BY <1>1, <1>3, <2>4, <3>2
      <4>2. next[l] >= Size[l] /\ ~Goes
        BY <1>9, <4>1 DEF Ends, Exhausted, Goes
      <4> QED
        BY <1>8, <4>2
    <3> QED
      BY <3>1, <3>2
  <2> QED
    BY <2>2, <2>4
<1>13. next'[l] # NULL
  BY <1>7, <1>8, NullIs
<1> QED
  BY <1>5, <1>6, <1>10, <1>11, <1>12, <1>13 DEF Progress, HasBody, BodyEdge

\* Progress after a result.
LEMMA ResultProgress ==
  ASSUME Complete(Inside), TInv, TInv', SInv, ProgressOK, ReceiveResult, ~stop
  PROVE  ProgressOK'
<1> DEFINE t == Received.task
<1>0. Structured(Inside)
  BY DEF Complete
<1> SUFFICES ASSUME NEW l \in LoopNodes PROVE Progress(l)'
  BY ProgressIs
<1>1. /\ Receiving /\ broken' = broken
      /\ done' = done \union (IF EmptyLoop THEN {t.node} ELSE {}) \union (IF Ends THEN {t.origin} ELSE {})
  BY ResultStep
<1>2. CASE l = t.node
  BY <1>2, StartProgress
<1>3. CASE l = t.origin
  BY <1>0, <1>3, ItemProgress
<1>4. CASE l # t.node /\ l # t.origin
  <2>1. l \in Nodes /\ Progress(l)
    BY <1>0, LoopIs, ProgressIs
  <2>2. Moves(t, ReceivedOutput)
    BY <1>0, ResultMoves DEF SInv
  <2>3. runs'[l] = runs[l] /\ (HasTasks(l)' => HasBody(l))
    BY <1>0, <1>4, <2>1, <2>2, NotesIs, MoveBody
  <2>4. HasTasks(l) => HasTasks(l)'
    BY <1>4, ResultGains DEF HasTasks, Others
  <2>5. next'[l] = next[l]
    BY <1>4, <2>1, <2>2 DEF Moves, Counts
  <2>6. l \in done' <=> l \in done
    BY <1>1, <1>4
  <2>7. Counted(l)'
    <3>1. Keeps /\ Counted(l)
      BY <1>0, <2>1, ResultKeeps DEF Progress
    <3> QED
      BY <1>0, <1>1, <2>5, <2>6, <3>1, SameCounted
  <2> QED
    BY <2>1, <2>3, <2>4, <2>5, <2>6, <2>7 DEF Progress, HasBody, BodyEdge
<1> QED
  BY <1>2, <1>3, <1>4

\* A sequence that is not empty and no longer than one entry.
LEMMA OneLong == ASSUME NEW S, NEW s \in Seq(S), s # <<>>, Len(s) <= 1 PROVE Len(s) = 1
<1>1. Len(s) \in Nat
  OBVIOUS
<1>2. Len(s) # 0
  OBVIOUS
<1> QED
  BY <1>1, <1>2

\* Steps that leave everything to do as it is.
Stays == Pending' = Pending /\ UNCHANGED <<runs, next, done, broken, seeds>>

\* A step of an execution that goes on afterwards.
LEMMA GoingStep ==
  ASSUME TInv, [Next]_vars, Going'
  PROVE  Resume \/ (Going /\ (Stays \/ DispatchSeeded \/ DispatchForEach \/ ReceiveBreak \/ ReceiveResult))
<1>1. ~stop' /\ ~halted' /\ pc' # "crashed"
  BY DEF Going
<1>2. CASE DispatchStopped \/ DispatchLimit \/ ReceiveTerminal \/ ReceiveHalt
  BY <1>1, <1>2 DEF DispatchStopped, DispatchLimit, ReceiveTerminal, ReceiveHalt, Halt
<1>3. CASE RequestStop \/ Crash
  BY <1>1, <1>3 DEF RequestStop, Crash
<1>4. CASE DispatchSeeded \/ DispatchForEach
  BY <1>1, <1>4 DEF DispatchSeeded, DispatchForEach, Dispatching, ending, Going
<1>5. CASE ReceiveBreak
  BY <1>1, <1>5 DEF ReceiveBreak, Receiving, Take, ending, Going
<1>6. CASE ReceiveResult
  <2>1. Receiving /\ Take(Received) /\ UNCHANGED ending
    BY <1>6, ResultStep
  <2> QED
    BY <1>1, <1>6, <2>1 DEF Receiving, Take, ending, Going
<1>7. CASE DispatchBlocked
  <2>1. /\ queue' = Append(Tail(queue), Head(queue)) /\ running' = running
        /\ UNCHANGED <<runs, next, done, broken, seeds, stop, halted>> /\ queue # <<>> /\ pc = "dispatch"
    BY <1>7 DEF DispatchBlocked, Dispatching, loops, resume, ending
  <2>2. Elements(queue') = Elements(queue)
    BY <2>1, ToBack DEF TInv, QueueOK
  <2> QED
    BY <1>1, <2>1, <2>2 DEF Pending, Stays, Going
<1>8. CASE DispatchStart
  <2>1. /\ queue' = Tail(queue) /\ running' = running \union {Head(queue)} /\ Dispatching
        /\ UNCHANGED <<runs, next, done, broken, seeds, stop, halted>>
    BY <1>8 DEF DispatchStart, Startable, loops, resume, ending
  <2>2. Elements(queue') = Elements(queue) \ {Head(queue)} /\ Head(queue) \in Elements(queue)
    BY <2>1, DispatchedIs
  <2> QED
    BY <1>1, <2>1, <2>2 DEF Pending, Stays, Going, Dispatching
<1>9. CASE DispatchDone
  BY <1>1, <1>9 DEF DispatchDone, Pending, Stays, Going, loops, resume, ending
<1>10. CASE UNCHANGED vars
  BY <1>1, <1>10 DEF vars, Pending, Stays, Going
<1>11. CASE NodeSteps
  <2>1. PICK w \in working : Reuse(w) \/ Finish(w) \/ Retry(w)
    BY <1>11 DEF NodeSteps
  <2>2. /\ pc = "receive"
        /\ UNCHANGED <<queue, running, runs, next, done, broken, seeds, stop, halted>>
    BY <2>1 DEF Reuse, Finish, Retry, Send, loops, resume, ending
  <2> QED
    BY <1>1, <2>2 DEF Pending, Stays, Going
<1> QED
  BY <1>2, <1>3, <1>4, <1>5, <1>6, <1>7, <1>8, <1>9, <1>10, <1>11 DEF Next, Scheduler, Over

\* Steps that do nothing keep the invariant,
LEMMA StaysOK ==
  ASSUME Structured(Inside), CalledOK, ProgressOK, FollowedOK, Stays
  PROVE  CalledOK' /\ ProgressOK' /\ FollowedOK'
<1>1. runs' = runs /\ next' = next /\ done' = done /\ broken' = broken /\ Pending' = Pending
  BY DEF Stays
<1>2. Keeps
  <2>1. \A m : Reached(m) => Reached(m)'
    BY <1>1 DEF Reached
  <2>2. \A m, x : ReachedFor(m, x) => ReachedFor(m, x)'
    BY <1>1, SameRuns DEF ReachedFor
  <2> QED
    BY <2>1, <2>2 DEF Keeps
<1> QED
  BY <1>1, <1>2, SameCalled, SameProgress, SameFollowed

\* so does a seed that is skipped,
LEMMA SeededOK ==
  ASSUME Structured(Inside), TInv, SInv, CInv, CalledOK, ProgressOK, FollowedOK, DispatchSeeded
  PROVE  CalledOK' /\ ProgressOK' /\ FollowedOK'
<1> DEFINE t == Head(queue)
<1>1. /\ Dispatching /\ Seeded(t) /\ queue' = Tail(queue) /\ running' = running
      /\ runs' = runs /\ next' = next /\ done' = done /\ broken' = broken
  BY DEF DispatchSeeded, loops
<1>2. \A u : u \in Pending' => u \in Pending
  BY <1>1, DispatchedIs DEF Pending
<1>3. \A u \in Pending : u = t \/ u \in Pending'
  BY <1>1, DispatchedIs DEF Pending
<1>4. t.origin = NULL
  BY <1>1 DEF Seeded
<1>5. Keeps
  BY SeededKeeps
<1> HIDE DEF t
<1> QED
  BY <1>1, <1>2, <1>3, <1>4, <1>5, SameCalled, SameProgress, SameFollowed

\* and a for_each node that is replaced by its items.
LEMMA ForEachOK ==
  ASSUME Complete(Inside), TInv, SInv, CalledOK, ProgressOK, FollowedOK, DispatchForEach
  PROVE  CalledOK' /\ ProgressOK' /\ FollowedOK'
<1> DEFINE t == Head(queue)
<1>0. Structured(Inside)
  BY DEF Complete
<1>1. runs' = runs /\ done' = done /\ broken' = broken /\ t.node \in ForEach
  BY DEF DispatchForEach, Expands
<1>2. Keeps /\ \A u \in Pending : u.origin # NULL => u \in Pending'
  BY ForEachKeeps
<1>3. PICK o : Moves(t, o)
  BY <1>0, ForEachMoves DEF SInv
<1>4. t.origin = NULL
  <2>1. t \in Pending /\ t \in Task /\ t.origin # t.node
    BY DispatchedIs DEF DispatchForEach, Pending, Expands
  <2> QED
    BY <1>0, <1>1, <2>1, HomeIs DEF SInv, ShapeOK, TaskOK, Task
<1>5. \A l \in LoopNodes : l # t.node /\ l # t.origin /\ l \in Nodes
  BY <1>0, <1>1, <1>4, LoopIs
<1>6. \A l \in LoopNodes : next'[l] = next[l]
  BY <1>3, <1>5 DEF Moves, Counts
<1>7. ASSUME NEW u \in Pending', u.origin \in LoopNodes PROVE u \in Pending
  <2>1. ~Succ(t, u)
    BY <1>5, <1>7 DEF Succ, NextTask
  <2>2. ~First(t, u) /\ ~NextItem(t, u)
    BY <1>4, <1>5, <1>7 DEF First, NextItem
  <2>3. ~After(u)
    BY <1>1 DEF After
  <2> QED
    BY <1>3, <1>7, <2>1, <2>2, <2>3 DEF Moves
<1> QED
  BY <1>0, <1>1, <1>2, <1>6, <1>7, SameCalled, SameProgress, SameFollowed

\* A resume finds all that the kept outputs call for.
LEMMA ResumeOK ==
  ASSUME Structured(Inside), TInv, TInv', ShapeOK, Resume
  PROVE  CalledOK' /\ ProgressOK' /\ FollowedOK' /\ \A n \in seeds' : runs'[n] # <<>>
<1>1. Restarts /\ MaxResumes > 0
  BY ResumeRestarts
<1>2. /\ queue' = Frontier(runs', seeds')
      /\ running' = {} /\ next' = [n \in Nodes |-> NULL] /\ done' = {} /\ broken' = {}
  BY DEF Resume
<1>3. runs' \in [Nodes -> Seq(Output)] /\ seeds' \in SUBSET Nodes
  BY ResumeIs DEF TInv, RecordOK
<1>4. \A n \in seeds' : runs'[n] # <<>>
  BY <1>1, <1>2, <1>3, ResumedIs
<1>5. CalledOK'
  <2> SUFFICES ASSUME NEW e \in Elements(Edges), NEW o \in Elements(runs'[e.from]), Called(e, o)'
               PROVE  IF Home(e.from) = NULL THEN Reached(e.to)' ELSE ReachedFor(e.to, o.item)'
    BY DEF CalledOK
  <2> DEFINE n == e.from
             t == RootTask(n)
  <2>1. n \in Nodes /\ e.to \in Nodes
    BY EdgeIs
  <2>2. n \in seeds'
    <3>1. runs'[n] # <<>>
      BY EmptyIs
    <3> QED
      BY <1>1, <1>2, <2>1, <3>1, ResumedIs
  <2>3. Home(n) = NULL /\ n \notin Starters /\ Len(runs'[n]) <= 1 /\ OutputOK(n, o)
    BY <1>1, <1>2, <2>1, <2>2, ResumedIs
  <2>4. o = Latest(runs', n) /\ o.item = NoItem
    <3>1. runs'[n] \in Seq(Output) /\ runs'[n] # <<>>
      BY <1>1, <1>3, <2>1, <2>2, ResumedIs
    <3>2. Len(runs'[n]) = 1
      <4> DEFINE s == runs'[n]
      <4>1. s \in Seq(Output) /\ s # <<>> /\ Len(s) <= 1
        BY <2>3, <3>1
      <4> HIDE DEF s
      <4>2. Len(s) = 1
        BY <4>1, OneLong
      <4> QED
        BY <4>2 DEF s
    <3>3. PICK i \in 1 .. Len(runs'[n]) : o = runs'[n][i]
      BY <1>2, InElements
    <3>4. i = Len(runs'[n])
      BY <3>2
    <3> QED
      BY <2>3, <3>1, <3>3, <3>4 DEF Latest, OutputOK
  <2>5. t \in Task /\ t.node = n /\ t.origin = NULL /\ t.item = NoItem
    BY <2>1, RootTaskTyped, RootTaskIs
  <2>6. ~StartsLoop(n, o.out)
    BY <2>1, <2>3 DEF StartsLoop, Starters, LoopNodes
  <2>7. EdgeMatches(e, o.out) /\ (e.to \in AwaitAll => AllInputsReady(runs', e.to, NoItem))
    BY <1>2, <2>4 DEF Called
  <2>8. Taken(runs', e, t, o.out)
    BY <2>5, <2>7 DEF Taken
  <2> HIDE DEF t
  <2>9. NextTask(e.to, t) \in Elements(Successors(runs', t, o.out))
    BY <2>5, <2>6, <2>8, SuccessorsAre
  <2>10. NextTask(e.to, t).node = e.to /\ NextTask(e.to, t).origin = NULL
    BY <2>5, NextTaskIs
  <2>11. CASE e.to \in seeds'
    BY <1>2, <1>4, <2>3, <2>11 DEF Reached
  <2>12. CASE e.to \notin seeds'
    <3>1. NextTask(e.to, t) \in Elements(queue')
      <4> DEFINE u == NextTask(e.to, t)
      <4>1. u.node \notin seeds' /\ u \in Elements(Successors(runs', RootTask(n), Latest(runs', n).out))
        BY <2>4, <2>9, <2>10, <2>12 DEF t
      <4> HIDE DEF u
      <4>2. u \in Elements(Frontier(runs', seeds'))
        BY ONLY <1>3, <2>2, <4>1, FrontierIs
      <4> QED
        BY <1>2, <4>2 DEF u
    <3> QED
      BY <2>3, <2>10, <3>1 DEF Reached, Pending
  <2> QED
    BY <2>11, <2>12
<1>6. ProgressOK'
  <2> SUFFICES ASSUME NEW l \in LoopNodes PROVE Progress(l)'
    BY ProgressIs
  <2>1. l \in Nodes /\ l # NULL /\ l \in Starters
    BY LoopIs
  <2>2. runs'[l] = <<>>
    BY <1>1, <1>2, <2>1, ResumedIs
  <2>3. ~HasTasks(l)'
    BY <1>1, <2>1, RestartPending DEF HasTasks
  <2>4. next'[l] = NULL
    BY <1>2, <2>1
  <2> QED
    BY <2>2, <2>3, <2>4, EmptyIs DEF Progress, Counted
<1>7. FollowedOK'
  BY <1>2 DEF FollowedOK
<1> QED
  BY <1>4, <1>5, <1>6, <1>7

-----------------------------------------------------------------------------
\* What was kept has run.
LEMMA StepSeeds ==
  ASSUME Structured(Inside), TInv, TInv', IInv, SInv, CInv, [Next]_vars
  PROVE  \A n \in seeds' : runs'[n] # <<>>
<1>1. \A n \in seeds : n \in Nodes /\ runs[n] # <<>>
  BY DEF CInv, TInv, RestOK
<1>2. CASE Waits \/ Crash
  BY <1>1, <1>2 DEF Waits, Idles, Crash, resume
<1>3. CASE Resume
  BY <1>3, ResumeOK DEF SInv
<1>4. ASSUME NEW t, NEW o, Moves(t, o) PROVE \A n \in seeds' : runs'[n] # <<>>
  <2>1. seeds' = seeds
    BY <1>4 DEF Moves
  <2> QED
    BY <1>1, <1>4, <2>1, NotesIs
<1> QED
  BY <1>2, <1>3, <1>4, StepKinds DEF Receives, Spreads

\* A run ends by itself when nothing is left to do.
LEMMA StepEnded ==
  ASSUME TInv, CInv, [Next]_vars, pc' = "ended", ~halted'
  PROVE  Pending' = {}
<1>1. CASE DispatchStopped \/ DispatchLimit \/ ReceiveTerminal \/ ReceiveHalt
  BY <1>1 DEF DispatchStopped, DispatchLimit, ReceiveTerminal, ReceiveHalt, Halt
<1>2. CASE RequestStop \/ Crash \/ Resume
  BY <1>2 DEF RequestStop, Crash, Resume
<1>3. CASE DispatchSeeded \/ DispatchForEach \/ DispatchBlocked \/ DispatchStart
  BY <1>3 DEF DispatchSeeded, DispatchForEach, DispatchBlocked, DispatchStart, Startable, Dispatching
<1>4. CASE ReceiveBreak \/ ReceiveResult
  BY <1>4 DEF ReceiveBreak, ReceiveResult
<1>5. CASE DispatchDone
  <2>1. queue' = <<>> /\ running' = {}
    BY <1>5 DEF DispatchDone
  <2> QED
    BY <2>1, EmptyIs DEF Pending
<1>6. CASE UNCHANGED vars
  BY <1>6 DEF vars, CInv, Pending
<1>7. CASE NodeSteps
  BY <1>7 DEF NodeSteps, Reuse, Finish, Retry, Send
<1> QED
  BY <1>1, <1>2, <1>3, <1>4, <1>5, <1>6, <1>7 DEF Next, Scheduler, Over

\* The invariant of complete workflows is kept by every step,
LEMMA StepCInv ==
  ASSUME Complete(Inside), TInv, TInv', IInv, SInv, SInv', CInv, [Next]_vars
  PROVE  CInv'
<1>0. Structured(Inside)
  BY DEF Complete
<1>1. \A n \in seeds' : runs'[n] # <<>>
  BY <1>0, StepSeeds
<1>2. pc' = "ended" /\ ~halted' => Pending' = {}
  BY StepEnded
<1>3. ASSUME Going' PROVE CalledOK' /\ ProgressOK' /\ FollowedOK'
  <2>1. CASE Resume
    BY <1>0, <2>1, ResumeOK DEF SInv
  <2>2. ASSUME Going, Stays \/ DispatchSeeded \/ DispatchForEach \/ ReceiveBreak \/ ReceiveResult
        PROVE  CalledOK' /\ ProgressOK' /\ FollowedOK'
    <3>1. CalledOK /\ ProgressOK /\ FollowedOK /\ ~stop
      BY <2>2 DEF CInv, Going
    <3>2. CASE Stays
      BY <1>0, <3>1, <3>2, StaysOK
    <3>3. CASE DispatchSeeded
      BY <1>0, <3>1, <3>3, SeededOK
    <3>4. CASE DispatchForEach
      BY <3>1, <3>4, ForEachOK
    <3>5. CASE ReceiveBreak
      BY <3>1, <3>5, BreakCalled, BreakProgress, BreakFollowed
    <3>6. CASE ReceiveResult
      BY <1>0, <3>1, <3>6, ResultCalled, ResultProgress, ResultFollowed
    <3> QED
      BY <2>2, <3>2, <3>3, <3>4, <3>5, <3>6
  <2> QED
    BY <1>3, <2>1, <2>2, GoingStep
<1> QED
  BY <1>1, <1>2, <1>3 DEF CInv

\* holds at first,
LEMMA InitCInv == ASSUME Structured(Inside), Init PROVE CInv
<1>1. /\ runs = [n \in Nodes |-> <<>>] /\ next = [n \in Nodes |-> NULL] /\ done = {} /\ seeds = {} /\ pc = "dispatch"
      /\ running = {}
  BY DEF Init
<1>2. \A n \in Nodes : runs[n] = <<>> /\ Elements(runs[n]) = {} /\ next[n] = NULL
  BY <1>1, EmptyIs
<1>3. \A u \in Pending : u.origin = NULL
  <2>1. \A u \in Pending : \E n \in Elements(Roots) : u = RootTask(n)
    BY <1>1, RootTasksAre DEF Init, Pending
  <2> QED
    BY <2>1, RootTaskIs
<1>4. CalledOK
  BY <1>2, EdgeIs DEF CalledOK
<1>5. ProgressOK
  <2> SUFFICES ASSUME NEW l \in LoopNodes PROVE Progress(l)
    BY ProgressIs
  <2>1. l \in Nodes /\ l # NULL
    BY LoopIs
  <2>2. ~HasTasks(l)
    BY <1>3, <2>1 DEF HasTasks
  <2> QED
    BY <1>2, <2>1, <2>2 DEF Progress, Counted
<1>6. FollowedOK
  BY <1>1 DEF FollowedOK
<1> QED
  BY <1>1, <1>4, <1>5, <1>6 DEF CInv

\* The invariant of complete workflows.
LEMMA CompleteInvariant == Complete(Inside) /\ Spec => []CInv
<1> DEFINE J == Complete(Inside) /\ CInv
<1>1. Complete(Inside) => Structured(Inside)
  BY DEF Complete
<1>2. Complete(Inside) /\ Init => J
  BY <1>1, InitCInv
<1>3. J /\ TInv /\ TInv' /\ IInv /\ SInv /\ SInv' /\ [Next]_vars => J'
  BY StepCInv
<1>4. J => CInv
  OBVIOUS
<1> HIDE DEF J
<1> QED
  BY <1>1, <1>2, <1>3, <1>4, TypesHold, Invariant, StructuredInvariant, PTL DEF Spec

-----------------------------------------------------------------------------
(* Nothing is left out at the end.                                         *)

\* The edges into the body of a loop.
LEMMA BodyEdgesAre == ASSUME NEW l \in Nodes, NEW e \in Elements(BodyEdges(l)) PROVE BodyEdge(l, e)
<1> DEFINE es == EdgesFrom(l)
           W == {k \in 1 .. Len(es) : es[k].when # "after"}
           ss == [k \in 1 .. Len(es) |-> If(es[k].when # "after", es[k])]
<1>1. es \in Seq(Edge) /\ Elements(es) = {g \in Elements(Edges) : g.from = l}
  BY EdgesFromIs
<1>2. BodyEdges(l) = Flat(ss)
  BY DEF BodyEdges
<1> HIDE DEF es
<1>3. Picks(Edge, W, es, ss)
  BY <1>1 DEF If, Picks
<1>4. \A k \in W : k \in 1 .. Len(es) /\ es[k].when # "after"
  OBVIOUS
<1> HIDE DEF W, ss
<1>5. Picked(Edge, W, es, Flat(ss))
  BY <1>3, Chosen
<1>6. PICK k \in 1 .. Len(es) : k \in W /\ e = es[k]
  BY <1>2, <1>5 DEF Picked
<1>7. e \in Elements(es) /\ e.when # "after"
  BY <1>4, <1>6, InElements
<1> QED
  BY <1>1, <1>7 DEF BodyEdge

\* At the end of a run nothing is missing.
LEMMA LeavesNothingOut == ASSUME Complete(Inside), TInv, SInv, CInv PROVE NothingLeftOut
<1> SUFFICES ASSUME RanOut PROVE NothingLeftOut
  BY DEF NothingLeftOut, LoopsFinish, NoneLeftOut
<1>0. Structured(Inside)
  BY DEF Complete
<1>1. Pending = {} /\ CalledOK /\ ProgressOK /\ FollowedOK
  BY DEF RanOut, CInv, Going
<1>2. \A m : Reached(m) => runs[m] # <<>>
  BY <1>1 DEF Reached
<1>3. \A m, x : ReachedFor(m, x) => HasRun(m, x)
  BY <1>1 DEF ReachedFor
<1>4. LoopsFinish
  <2> SUFFICES ASSUME NEW l \in LoopNodes, NEW v \in Elements(runs[l])
               PROVE  /\ Kind[l] = "loop" /\ l \notin broken =>
                           \A e \in Elements(BodyEdges(l)), i \in 0 .. Size[l] - 1 : RanFor(e.to, l, i)
                      /\ \A e \in Elements(EdgesFrom(l)) : e.when = "after" => runs[e.to] # <<>>
    BY DEF LoopsFinish
  <2>1. l \in Nodes /\ l \in Starters
    BY <1>0, LoopIs
  <2>2. Progress(l)
    BY <1>1, ProgressIs
  <2>3. runs[l] # <<>>
    BY EmptyIs
  <2>4. l \in done /\ next[l] # NULL
    BY <1>1, <2>2, <2>3 DEF Progress, HasTasks
  <2>5. ASSUME Kind[l] = "loop", l \notin broken, NEW e \in Elements(BodyEdges(l)), NEW i \in 0 .. Size[l] - 1
        PROVE  RanFor(e.to, l, i)
    <3>0. BodyEdge(l, e)
      BY <2>1, <2>5, BodyEdgesAre
    <3>1. BodyEdge(l, e) /\ HasBody(l)
      BY <3>0 DEF HasBody, BodyEdge
    <3>2. next[l] >= Size[l] /\ \A j \in 0 .. next[l] - 1 : ReachedFor(e.to, ItemOf(l, j))
      BY <2>2, <2>4, <2>5, <3>1 DEF Progress, Counted, Finite
    <3>3. next[l] \in Nat /\ Size[l] \in Nat
      BY <2>1, <2>4, GraphAssumption DEF TInv, RestOK, Item
    <3>4. i \in 0 .. next[l] - 1 /\ i \in Nat
      BY <3>2, <3>3
    <3>5. HasRun(e.to, ItemOf(l, i))
      BY <1>3, <3>2, <3>4
    <3>6. ItemOf(l, i)[l] = i
      BY <1>0, <2>1, <3>4, ItemOfIs
    <3> QED
      BY <3>5, <3>6 DEF HasRun, RanFor
  <2>6. ASSUME NEW e \in Elements(EdgesFrom(l)), e.when = "after" PROVE runs[e.to] # <<>>
    <3>1. e \in Elements(Edges) /\ e.from = l
      BY <2>1, <2>6, EdgesFromIs
    <3> QED
      BY <1>1, <1>2, <2>4, <2>6, <3>1 DEF FollowedOK
  <2> QED
    BY <2>5, <2>6
<1>5. NoneLeftOut
  <2> SUFFICES ASSUME NEW e \in Elements(Edges), NEW o \in Elements(runs[e.from]),
                      EdgeMatches(e, o.out), ~StartsLoop(e.from, o.out),
                      e.to \in AwaitAll => AllInputsReady(runs, e.to, o.item),
                      ~\E l \in broken : o.item[l] # NULL
               PROVE  \E v \in Elements(runs[e.to]) :
                        v.item = o.item \/ (e.to \in ForEach /\ v.item[e.to] # NULL)
    BY DEF NoneLeftOut
  <2>1. e.from \in Nodes /\ e.to \in Nodes /\ e.when # "after"
    BY <1>0, EdgeIs, AfterNeverMatches
  <2>2. e.from \notin LoopNodes
    <3>1. ASSUME e.from \in LoopNodes PROVE FALSE
      <4>1. o.out.ok
        BY <1>1, <3>1 DEF ProgressOK
      <4> QED
        BY <3>1, <4>1 DEF StartsLoop, LoopNodes
    <3> QED
      BY <3>1
  <2>3. OutputOK(e.from, o)
    BY <2>1 DEF SInv, ShapeOK
  <2>4. Home(e.from) \notin broken
    <3>1. ASSUME Home(e.from) \in broken PROVE FALSE
      <4>1. Home(e.from) # NULL
        BY <3>1, NullIs DEF TInv, RestOK
      <4>2. o.item[Home(e.from)] \in Nat
        BY <2>3, <4>1 DEF OutputOK
      <4> QED
        BY <3>1, <4>2, NullIs
    <3> QED
      BY <3>1
  <2>5. Called(e, o)
    BY <2>2, <2>4 DEF Called
  <2>6. CASE Home(e.from) # NULL
    <3>1. HasRun(e.to, o.item)
      BY <1>1, <1>3, <2>5, <2>6 DEF CalledOK
    <3> QED
      BY <3>1 DEF HasRun
  <2>7. CASE Home(e.from) = NULL
    <3>1. runs[e.to] # <<>> /\ o.item = NoItem
      BY <1>1, <1>2, <2>3, <2>5, <2>7 DEF CalledOK, OutputOK
    <3>2. PICK v : v \in Elements(runs[e.to])
      <4>1. runs[e.to] \in Seq(Output)
        BY <2>1 DEF TInv, RecordOK
      <4> QED
        BY <3>1, <4>1, SomeElement
    <3>3. OutputOK(e.to, v) /\ Inside[e.to] = NULL
      BY <1>0, <2>1, <2>2, <2>7, <3>2, HomeAlong DEF SInv, ShapeOK
    <3>4. CASE e.to \in ForEach
      <4>1. Home(e.to) = e.to /\ e.to # NULL
        BY <1>0, <2>1, <3>4, HomeIs, NullIs
      <4>2. v.item[e.to] \in Nat
        BY <3>3, <4>1 DEF OutputOK
      <4> QED
        BY <3>2, <3>4, <4>2, NullIs
    <3>5. CASE e.to \notin ForEach
      <4>1. Home(e.to) = NULL
        BY <1>0, <2>1, <3>3, <3>5, HomeIs
      <4>2. v.item = NoItem
        BY <3>3, <4>1 DEF OutputOK
      <4> QED
        BY <3>1, <3>2, <4>2
    <3> QED
      BY <3>4, <3>5
  <2> QED
    BY <2>6, <2>7
<1> QED
  BY <1>4, <1>5 DEF NothingLeftOut

\* In a complete workflow, whatever stops, kills and resumes the run, and in whatever
\* order results come in: when WorkflowExecutor.run comes to its end by itself, every
\* item of every loop that no break ended was run, what follows each loop was run, and
\* so was every node that an output called for and whose inputs were all there.  (Of an
\* output whose text a death in the middle of writing the checkpoint lost, the resumed
\* run only knows the empty output it reads instead.)
THEOREM RunsToTheEnd == Complete(Inside) /\ Spec => []NothingLeftOut
<1>1. Complete(Inside) /\ TInv /\ SInv /\ CInv => NothingLeftOut
  BY LeavesNothingOut
<1>2. Complete(Inside) => Complete(Inside)'
  OBVIOUS
<1>3. Complete(Inside) => Structured(Inside)
  BY DEF Complete
<1> QED
  BY <1>1, <1>2, <1>3, TypesHold, StructuredInvariant, CompleteInvariant, PTL
=============================================================================
