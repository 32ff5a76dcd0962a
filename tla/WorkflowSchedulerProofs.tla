---------------------- MODULE WorkflowSchedulerProofs ----------------------
(* Proofs about WorkflowScheduler for every workflow: any nodes, needs,    *)
(* routes, loops, breaks, limits and any number of resumes.                *)
(*                                                                         *)
(* IInv makes new lineages really new.  Beside it each property has an     *)
(* invariant of its own: ReuseInv for the records a resumed run takes,     *)
(* PassInv for loops that keep going, WidthInv for the width of loops,     *)
(* TypeInv for the types.                                                  *)
EXTENDS WorkflowScheduler, FiniteSetTheorems, WellFoundedInduction, TLAPS

-----------------------------------------------------------------------------
(* Group ids, finite images and the state of a loop.                       *)

Triple(l) == l = <<l[1], l[2], l[3]>>

\* An iteration's id is neither that of an initial or merged group nor Root.
LEMMA IterationShape ==
  ASSUME NEW l, NEW i, NEW x
  PROVE  Iteration(l, i) # <<x>> /\ Iteration(l, i) # Root /\ <<x>> # Root
BY DEF Iteration, Root

\* An iteration's id tells its loop and its index.
LEMMA IterationInjective ==
  ASSUME NEW l, NEW m, NEW i, NEW j, Triple(l), Triple(m), Iteration(l, i) = Iteration(m, j)
  PROVE  l = m /\ i = j
BY DEF Iteration, Triple

\* A finite set has no larger image.
LEMMA FiniteImage ==
  ASSUME NEW S, IsFiniteSet(S), NEW g
  PROVE  /\ IsFiniteSet({g[x] : x \in S})
         /\ Cardinality({g[x] : x \in S}) <= Cardinality(S)
<1> DEFINE h == [x \in S |-> g[x]]
           T == {g[x] : x \in S}
<1>1. h \in Surjection(S, T)
  BY DEF Surjection
<1> QED
  BY <1>1, FS_Surjection

\* Numbered apart, the members of a set are as many as their numbers.
LEMMA InjectiveImage ==
  ASSUME NEW S, IsFiniteSet(S), NEW g, \A x, y \in S : g[x] = g[y] => x = y
  PROVE  Cardinality({g[x] : x \in S}) = Cardinality(S)
<1> DEFINE h == [x \in S |-> g[x]]
           T == {g[x] : x \in S}
<1>1. h \in Surjection(S, T)
  BY DEF Surjection
<1>2. h \in Injection(S, T)
  BY DEF Injection, IsInjective
<1> QED
  BY <1>1, <1>2, FS_Surjection

\* The fields of a loop's state.
LoopState(s) ==
  /\ {"items", "infinite", "conc", "targets", "scope", "next", "closed", "active"} \subseteq DOMAIN s
  /\ s.items \in Nat /\ s.conc \in Nat /\ s.next \in Nat
  /\ s.targets \subseteq Nodes
  /\ IsFiniteSet(s.active)

\* Filling a loop only moves its index forward.
LEMMA FillLoop ==
  ASSUME NEW l, NEW s, LoopState(s)
  PROVE  /\ Count(s) \in Nat
         /\ LoopState(Filled(l, s))
         /\ Filled(l, s).next = s.next + Count(s)
<1>1. Cardinality(s.active) \in Nat
  BY FS_CardinalityType DEF LoopState
<1>2. Count(s) \in Nat
  BY <1>1 DEF LoopState, Count, Room, Left
<1>3. IsFiniteSet(Opened(s))
  BY <1>2, FS_Interval DEF Opened, LoopState
<1> DEFINE J == {j \in Opened(s) : s.targets # {}}
           g == [i \in J |-> Iteration(l, i)]
           N == {Iteration(l, i) : i \in J}
<1>4. IsFiniteSet(N)
  <2>1. IsFiniteSet(J)
    BY <1>3, FS_Subset
  <2>2. N = {g[i] : i \in J}
    OBVIOUS
  <2>3. IsFiniteSet({g[i] : i \in J})
    <3> HIDE DEF g, J
    <3> QED
      BY <2>1, FiniteImage
  <2> QED
    BY <2>2, <2>3
<1>5. IsFiniteSet(s.active \union N)
  BY <1>4, FS_Union DEF LoopState
<1>6. /\ DOMAIN Filled(l, s) = DOMAIN s
      /\ Filled(l, s).items = s.items
      /\ Filled(l, s).conc = s.conc
      /\ Filled(l, s).targets = s.targets
      /\ Filled(l, s).next = s.next + Count(s)
      /\ Filled(l, s).active = s.active \union N
  BY DEF Filled, LoopState
<1> QED
  BY <1>2, <1>5, <1>6 DEF LoopState

-----------------------------------------------------------------------------
(* The inductive invariant.                                                *)

\* A scope is that of an initial or merged group in the root lineage, or of an
\* iteration that its loop has opened, where group and lineage are the same.
ScopeOK(s, ls) ==
  /\ {"group", "lineage"} \subseteq DOMAIN s
  /\ \/ s.lineage = Root /\ s.group = <<s.group[1]>>
     \/ \E l \in DOMAIN ls : \E i \in Nat :
          i < ls[l].next /\ s.lineage = Iteration(l, i) /\ s.group = s.lineage

Placed ==
  /\ \A a \in pending \union running : a.node \in Nodes /\ ScopeOK(a.scope, loops)
  /\ hand # NULL \/ pc = "routes" =>
       hand.act.node \in Nodes /\ ScopeOK(hand.act.scope, loops)

Finite == IsFiniteSet(pending) /\ IsFiniteSet(running) /\ runCounts \in [Nodes -> Nat]

LoopsOK ==
  \A l \in DOMAIN loops :
    /\ Triple(l) /\ LoopState(loops[l])
    /\ l[2] \in Nodes /\ l[3] \in Nat /\ l[3] <= runCounts[l[2]]

\* A run number is used once, so no two runs of a loop node share a lineage.
Numbered ==
  /\ \A a \in running :
       /\ a.run \in Nat /\ a.run <= runCounts[a.node]
       /\ \A l \in DOMAIN loops : l[2] = a.node => l[3] # a.run
  /\ \A a, b \in running : a.node = b.node /\ a.run = b.run => a = b

IInv == Placed /\ Finite /\ LoopsOK /\ Numbered /\ Readiness /\ Coalesced /\ ConcurrencyBound

\* Scopes stay well placed while loops are added and move forward.
LEMMA ScopeGrows ==
  ASSUME NEW s, NEW ls, NEW ms, ScopeOK(s, ls),
         \A l \in DOMAIN ls : l \in DOMAIN ms /\ ls[l].next \in Nat /\ ms[l].next \in Nat
                               /\ ls[l].next <= ms[l].next
  PROVE  ScopeOK(s, ms)
BY DEF ScopeOK

\* Setting up new iterations keeps what every other lineage has satisfied.
LEMMA InheritedKeeps ==
  ASSUME NEW ls, NEW sat, NEW x, NEW m, <<x, m>> \in sat,
         \A l \in DOMAIN ls : \A i \in Opened(ls[l]) : Iteration(l, i) # x
  PROVE  <<x, m>> \in Inherited(ls, sat)
BY DEF Inherited, NewIterations

\* Two offers for one node in one group are the same offer.
LEMMA BodyOffersDistinct ==
  ASSUME NEW ls, \A l \in DOMAIN ls : Triple(l),
         NEW o \in BodyOffers(ls), NEW p \in BodyOffers(ls), SameGroup(o, p)
  PROVE  o = p
<1>1. PICK l \in DOMAIN ls : \E t \in ls[l].targets, i \in Opened(ls[l]) :
        o = [node |-> t, scope |-> IterationScope(l, ls[l].scope, i)]
  BY DEF BodyOffers
<1>2. PICK m \in DOMAIN ls : \E u \in ls[m].targets, j \in Opened(ls[m]) :
        p = [node |-> u, scope |-> IterationScope(m, ls[m].scope, j)]
  BY DEF BodyOffers
<1>3. PICK t, i : o = [node |-> t, scope |-> IterationScope(l, ls[l].scope, i)]
  BY <1>1
<1>4. PICK u, j : p = [node |-> u, scope |-> IterationScope(m, ls[m].scope, j)]
  BY <1>2
<1>5. t = u /\ Iteration(l, i) = Iteration(m, j)
  BY <1>3, <1>4 DEF SameGroup, IterationScope
<1>6. l = m /\ i = j
  BY <1>5, IterationInjective
<1> QED
  BY <1>3, <1>4, <1>5, <1>6

\* What a handler queues is a finite set of activations for its fresh offers.
LEMMA Queueing ==
  ASSUME NEW offers, NEW k, NEW f \in Numberings(offers, k)
  PROVE  /\ IsFiniteSet(offers)
         /\ IsFiniteSet(Queued(offers, f))
         /\ \A q \in Queued(offers, f) : \E o \in offers : q.node = o.node /\ q.scope = o.scope
         /\ \A q, r \in Queued(offers, f) :
              q = r \/ \E o, p \in offers : o # p /\ q.node = o.node /\ q.scope = o.scope
                                            /\ r.node = p.node /\ r.scope = p.scope
<1>1. IsFiniteSet(offers)
  BY DEF Numberings
<1> DEFINE g == [o \in offers |-> [node |-> o.node, scope |-> o.scope, seq |-> f[o], slot |-> f[o]]]
<1>2. Queued(offers, f) = {g[o] : o \in offers}
  BY DEF Queued
<1>3. IsFiniteSet({g[o] : o \in offers})
  <2> HIDE DEF g
  <2> QED
    BY <1>1, FiniteImage
<1>4. \A q \in Queued(offers, f) : \E o \in offers :
        q = [node |-> o.node, scope |-> o.scope, seq |-> f[o], slot |-> f[o]]
  BY DEF Queued
<1> QED
  BY <1>1, <1>2, <1>3, <1>4

-----------------------------------------------------------------------------
(* Filling loops: what Settle and OpenLoop have in common.                 *)

Grows(ls) ==
  /\ Enqueue(BodyOffers(ls))
  /\ \A l \in DOMAIN ls :
       /\ Triple(l) /\ LoopState(ls[l])
       /\ l \in DOMAIN loops' /\ loops'[l] = Filled(l, ls[l])
       /\ l \in DOMAIN loops => ls[l].next = loops[l].next
  /\ \A l \in DOMAIN loops :
       /\ l \in DOMAIN loops' /\ loops'[l].next \in Nat /\ loops[l].next <= loops'[l].next
  /\ running' \subseteq running

\* What a loop body is offered is a node in an iteration the loop has opened.
LEMMA BodyOffersPlaced ==
  ASSUME NEW ls, Grows(ls), NEW o \in BodyOffers(ls)
  PROVE  o.node \in Nodes /\ ScopeOK(o.scope, loops')
<1>1. PICK l \in DOMAIN ls : \E t \in ls[l].targets, i \in Opened(ls[l]) :
        o = [node |-> t, scope |-> IterationScope(l, ls[l].scope, i)]
  BY DEF BodyOffers
<1>2. PICK t \in ls[l].targets, i \in Opened(ls[l]) :
        o = [node |-> t, scope |-> IterationScope(l, ls[l].scope, i)]
  BY <1>1
<1>3. LoopState(ls[l]) /\ l \in DOMAIN loops' /\ loops'[l] = Filled(l, ls[l])
  BY DEF Grows
<1>4. t \in Nodes
  BY <1>3 DEF LoopState
<1>5. i \in Nat /\ i < loops'[l].next
  BY <1>3, FillLoop DEF Opened, LoopState
<1>6. /\ o.scope.lineage = Iteration(l, i) /\ o.scope.group = Iteration(l, i)
      /\ {"group", "lineage"} \subseteq DOMAIN o.scope
  BY <1>2 DEF IterationScope
<1> QED
  BY <1>2, <1>3, <1>4, <1>5, <1>6 DEF ScopeOK

\* New iterations leave every activation in a scope of its own, and no group at
\* a node twice.
LEMMA GrowsPlaced ==
  ASSUME IInv, NEW ls, Grows(ls)
  PROVE  /\ \A a \in pending' \union running' : a.node \in Nodes /\ ScopeOK(a.scope, loops')
         /\ \A s : ScopeOK(s, loops) => ScopeOK(s, loops')
         /\ IsFiniteSet(pending')
         /\ Coalesced'
<1> DEFINE offers == Fresh(BodyOffers(ls))
<1>1. PICK f \in Numberings(offers, sequence) : pending' = pending \union Queued(offers, f)
  BY DEF Grows, Enqueue
<1>2. \A l \in DOMAIN loops : loops[l].next \in Nat
  BY DEF IInv, LoopsOK, LoopState
<1>3. \A s : ScopeOK(s, loops) => ScopeOK(s, loops')
  BY <1>2, ScopeGrows DEF Grows
<1>4. \A o \in offers : o \in BodyOffers(ls)
  BY DEF Fresh
<1>5. \A o \in offers : o.node \in Nodes /\ ScopeOK(o.scope, loops')
  BY <1>4, BodyOffersPlaced
<1>6. \A o, p \in offers : SameGroup(o, p) => o = p
  BY <1>4, BodyOffersDistinct DEF Grows
<1>7. \A o \in offers : \A a \in pending \union running : ~SameGroup(o, a)
  BY DEF Fresh, SameGroup
<1> DEFINE Q == Queued(offers, f)
<1>8. /\ IsFiniteSet(Q)
      /\ \A q \in Q : \E o \in offers : q.node = o.node /\ q.scope = o.scope
      /\ \A q, r \in Q :
           q = r \/ \E o, p \in offers : o # p /\ q.node = o.node /\ q.scope = o.scope
                                         /\ r.node = p.node /\ r.scope = p.scope
  <2> HIDE DEF offers
  <2> QED
    BY Queueing
<1> HIDE DEF offers, Q
<1>9. \A a \in pending' \union running' : a.node \in Nodes /\ ScopeOK(a.scope, loops')
  <2>1. \A q \in Q : q.node \in Nodes /\ ScopeOK(q.scope, loops')
    BY <1>5, <1>8
  <2>2. \A a \in pending \union running : a.node \in Nodes /\ ScopeOK(a.scope, loops')
    BY <1>3 DEF IInv, Placed
  <2> QED
    BY <1>1, <2>1, <2>2 DEF Grows, Q
<1>10. IsFiniteSet(pending')
  BY <1>1, <1>8, FS_Union DEF IInv, Finite, Q
<1>11. Coalesced'
  <2>1. \A q \in Q : \A a \in pending \union running : ~SameGroup(q, a)
    BY <1>7, <1>8 DEF SameGroup
  <2>2. \A q, r \in Q : SameGroup(q, r) => q = r
    BY <1>6, <1>8 DEF SameGroup
  <2>3. pending' = pending \union Q
    BY <1>1 DEF Q
  <2>4. \A q, a : SameGroup(q, a) <=> SameGroup(a, q)
    BY DEF SameGroup
  <2> QED
    BY <2>1, <2>2, <2>3, <2>4 DEF Grows, IInv, Coalesced
<1> QED
  BY <1>3, <1>9, <1>10, <1>11

\* No activation waits or runs in an iteration that is only now opened.
LEMMA NewIteration ==
  ASSUME IInv, NEW ls, Grows(ls), NEW a \in pending \union running,
         NEW l \in DOMAIN ls, NEW i \in Opened(ls[l])
  PROVE  Iteration(l, i) # a.scope.lineage
<1>1. SUFFICES ASSUME Iteration(l, i) = a.scope.lineage PROVE FALSE
  OBVIOUS
<1>2. PICK k \in DOMAIN loops : \E j \in Nat :
        j < loops[k].next /\ a.scope.lineage = Iteration(k, j)
  BY <1>1, IterationShape DEF IInv, Placed, ScopeOK
<1>3. PICK j \in Nat : j < loops[k].next /\ a.scope.lineage = Iteration(k, j)
  BY <1>2
<1>4. l = k /\ i = j
  BY <1>1, <1>3, IterationInjective DEF Grows, IInv, LoopsOK
<1>5. ls[l].next = loops[l].next /\ LoopState(ls[l])
  BY <1>4 DEF Grows
<1>6. i >= ls[l].next
  BY <1>5, FillLoop DEF Opened, LoopState
<1> QED
  BY <1>3, <1>4, <1>5, <1>6 DEF LoopState

\* So what a running node needs stays satisfied.
LEMMA GrowsReadiness ==
  ASSUME IInv, NEW ls, Grows(ls), NEW sat, satisfied \subseteq sat,
         satisfied' = Inherited(ls, sat)
  PROVE  Readiness'
<1> SUFFICES ASSUME NEW a \in running', NEW m \in Needs[a.node]
             PROVE  <<a.scope.lineage, m>> \in Inherited(ls, sat)
  BY DEF Readiness, IsUnlocked, LineageIsUnlocked
<1>1. a \in running /\ <<a.scope.lineage, m>> \in sat
  BY DEF Grows, IInv, Readiness, IsUnlocked, LineageIsUnlocked
<1>2. \A l \in DOMAIN ls : \A i \in Opened(ls[l]) : Iteration(l, i) # a.scope.lineage
  BY <1>1, NewIteration
<1> QED
  BY <1>1, <1>2, InheritedKeeps

-----------------------------------------------------------------------------
(* The steps of the scheduler, one lemma per kind of step.                 *)

\* Where nothing starts, no node gets more to run.
LEMMA NothingStarts ==
  ASSUME IInv, running' \subseteq running
  PROVE  IsFiniteSet(running') /\ ConcurrencyBound'
<1>1. IsFiniteSet(running')
  BY FS_Subset DEF IInv, Finite
<1>2. ASSUME NEW n \in Nodes
      PROVE  Cardinality(Of(running', n)) <= MaxConcurrency[n]
  <2>1. Of(running', n) \in SUBSET Of(running, n) /\ Of(running, n) \in SUBSET running
    BY DEF Of
  <2>2. IsFiniteSet(Of(running, n))
    BY <2>1, FS_Subset DEF IInv, Finite
  <2>3. /\ Cardinality(Of(running', n)) <= Cardinality(Of(running, n))
        /\ Cardinality(Of(running', n)) \in Nat /\ Cardinality(Of(running, n)) \in Nat
    BY <2>1, <2>2, FS_Subset, FS_CardinalityType
  <2>4. Cardinality(Of(running, n)) <= MaxConcurrency[n]
    BY DEF IInv, ConcurrencyBound
  <2>5. MaxConcurrency[n] \in Nat
    BY ConcurrencyAssumption
  <2> QED
    BY <2>3, <2>4, <2>5
<1> QED
  BY <1>1, <1>2 DEF ConcurrencyBound

\* Steps that only take activations away.
LEMMA ShrinkInv ==
  ASSUME IInv, pending' \subseteq pending, running' \subseteq running,
         satisfied' = satisfied, runCounts' = runCounts, DOMAIN loops' = DOMAIN loops,
         \A l \in DOMAIN loops : LoopState(loops'[l]) /\ loops'[l].next = loops[l].next,
         hand' # NULL \/ pc' = "routes" =>
           hand'.act.node \in Nodes /\ ScopeOK(hand'.act.scope, loops)
  PROVE  IInv'
<1>1. \A s : ScopeOK(s, loops) => ScopeOK(s, loops')
  BY DEF ScopeOK
<1>2. Placed'
  BY <1>1 DEF IInv, Placed
<1>3. Finite' /\ ConcurrencyBound'
  BY NothingStarts, FS_Subset DEF IInv, Finite
<1>4. LoopsOK'
  BY DEF IInv, LoopsOK
<1>5. Numbered'
  BY DEF IInv, Numbered
<1>6. Readiness'
  BY DEF IInv, Readiness, IsUnlocked, LineageIsUnlocked
<1>7. Coalesced'
  BY DEF IInv, Coalesced
<1> QED
  BY <1>2, <1>3, <1>4, <1>5, <1>6, <1>7 DEF IInv

\* The loops without their idle iterations.
Settled == [l \in DOMAIN loops |-> [loops[l] EXCEPT !.active = {g \in @ : Live(g)}]]

\* Settling drops idle iterations and opens the next ones of every loop.
LEMMA SettleGrows ==
  ASSUME IInv, Settle
  PROVE  /\ Grows(Settled)
         /\ DOMAIN Settled = DOMAIN loops /\ DOMAIN loops' = DOMAIN loops
         /\ \A l \in DOMAIN loops :
              /\ LoopState(Settled[l]) /\ Settled[l].next = loops[l].next
              /\ LoopState(loops'[l]) /\ loops'[l] = Filled(l, Settled[l])
         /\ satisfied' = Inherited(Settled, satisfied)
         /\ dirty' = InheritedDirt(Settled, dirty)
<1> DEFINE ls == Settled
<1>1. ASSUME NEW l \in DOMAIN loops
      PROVE  LoopState(ls[l]) /\ ls[l].next = loops[l].next
  <2>1. LoopState(loops[l])
    BY DEF IInv, LoopsOK
  <2>2. IsFiniteSet({g \in loops[l].active : Live(g)})
    BY <2>1, FS_Subset DEF LoopState
  <2> QED
    BY <2>1, <2>2 DEF LoopState, Settled
<1>2. DOMAIN loops' = DOMAIN loops /\ \A l \in DOMAIN loops : loops'[l] = Filled(l, ls[l])
  BY DEF Settle, Settled
<1>3. DOMAIN ls = DOMAIN loops
  BY DEF Settled
<1>4. /\ Enqueue(BodyOffers(ls)) /\ satisfied' = Inherited(ls, satisfied)
      /\ dirty' = InheritedDirt(ls, dirty) /\ running' = running
  BY DEF Settle, Settled
<1> HIDE DEF ls
<1>5. \A l \in DOMAIN loops :
        LoopState(loops'[l]) /\ loops'[l].next = loops[l].next + Count(ls[l]) /\ Count(ls[l]) \in Nat
  BY <1>1, <1>2, FillLoop
<1>6. \A l \in DOMAIN loops : loops[l].next \in Nat /\ Triple(l)
  BY DEF IInv, LoopsOK, LoopState
<1>7. Grows(ls)
  BY <1>1, <1>2, <1>3, <1>4, <1>5, <1>6 DEF Grows
<1> QED
  BY <1>1, <1>2, <1>3, <1>4, <1>5, <1>7 DEF ls

LEMMA SettleInv == ASSUME IInv, Settle PROVE IInv'
<1> DEFINE ls == Settled
<1>1. /\ Grows(ls) /\ DOMAIN loops' = DOMAIN loops
      /\ \A l \in DOMAIN loops : LoopState(loops'[l])
      /\ satisfied' = Inherited(ls, satisfied)
  BY SettleGrows
<1>2. /\ running' = running /\ runCounts' = runCounts /\ hand' = hand
      /\ pc' = "routes" => hand # NULL
  BY DEF Settle, budgetVars
<1> HIDE DEF ls
<1>3. Placed'
  BY <1>1, <1>2, GrowsPlaced DEF IInv, Placed
<1>4. Finite' /\ ConcurrencyBound'
  BY <1>1, <1>2, GrowsPlaced, NothingStarts DEF IInv, Finite
<1>5. LoopsOK'
  BY <1>1, <1>2 DEF IInv, LoopsOK
<1>6. Numbered'
  BY <1>1, <1>2 DEF IInv, Numbered
<1>7. Readiness'
  BY <1>1, <1>2, GrowsReadiness
<1>8. Coalesced'
  BY <1>1, GrowsPlaced
<1> QED
  BY <1>3, <1>4, <1>5, <1>6, <1>7, <1>8 DEF IInv

\* The one loop that the completion of a loop node opens.
Lineage(a) == LoopLineage(a.scope.group, a.node, a.run)
Opening(a, outcome, chosen) == [m \in {Lineage(a)} |-> OpenState(a, outcome, chosen)]

\* The lineage a run of a loop node opens is new.
LEMMA OpenLoopGrows ==
  ASSUME IInv, NEW a \in running, NEW outcome, NEW chosen, NEW soiled,
         OpenLoop(a, outcome, chosen, soiled), running' = running \ {a}
  PROVE  /\ Grows(Opening(a, outcome, chosen))
         /\ Triple(Lineage(a)) /\ Lineage(a)[2] = a.node /\ Lineage(a)[3] = a.run
         /\ Lineage(a) \notin DOMAIN loops /\ DOMAIN loops' = DOMAIN loops \union {Lineage(a)}
         /\ \A m \in DOMAIN loops : loops'[m] = loops[m]
         /\ LoopState(OpenState(a, outcome, chosen)) /\ LoopState(loops'[Lineage(a)])
         /\ loops'[Lineage(a)] = Filled(Lineage(a), OpenState(a, outcome, chosen))
         /\ satisfied' = Inherited(Opening(a, outcome, chosen),
                                   satisfied \union {<<a.scope.lineage, a.node>>})
         /\ dirty' = InheritedDirt(Opening(a, outcome, chosen), soiled)
<1> DEFINE l == Lineage(a)
           state == OpenState(a, outcome, chosen)
           ls == Opening(a, outcome, chosen)
<1>1. Triple(l) /\ l[2] = a.node /\ l[3] = a.run
  BY DEF LoopLineage, Triple, Lineage
<1>2. l \notin DOMAIN loops
  BY <1>1 DEF IInv, Numbered
<1>3. a.node \in Nodes
  BY DEF IInv, Placed
<1>4. LoopState(state)
  <2>1. a.node \in Loops
    BY DEF OpenLoop
  <2>2. Source[a.node].items \in Nat /\ Source[a.node].conc \in Nat
    BY <2>1, LoopsAssumption
  <2>3. Targets(a.node, chosen) \subseteq Nodes
    BY <1>3, RoutesAssumption DEF Targets, MatchingRoutes
  <2> QED
    BY <2>2, <2>3, FS_EmptySet DEF OpenState, LoopState
<1>5. /\ DOMAIN loops' = DOMAIN loops \union {l}
      /\ \A m \in DOMAIN loops : loops'[m] = loops[m]
      /\ loops'[l] = Filled(l, state)
  BY <1>2 DEF OpenLoop, Lineage
<1>6. /\ Enqueue(BodyOffers(ls)) /\ dirty' = InheritedDirt(ls, soiled)
      /\ satisfied' = Inherited(ls, satisfied \union {<<a.scope.lineage, a.node>>})
  BY DEF OpenLoop, Opening, Lineage
<1>7. DOMAIN ls = {l} /\ ls[l] = state
  BY DEF Opening
<1> HIDE DEF l, state, ls
<1>8. LoopState(loops'[l])
  BY <1>4, <1>5, FillLoop
<1>9. \A m \in DOMAIN loops : loops[m].next \in Nat /\ LoopState(loops[m])
  BY DEF IInv, LoopsOK, LoopState
<1>10. Grows(ls)
  BY <1>1, <1>2, <1>4, <1>5, <1>6, <1>7, <1>9 DEF Grows
<1> QED
  BY <1>1, <1>2, <1>4, <1>5, <1>6, <1>8, <1>10 DEF l, state, ls

LEMMA OpenLoopInv ==
  ASSUME IInv, NEW a \in running, NEW outcome, NEW chosen, NEW soiled,
         OpenLoop(a, outcome, chosen, soiled), running' = running \ {a}, runCounts' = runCounts
  PROVE  IInv'
<1> DEFINE l == Lineage(a)
           ls == Opening(a, outcome, chosen)
           sat == satisfied \union {<<a.scope.lineage, a.node>>}
<1>1. /\ Grows(ls) /\ Triple(l) /\ l[2] = a.node /\ l[3] = a.run
      /\ DOMAIN loops' = DOMAIN loops \union {l} /\ \A m \in DOMAIN loops : loops'[m] = loops[m]
      /\ LoopState(loops'[l]) /\ satisfied' = Inherited(ls, sat)
  BY OpenLoopGrows
<1>2. a.node \in Nodes /\ ScopeOK(a.scope, loops) /\ a.run \in Nat /\ a.run <= runCounts[a.node]
  BY DEF IInv, Placed, Numbered
<1>3. /\ pc' # "routes"
      /\ hand' = IF Finish[a.node] = NULL THEN NULL ELSE [act |-> a, chosen |-> chosen]
  BY DEF OpenLoop
<1> HIDE DEF l, ls, sat
<1>4. Placed'
  <2>1. hand' # NULL => hand'.act = a
    BY <1>3
  <2> QED
    BY <1>1, <1>2, <1>3, <2>1, GrowsPlaced DEF Placed
<1>5. Finite' /\ ConcurrencyBound'
  BY <1>1, GrowsPlaced, NothingStarts DEF IInv, Finite
<1>6. LoopsOK'
  BY <1>1, <1>2 DEF IInv, LoopsOK
<1>7. Numbered'
  BY <1>1 DEF IInv, Numbered
<1>8. Readiness'
  BY <1>1, GrowsReadiness DEF sat
<1>9. Coalesced'
  BY <1>1, GrowsPlaced
<1> QED
  BY <1>4, <1>5, <1>6, <1>7, <1>8, <1>9 DEF IInv

\* What waits at a node in the lineage of the completion, the nodes whose signals
\* are merged, and the queue after that.
WaitingIn(queued, t) == {p \in queued : p.node = t /\ p.scope.lineage = hand.act.scope.lineage}
MergingIn(queued) ==
  LET lin == hand.act.scope.lineage IN
  {t \in Nodes : /\ Unlocks(t, lin, satisfied, satisfied \union {<<lin, hand.act.node>>})
                 /\ Cardinality(WaitingIn(queued, t)) > 1}
Joined(queued, k) ==
  (queued \ UNION {WaitingIn(queued, t) : t \in MergingIn(queued)})
    \union {Merge(WaitingIn(queued, t), k) : t \in MergingIn(queued)}

\* The queue before the merging: what was pending, and the routes' targets.
QueueOK(queued) ==
  /\ IsFiniteSet(queued)
  /\ \A q \in queued : /\ q \in pending \/ (q.scope = hand.act.scope /\ Routes[hand.act.node] # {})
                       /\ q.node \in Nodes /\ ScopeOK(q.scope, loops)
  /\ \A q, r \in queued : SameGroup(q, r) => q = r
  /\ \A q \in queued, b \in running : ~SameGroup(q, b)

LEMMA EmitQueue ==
  ASSUME IInv, Emit
  PROVE  \E queued, k : QueueOK(queued) /\ pending' = Joined(queued, k)
<1> DEFINE a == hand.act
           offers == Fresh({[node |-> t, scope |-> a.scope] : t \in Targets(a.node, hand.chosen)})
<1>1. a.node \in Nodes /\ ScopeOK(a.scope, loops)
  BY DEF IInv, Placed, Emit
<1>2. PICK f \in Numberings(offers, sequence) :
        pending' = Joined(pending \union Queued(offers, f), sequence + Cardinality(offers) + 1)
  BY DEF Emit, Joined, MergingIn, WaitingIn
<1> DEFINE Q == Queued(offers, f)
           queued == pending \union Q
<1>3. \A o \in offers :
        /\ o.node \in Nodes /\ o.scope = a.scope /\ o = [node |-> o.node, scope |-> a.scope]
        /\ \A b \in pending \union running : ~SameGroup(o, b)
  BY <1>1, RoutesAssumption DEF Fresh, Targets, MatchingRoutes, SameGroup
<1>4. /\ IsFiniteSet(Q)
      /\ \A q \in Q : \E o \in offers : q.node = o.node /\ q.scope = o.scope
      /\ \A q, r \in Q :
           q = r \/ \E o, p \in offers : o # p /\ q.node = o.node /\ q.scope = o.scope
                                         /\ r.node = p.node /\ r.scope = p.scope
  <2> HIDE DEF offers
  <2> QED
    BY Queueing
<1>5. pending' = Joined(queued, sequence + Cardinality(offers) + 1)
  BY <1>2
<1> HIDE DEF offers, Q
<1>6. \A q \in queued : q.node \in Nodes /\ ScopeOK(q.scope, loops)
  BY <1>1, <1>3, <1>4 DEF IInv, Placed
<1>7. IsFiniteSet(queued)
  BY <1>4, FS_Union DEF IInv, Finite
<1>8. /\ \A q, r \in queued : SameGroup(q, r) => q = r
      /\ \A q \in queued, b \in running : ~SameGroup(q, b)
  <2>1. \A q, b : SameGroup(q, b) <=> SameGroup(b, q)
    BY DEF SameGroup
  <2>2. \A q \in Q, b \in pending \union running : ~SameGroup(q, b)
    BY <1>3, <1>4 DEF SameGroup
  <2>3. \A q, r \in Q : SameGroup(q, r) => q = r
    BY <1>3, <1>4 DEF SameGroup
  <2> QED
    BY <2>1, <2>2, <2>3 DEF IInv, Coalesced
<1>9. \A q \in queued : q \in pending \/ (q.scope = hand.act.scope /\ Routes[hand.act.node] # {})
  <2>1. \A o \in offers : Routes[hand.act.node] # {}
    BY DEF offers, Fresh, Targets, MatchingRoutes
  <2> QED
    BY <1>3, <1>4, <2>1
<1> QED
  BY <1>5, <1>6, <1>7, <1>8, <1>9 DEF QueueOK

\* Only in the root lineage do several groups wait at one node.
LEMMA MergeShape ==
  ASSUME NEW queued, QueueOK(queued), NEW k, NEW t \in MergingIn(queued)
  PROVE  /\ hand.act.scope.lineage = Root
         /\ Merge(WaitingIn(queued, t), k).node = t
         /\ Merge(WaitingIn(queued, t), k).scope.lineage = Root
         /\ Merge(WaitingIn(queued, t), k).scope.group = <<Groups(WaitingIn(queued, t))>>
         /\ {"group", "lineage"} \subseteq DOMAIN Merge(WaitingIn(queued, t), k).scope
<1> DEFINE W == WaitingIn(queued, t)
<1>1. IsFiniteSet(W) /\ Cardinality(W) > 1
  BY FS_Subset DEF QueueOK, WaitingIn, MergingIn
<1>2. \A p \in W : p \in queued /\ p.node = t /\ p.scope.lineage = hand.act.scope.lineage
  BY DEF WaitingIn
<1> HIDE DEF W
<1>3. PICK p \in W, q \in W : p # q
  <2>1. W # {}
    BY <1>1, FS_EmptySet
  <2>2. PICK p : p \in W
    BY <2>1
  <2>3. W # {p}
    BY <1>1, FS_Singleton
  <2> QED
    BY <2>2, <2>3
<1>4. hand.act.scope.lineage = Root
  BY <1>2, <1>3 DEF QueueOK, ScopeOK, SameGroup
<1> DEFINE first == CHOOSE p1 \in W : TRUE
<1>5. first \in W
  BY <1>3
<1>6. /\ Merge(W, k).node = first.node
      /\ Merge(W, k).scope = [first.scope EXCEPT !.group = Merged(Groups(W))]
  BY DEF Merge
<1>7. first.node = t /\ first.scope.lineage = Root /\ {"group", "lineage"} \subseteq DOMAIN first.scope
  BY <1>2, <1>4, <1>5 DEF QueueOK, ScopeOK
<1> QED
  BY <1>4, <1>6, <1>7 DEF Merged, W

\* Merging never makes an activation that waits or runs already: nothing runs at
\* a node while it is locked.
LEMMA EmitInv == ASSUME IInv, Emit PROVE IInv'
<1> DEFINE a == hand.act
           lin == a.scope.lineage
           sat == satisfied \union {<<lin, a.node>>}
<1>1. /\ running' = running /\ loops' = loops /\ runCounts' = runCounts
      /\ satisfied' = sat /\ hand' = NULL /\ pc' = "settle"
  BY DEF Emit, budgetVars
<1>2. PICK queued, k : QueueOK(queued) /\ pending' = Joined(queued, k)
  BY EmitQueue
<1> DEFINE Waiting(t) == WaitingIn(queued, t)
           merging == MergingIn(queued)
<1>3. \A q \in queued : q.node \in Nodes /\ ScopeOK(q.scope, loops)
  BY <1>2 DEF QueueOK
<1>4. IsFiniteSet(queued)
  BY <1>2 DEF QueueOK
<1>5. /\ \A q, r \in queued : SameGroup(q, r) => q = r
      /\ \A q \in queued, b \in running : ~SameGroup(q, b)
  BY <1>2 DEF QueueOK
<1>6. pending' = (queued \ UNION {Waiting(t) : t \in merging})
                   \union {Merge(Waiting(t), k) : t \in merging}
  BY <1>2 DEF Joined
<1>7. ASSUME NEW t \in merging
       PROVE  /\ lin = Root
              /\ Merge(Waiting(t), k).node = t
              /\ Merge(Waiting(t), k).scope.lineage = Root
              /\ Merge(Waiting(t), k).scope.group = <<Groups(Waiting(t))>>
              /\ {"group", "lineage"} \subseteq DOMAIN Merge(Waiting(t), k).scope
  BY <1>2, MergeShape
<1>8. ASSUME NEW t \in merging, NEW q \in queued \union running, SameGroup(Merge(Waiting(t), k), q)
       PROVE  q \in Waiting(t)
  <2>1. q.node = t /\ q.scope.group = <<Groups(Waiting(t))>>
    BY <1>7, <1>8 DEF SameGroup
  <2>2. ScopeOK(q.scope, loops)
    BY <1>3 DEF IInv, Placed
  <2>3. q.scope.lineage = Root
    BY <2>1, <2>2, IterationShape DEF ScopeOK
  <2>4. q \notin running
    BY <1>7, <2>1, <2>3 DEF IInv, Readiness, IsUnlocked, Unlocks, MergingIn
  <2> QED
    BY <1>7, <2>1, <2>3, <2>4 DEF WaitingIn
<1> HIDE DEF Waiting, merging, lin
<1>9. Placed'
  <2>1. \A t \in merging : t \in Nodes
    BY DEF merging, MergingIn
  <2>2. \A t \in merging : ScopeOK(Merge(Waiting(t), k).scope, loops)
    BY <1>7 DEF ScopeOK
  <2> QED
    BY <1>1, <1>3, <1>6, <1>7, <2>1, <2>2 DEF IInv, Placed
<1>10. Finite'
  <2> DEFINE g == [t \in merging |-> Merge(Waiting(t), k)]
  <2>1. IsFiniteSet(merging)
    BY NodesAssumption, FS_Subset DEF merging, MergingIn
  <2>2. IsFiniteSet({g[t] : t \in merging})
    <3> HIDE DEF g
    <3> QED
      BY <2>1, FiniteImage
  <2>3. {g[t] : t \in merging} = {Merge(Waiting(t), k) : t \in merging}
    OBVIOUS
  <2>4. IsFiniteSet(queued \ UNION {Waiting(t) : t \in merging})
    BY <1>4, FS_Difference
  <2>5. IsFiniteSet(pending')
    BY <1>6, <2>2, <2>3, <2>4, FS_Union
  <2> QED
    BY <1>1, <2>5 DEF IInv, Finite
<1>11. Coalesced'
  <2>1. \A q, b : SameGroup(q, b) <=> SameGroup(b, q)
    BY DEF SameGroup
  <2>2. \A t, u \in merging : SameGroup(Merge(Waiting(t), k), Merge(Waiting(u), k)) => t = u
    BY <1>7 DEF SameGroup
  <2>3. \A t \in merging : \A q \in queued \ UNION {Waiting(u) : u \in merging} :
          ~SameGroup(Merge(Waiting(t), k), q)
    BY <1>8
  <2>4. \A t \in merging : \A b \in running : ~SameGroup(Merge(Waiting(t), k), b)
    <3>1. \A t : Waiting(t) \subseteq queued
      BY DEF Waiting, WaitingIn
    <3>2. \A q \in queued, b \in running : q # b
      BY <1>5 DEF SameGroup
    <3> QED
      BY <1>8, <3>1, <3>2
  <2> DEFINE M == {Merge(Waiting(t), k) : t \in merging}
             K == queued \ UNION {Waiting(u) : u \in merging}
  <2>5. \A p, q \in M : SameGroup(p, q) => p = q
    BY <2>2
  <2>6. \A p \in M : (\A q \in K : ~SameGroup(p, q)) /\ (\A b \in running : ~SameGroup(p, b))
    BY <2>3, <2>4
  <2>7. pending' = K \union M /\ K \subseteq queued
    BY <1>6
  <2> HIDE DEF K, M
  <2>8. \A p, q \in pending' : SameGroup(p, q) => p = q
    BY <1>5, <2>1, <2>5, <2>6, <2>7
  <2>9. \A p \in pending', b \in running : ~SameGroup(p, b)
    BY <1>5, <2>6, <2>7
  <2> QED
    BY <1>1, <2>8, <2>9 DEF IInv, Coalesced
<1>12. Readiness'
  BY <1>1 DEF IInv, Readiness, IsUnlocked, LineageIsUnlocked
<1>13. LoopsOK' /\ Numbered' /\ ConcurrencyBound'
  BY <1>1 DEF IInv, LoopsOK, Numbered, ConcurrencyBound
<1> QED
  BY <1>9, <1>10, <1>11, <1>12, <1>13 DEF IInv

\* A pass of _start_runnable never starts more at a node than its capacity, and
\* counts groups, which Coalesced makes as many as there are activations.
LEMMA CandidatesFit ==
  ASSUME IInv, NEW c \in Candidates, NEW s \in SUBSET c, NEW n \in Nodes
  PROVE  /\ IsFiniteSet(s) /\ IsFiniteSet(Of(s, n))
         /\ Cardinality(Of(s, n)) + Cardinality(Of(running, n)) <= MaxConcurrency[n]
<1>1. c \in SUBSET pending
  BY DEF Candidates, Unlocked
<1>2. IsFiniteSet(c) /\ IsFiniteSet(s)
  BY <1>1, FS_Subset DEF IInv, Finite
<1>3. Of(c, n) \in SUBSET c /\ Of(s, n) \in SUBSET Of(c, n) /\ Of(running, n) \in SUBSET running
  BY DEF Of
<1>4. IsFiniteSet(Of(c, n)) /\ IsFiniteSet(Of(running, n)) /\ IsFiniteSet(Of(s, n))
  BY <1>2, <1>3, FS_Subset DEF IInv, Finite
<1>5. Cardinality(Groups(Of(running, n))) = Cardinality(Of(running, n))
  <2> DEFINE S == Of(running, n)
             g == [a \in S |-> a.scope.group]
  <2>1. \A x, y \in S : g[x] = g[y] => x = y
    BY DEF IInv, Coalesced, SameGroup, Of
  <2>2. Groups(S) = {g[a] : a \in S}
    BY DEF Groups
  <2>3. Cardinality({g[a] : a \in S}) = Cardinality(S)
    <3> HIDE DEF g, S
    <3>1. IsFiniteSet(S)
      BY <1>4 DEF S
    <3> QED
      BY <2>1, <3>1, InjectiveImage
  <2> QED
    BY <2>2, <2>3
<1>6. /\ Cardinality(Of(c, n)) \in Nat /\ Cardinality(Of(running, n)) \in Nat
      /\ Cardinality(Of(s, n)) \in Nat /\ Cardinality(Of(s, n)) <= Cardinality(Of(c, n))
  BY <1>3, <1>4, FS_CardinalityType, FS_Subset
<1>7. Cardinality(Of(c, n)) <= MaxConcurrency[n] - Cardinality(Of(running, n))
  <2>1. Cardinality(Of(c, n)) = Capacity(n) \/ Cardinality(Of(c, n)) < Capacity(n)
    BY DEF Candidates
  <2> QED
    BY <1>5, <1>6, <2>1, ConcurrencyAssumption DEF Capacity
<1> QED
  BY <1>2, <1>4, <1>6, <1>7, ConcurrencyAssumption

\* A pass of _start_runnable, complete or cut short by a budget.
LEMMA StartInv ==
  ASSUME IInv, NEW c \in Candidates, NEW s \in SUBSET c, Start(s), pc = "start", pc' # "routes"
  PROVE  IInv'
<1>1. PICK f \in RunNumbers(s) : running' = running \union Begun(s, f)
  BY DEF Start
<1> DEFINE B == Begun(s, f)
<1>2. /\ pending' = pending \ s /\ loops' = loops /\ hand' = hand /\ satisfied' = satisfied
      /\ runCounts' = [n \in Nodes |-> runCounts[n] + Cardinality(Of(s, n))]
  BY DEF Start
<1>3. s \subseteq pending /\ \A p \in s : IsUnlocked(p)
  BY DEF Candidates, Unlocked
<1>4. \A p \in s : p.node \in Nodes /\ ScopeOK(p.scope, loops)
  BY <1>3 DEF IInv, Placed
<1>5. IsFiniteSet(s)
  BY <1>3, FS_Subset DEF IInv, Finite
<1>6. \A n \in Nodes : /\ runCounts[n] \in Nat /\ Cardinality(Of(s, n)) \in Nat
                       /\ runCounts'[n] = runCounts[n] + Cardinality(Of(s, n))
  BY <1>2, CandidatesFit, FS_CardinalityType DEF IInv, Finite
<1>7. ASSUME NEW b \in B
      PROVE  \E p \in s : /\ b.node = p.node /\ b.scope = p.scope /\ b.run = f[p]
                          /\ b.from = ReplayIndex(p)
                          /\ b.run \in Nat /\ b.run > runCounts[b.node] /\ b.run <= runCounts'[b.node]
  <2>1. PICK p \in s : b = [node |-> p.node, scope |-> p.scope, run |-> f[p], from |-> ReplayIndex(p)]
    BY DEF Begun
  <2>2. f[p] \in (runCounts[p.node] + 1)..(runCounts[p.node] + Cardinality(Of(s, p.node)))
    BY DEF RunNumbers
  <2> QED
    BY <1>4, <1>6, <2>1, <2>2
<1>8. \A p, q \in s : p.node = q.node /\ f[p] = f[q] => p = q
  BY DEF RunNumbers
<1>9. IsFiniteSet(B)
  <2> DEFINE g == [p \in s |-> [node |-> p.node, scope |-> p.scope, run |-> f[p],
                                from |-> ReplayIndex(p)]]
  <2>1. B = {g[p] : p \in s}
    BY DEF Begun
  <2>2. IsFiniteSet({g[p] : p \in s})
    <3> HIDE DEF g
    <3> QED
      BY <1>5, FiniteImage
  <2> QED
    BY <2>1, <2>2
<1>10. \A b, d \in B : b.node = d.node /\ b.run = d.run => b = d
  <2> SUFFICES ASSUME NEW b \in B, NEW d \in B, b.node = d.node, b.run = d.run PROVE b = d
    OBVIOUS
  <2>1. PICK p \in s : b = [node |-> p.node, scope |-> p.scope, run |-> f[p], from |-> ReplayIndex(p)]
    BY DEF Begun
  <2>2. PICK q \in s : d = [node |-> q.node, scope |-> q.scope, run |-> f[q], from |-> ReplayIndex(q)]
    BY DEF Begun
  <2>3. p = q
    BY <1>8, <2>1, <2>2
  <2> QED
    BY <2>1, <2>2, <2>3
<1>11. running' = running \union B
  BY <1>1
<1> HIDE DEF B
<1>12. Placed'
  BY <1>2, <1>4, <1>7, <1>11 DEF IInv, Placed
<1>13. Finite'
  <2>1. IsFiniteSet(pending')
    BY <1>2, FS_Difference DEF IInv, Finite
  <2>2. IsFiniteSet(running')
    BY <1>9, <1>11, FS_Union DEF IInv, Finite
  <2>3. runCounts' \in [Nodes -> Nat]
    BY <1>2, <1>6
  <2> QED
    BY <2>1, <2>2, <2>3 DEF Finite
<1>14. LoopsOK'
  BY <1>2, <1>6 DEF IInv, LoopsOK
<1>15. Numbered'
  <2>1. \A a \in running : a.node \in Nodes /\ a.run \in Nat /\ a.run <= runCounts[a.node]
                            /\ a.run <= runCounts'[a.node]
    BY <1>6 DEF IInv, Numbered, Placed
  <2>2. \A b \in B : b.run \in Nat /\ b.run > runCounts[b.node] /\ b.run <= runCounts'[b.node]
                     /\ b.node \in Nodes
    BY <1>4, <1>7
  <2>3. \A a \in running, b \in B : ~(a.node = b.node /\ a.run = b.run)
    BY <1>6, <2>1, <2>2
  <2>4. \A b \in B : \A l \in DOMAIN loops : l[2] = b.node => l[3] # b.run
    BY <1>6, <2>2 DEF IInv, LoopsOK
  <2> QED
    BY <1>2, <1>10, <1>11, <2>1, <2>2, <2>3, <2>4 DEF IInv, Numbered
<1>16. Readiness'
  <2>1. \A b \in B : LineageIsUnlocked(b.node, b.scope.lineage, satisfied)
    BY <1>3, <1>7 DEF IsUnlocked
  <2> QED
    BY <1>2, <1>11, <2>1 DEF IInv, Readiness, IsUnlocked
<1>17. Coalesced'
  <2>1. \A b, d \in B : SameGroup(b, d) => b = d
    <3> SUFFICES ASSUME NEW b \in B, NEW d \in B, SameGroup(b, d) PROVE b = d
      OBVIOUS
    <3>1. PICK p \in s : b.node = p.node /\ b.scope = p.scope /\ b.run = f[p]
      BY <1>7
    <3>2. PICK q \in s : d.node = q.node /\ d.scope = q.scope /\ d.run = f[q]
      BY <1>7
    <3>3. p = q
      BY <1>3, <3>1, <3>2 DEF IInv, Coalesced, SameGroup
    <3> QED
      BY <1>10, <3>1, <3>2, <3>3
  <2>2. \A b \in B : (\A a \in running : ~SameGroup(b, a)) /\ (\A p \in pending \ s : ~SameGroup(p, b))
    BY <1>3, <1>7 DEF IInv, Coalesced, SameGroup
  <2>3. \A q, b : SameGroup(q, b) <=> SameGroup(b, q)
    BY DEF SameGroup
  <2> QED
    BY <1>2, <1>11, <2>1, <2>2, <2>3 DEF IInv, Coalesced
<1>18. ConcurrencyBound'
  <2> SUFFICES ASSUME NEW n \in Nodes PROVE Cardinality(Of(running', n)) <= MaxConcurrency[n]
    BY DEF ConcurrencyBound
  <2>1. Of(running', n) = Of(running, n) \union Of(B, n)
    BY <1>11 DEF Of
  <2>2. /\ IsFiniteSet(Of(s, n))
        /\ Cardinality(Of(s, n)) + Cardinality(Of(running, n)) <= MaxConcurrency[n]
    BY CandidatesFit
  <2> DEFINE g == [p \in Of(s, n) |-> [node |-> p.node, scope |-> p.scope, run |-> f[p],
                                       from |-> ReplayIndex(p)]]
  <2>3. Of(B, n) = {g[p] : p \in Of(s, n)}
    <3>1. ASSUME NEW b \in Of(B, n) PROVE b \in {g[p] : p \in Of(s, n)}
      <4>1. PICK p \in s :
              b = [node |-> p.node, scope |-> p.scope, run |-> f[p], from |-> ReplayIndex(p)]
        BY <3>1 DEF B, Begun, Of
      <4>2. b.node = n /\ b.node = p.node
        BY <3>1, <4>1 DEF Of
      <4>3. p \in Of(s, n)
        BY <4>2 DEF Of
      <4> QED
        BY <4>1, <4>3
    <3>2. ASSUME NEW p \in Of(s, n) PROVE g[p] \in Of(B, n)
      <4>1. p \in s /\ p.node = n
        BY DEF Of
      <4>2. g[p] \in B
        BY <4>1 DEF B, Begun
      <4>3. g[p].node = n
        BY <4>1
      <4> QED
        BY <4>2, <4>3 DEF Of
    <3> HIDE DEF g
    <3> QED
      BY <3>1, <3>2
  <2>4. /\ IsFiniteSet({g[p] : p \in Of(s, n)})
        /\ Cardinality({g[p] : p \in Of(s, n)}) <= Cardinality(Of(s, n))
    <3> HIDE DEF g
    <3> QED
      BY <2>2, FiniteImage
  <2>5. IsFiniteSet(Of(running, n))
    <3>1. Of(running, n) \in SUBSET running
      BY DEF Of
    <3> QED
      BY <3>1, FS_Subset DEF IInv, Finite
  <2>6. Cardinality(Of(running', n)) <= Cardinality(Of(running, n)) + Cardinality(Of(B, n))
    <3> DEFINE I == Of(running, n) \intersect Of(B, n)
    <3>1. IsFiniteSet(Of(B, n)) /\ IsFiniteSet(I)
      BY <2>3, <2>4, <2>5, FS_Intersection
    <3>2. Cardinality(Of(running', n))
            = Cardinality(Of(running, n)) + Cardinality(Of(B, n)) - Cardinality(I)
      BY <2>1, <2>5, <3>1, FS_Union
    <3>3. /\ Cardinality(I) \in Nat /\ Cardinality(Of(running, n)) \in Nat
          /\ Cardinality(Of(B, n)) \in Nat
      BY <2>5, <3>1, FS_CardinalityType
    <3> QED
      BY <3>2, <3>3
  <2>7. /\ Cardinality(Of(running, n)) \in Nat /\ Cardinality(Of(s, n)) \in Nat
        /\ Cardinality(Of(B, n)) \in Nat /\ MaxConcurrency[n] \in Nat
        /\ Cardinality(Of(running', n)) \in Nat
    <3>1. IsFiniteSet(Of(running, n) \union Of(B, n))
      BY <2>3, <2>4, <2>5, FS_Union
    <3> QED
      BY <2>1, <2>2, <2>3, <2>4, <2>5, <3>1, FS_CardinalityType, ConcurrencyAssumption
  <2> QED
    BY <2>2, <2>3, <2>4, <2>6, <2>7
<1> QED
  BY <1>12, <1>13, <1>14, <1>15, <1>16, <1>17, <1>18 DEF IInv

\* A completed activation leaves the running ones, whatever its handler does.
LEMMA ProcessInv ==
  ASSUME IInv, pc = "await", NEW a \in running, NEW outcome, NEW chosen, NEW soiled,
         Process(a, outcome, chosen, soiled)
  PROVE  IInv'
<1>1. running' = running \ {a} /\ runCounts' = runCounts
  BY DEF Process, budgetVars
<1>2. a.node \in Nodes /\ ScopeOK(a.scope, loops)
  BY DEF IInv, Placed
<1>3. \A l \in DOMAIN loops : LoopState(loops[l])
  BY DEF IInv, LoopsOK
<1>4. hand # NULL => hand.act.node \in Nodes /\ ScopeOK(hand.act.scope, loops)
  BY DEF IInv, Placed
<1>5. CASE DeferFailure(a, outcome)
  BY <1>1, <1>3, <1>4, <1>5, ShrinkInv DEF DeferFailure
<1>6. CASE FatalFailure(a, outcome)
  BY <1>1, <1>3, <1>4, <1>6, ShrinkInv DEF FatalFailure
<1>7. CASE OpenLoop(a, outcome, chosen, soiled)
  BY <1>1, <1>7, OpenLoopInv
<1>8. CASE CloseLoop(a, outcome, chosen)
  <2>1. PICK l : loops' = [loops EXCEPT ![l].closed = TRUE]
    BY <1>8 DEF CloseLoop
  <2>2. pending' \subseteq pending /\ satisfied' = satisfied /\ pc' = "settle" /\ hand'.act = a
    BY <1>8 DEF CloseLoop
  <2>3. DOMAIN loops' = DOMAIN loops
    BY <2>1
  <2>4. ASSUME NEW m \in DOMAIN loops
        PROVE  LoopState(loops'[m]) /\ loops'[m].next = loops[m].next
    <3>1. loops'[m] = loops[m] \/ loops'[m] = [loops[m] EXCEPT !.closed = TRUE]
      BY <2>1
    <3> QED
      BY <1>3, <3>1 DEF LoopState
  <2> QED
    BY <1>1, <1>2, <2>2, <2>3, <2>4, ShrinkInv
<1>9. CASE BreakOutsideLoop(a, outcome)
  BY <1>1, <1>3, <1>4, <1>9, ShrinkInv DEF BreakOutsideLoop
<1>10. CASE CompleteTask(a, outcome, chosen)
  <2>1. hand'.act = a
    BY <1>10 DEF CompleteTask
  <2> QED
    BY <1>1, <1>2, <1>3, <1>10, <2>1, ShrinkInv DEF CompleteTask
<1> QED
  BY <1>5, <1>6, <1>7, <1>8, <1>9, <1>10 DEF Process

\* What a new scheduler has queued.
LEMMA InitialQueue ==
  ASSUME NEW f
  PROVE  LET P == Queued(InitialOffers, f) IN
         /\ IsFiniteSet(P)
         /\ \A p \in P : p.node \in Nodes /\ ScopeOK(p.scope, << >>)
         /\ \A p, q \in P : SameGroup(p, q) => p = q
<1> DEFINE S == {m \in Nodes : Needs[m] = {}}
           g == [n \in S |-> [node |-> n, scope |-> InitialScope(n)]]
           h == [o \in InitialOffers |->
                   [node |-> o.node, scope |-> o.scope, seq |-> f[o], slot |-> f[o]]]
<1>1. IsFiniteSet(S)
  BY NodesAssumption, FS_Subset
<1>2. InitialOffers = {g[n] : n \in S}
  BY DEF InitialOffers
<1>3. Queued(InitialOffers, f) = {h[o] : o \in InitialOffers}
  BY DEF Queued
<1>4. IsFiniteSet({h[o] : o \in InitialOffers})
  <2> HIDE DEF g, h, S
  <2>1. IsFiniteSet(InitialOffers)
    BY <1>1, <1>2, FiniteImage
  <2> QED
    BY <2>1, FiniteImage
<1>5. \A o \in InitialOffers : /\ o.node \in Nodes /\ o.scope = InitialScope(o.node)
                              /\ o = [node |-> o.node, scope |-> InitialScope(o.node)]
  BY DEF InitialOffers
<1>6. \A n : ScopeOK(InitialScope(n), << >>)
  BY DEF InitialScope, Initial, ScopeOK
<1>7. \A o \in InitialOffers : h[o].node = o.node /\ h[o].scope = o.scope
  OBVIOUS
<1> HIDE DEF h
<1>8. \A p \in {h[o] : o \in InitialOffers} : p.node \in Nodes /\ ScopeOK(p.scope, << >>)
  BY <1>5, <1>6, <1>7
<1>9. \A o, q \in InitialOffers : o.node = q.node => o = q
  BY <1>5
<1>10. \A p, q \in {h[o] : o \in InitialOffers} : SameGroup(p, q) => p = q
  BY <1>7, <1>9 DEF SameGroup
<1> QED
  BY <1>3, <1>4, <1>8, <1>10

\* A new scheduler satisfies the invariant.
LEMMA InitInv == Init => IInv
<1> SUFFICES ASSUME Init PROVE IInv
  OBVIOUS
<1>1. /\ running = {} /\ loops = << >> /\ hand = NULL /\ pc = "start"
      /\ runCounts = [n \in Nodes |-> 0]
      /\ \E f : pending = Queued(InitialOffers, f)
  BY DEF Init
<1>2. Placed /\ Coalesced /\ IsFiniteSet(pending)
  BY <1>1, InitialQueue DEF Placed, Coalesced
<1>3. Finite
  BY <1>1, <1>2, FS_EmptySet DEF Finite
<1>4. LoopsOK /\ Numbered /\ Readiness
  BY <1>1 DEF LoopsOK, Numbered, Readiness
<1>5. ConcurrencyBound
  <2>1. \A n \in Nodes : Of(running, n) = {}
    BY <1>1 DEF Of
  <2> QED
    BY <2>1, FS_EmptySet, ConcurrencyAssumption DEF ConcurrencyBound
<1> QED
  BY <1>2, <1>3, <1>4, <1>5 DEF IInv

\* A resumed run begins as a new one does.
LEMMA ResumeInv == ASSUME Resume PROVE IInv'
<1>1. /\ running' = {} /\ loops' = << >> /\ hand' = NULL /\ pc' = "start"
      /\ runCounts' = [n \in Nodes |-> 0]
      /\ \E f : pending' = Queued(InitialOffers, f)
  BY DEF Resume, Begin
<1>2. Placed' /\ Coalesced' /\ IsFiniteSet(pending')
  BY <1>1, InitialQueue DEF Placed, Coalesced
<1>3. Finite'
  BY <1>1, <1>2, FS_EmptySet DEF Finite
<1>4. LoopsOK' /\ Numbered' /\ Readiness'
  BY <1>1 DEF LoopsOK, Numbered, Readiness
<1>5. ConcurrencyBound'
  <2>1. \A n \in Nodes : Of(running', n) = {}
    BY <1>1 DEF Of
  <2> QED
    BY <2>1, FS_EmptySet, ConcurrencyAssumption DEF ConcurrencyBound
<1> QED
  BY <1>2, <1>3, <1>4, <1>5 DEF IInv

\* Steps that change neither activations nor loops.
LEMMA IdleInv ==
  ASSUME IInv, UNCHANGED <<pending, running, satisfied, loops, runCounts>>,
         hand' # NULL \/ pc' = "routes" => hand' = hand /\ (hand # NULL \/ pc = "routes")
  PROVE  IInv'
<1>1. \A l \in DOMAIN loops : LoopState(loops[l])
  BY DEF IInv, LoopsOK
<1>2. hand' # NULL \/ pc' = "routes" =>
        hand'.act.node \in Nodes /\ ScopeOK(hand'.act.scope, loops)
  BY DEF IInv, Placed
<1> QED
  BY <1>1, <1>2, ShrinkInv

\* Every step of the scheduler keeps the invariant.
LEMMA StepInv == IInv /\ [Next]_vars => IInv'
<1> SUFFICES ASSUME IInv, [Next]_vars PROVE IInv'
  OBVIOUS
<1>1. ASSUME NEW a \in running, Complete(a) PROVE IInv'
  BY <1>1, ProcessInv DEF Complete
<1>2. ASSUME NEW a \in running, ReplayNext(a) PROVE IInv'
  BY <1>2, ProcessInv DEF ReplayNext
<1>3. CASE FinishFail
  BY <1>3, IdleInv DEF FinishFail, budgetVars
<1>4. CASE Emit
  BY <1>4, EmitInv
<1>5. CASE Settle
  BY <1>5, SettleInv
<1>6. CASE StartRunnable
  <2>1. PICK c \in Candidates : Start(c)
    BY <1>6 DEF StartRunnable
  <2>2. c \in SUBSET c
    OBVIOUS
  <2>3. pc = "start" /\ pc' # "routes"
    BY <1>6 DEF StartRunnable
  <2> QED
    BY <2>1, <2>2, <2>3, StartInv
<1>7. CASE BudgetExceeded
  <2>1. PICK c \in Candidates : \E s \in SUBSET c : Start(s)
    BY <1>7 DEF BudgetExceeded
  <2>2. PICK s \in SUBSET c : Start(s)
    BY <2>1
  <2>3. pc = "start" /\ pc' # "routes"
    BY <1>7 DEF BudgetExceeded
  <2> QED
    BY <2>2, <2>3, StartInv
<1>8. CASE FinishReplay
  BY <1>8, IdleInv DEF FinishReplay, budgetVars
<1>9. CASE Quiesce
  BY <1>9, IdleInv DEF Quiesce, budgetVars
<1>10. CASE Interrupt
  BY <1>10, IdleInv DEF Interrupt, budgetVars
<1>11. CASE Resume
  BY <1>11, ResumeInv
<1>12. CASE UNCHANGED vars
  BY <1>12, IdleInv DEF vars
<1> QED
  BY <1>1, <1>2, <1>3, <1>4, <1>5, <1>6, <1>7, <1>8, <1>9, <1>10, <1>11, <1>12
  DEF Next, Step, Over, Spin

\* The invariant holds in every reachable state.
LEMMA Invariant == Spec => []IInv
BY InitInv, StepInv, PTL DEF Spec

-----------------------------------------------------------------------------
(* The theorems.                                                           *)

\* In every workflow a node runs only where what it needs has completed.
THEOREM RunsAreReady == Spec => []Readiness
<1>1. IInv => Readiness
  BY DEF IInv
<1> QED
  BY <1>1, Invariant, PTL

\* In every workflow the signals of one group at a node are one activation.
THEOREM SignalsCoalesce == Spec => []Coalesced
<1>1. IInv => Coalesced
  BY DEF IInv
<1> QED
  BY <1>1, Invariant, PTL

\* In every workflow no node exceeds its max_concurrency.
THEOREM ConcurrencyIsBounded == Spec => []ConcurrencyBound
<1>1. IInv => ConcurrencyBound
  BY DEF IInv
<1> QED
  BY <1>1, Invariant, PTL

\* In every workflow the node and workflow budgets hold, also in resumed runs.
THEOREM BudgetsHold == Spec => []BudgetBound
<1>1. Init => BudgetBound
  BY BudgetAssumption DEF Init, BudgetBound, Within
<1>2. BudgetBound /\ [Next]_vars => BudgetBound'
  <2> SUFFICES ASSUME BudgetBound, [Next]_vars PROVE BudgetBound'
    OBVIOUS
  <2>1. ASSUME NEW s, Start(s), Affordable(s) PROVE BudgetBound'
    BY <2>1 DEF Start, Affordable, BudgetBound
  <2>2. CASE StartRunnable
    BY <2>1, <2>2 DEF StartRunnable
  <2>3. CASE BudgetExceeded
    BY <2>1, <2>3 DEF BudgetExceeded
  <2>4. CASE Resume
    BY <2>4, BudgetAssumption DEF Resume, Begin, BudgetBound, Within
  <2>5. CASE UNCHANGED budgetVars
    BY <2>5 DEF budgetVars, BudgetBound
  <2> QED
    BY <2>2, <2>3, <2>4, <2>5
    DEF Next, Step, Complete, ReplayNext, Process, FinishFail, Emit, Settle, FinishReplay,
        Quiesce, Interrupt, Over, Spin, vars, budgetVars
<1> QED
  BY <1>1, <1>2, PTL DEF Spec

\* In every workflow no pass of the scheduler overruns a concurrency limit or a
\* budget, resumed runs included.
THEOREM LimitsHold == Spec => []Limits
<1>1. ConcurrencyBound /\ BudgetBound => Limits
  BY DEF Limits
<1> QED
  BY <1>1, ConcurrencyIsBounded, BudgetsHold, PTL

-----------------------------------------------------------------------------
(* Resumed runs: which saved records are reused.                           *)

\* The saved records with the key of record i that come before it.
Before(i) == {j \in Matching(Key(prior[i])) : j < i}

\* Record i was passed: its key started more often than there are records before
\* it, so no later start of that key is given it.
Passed(i) ==
  /\ i \in DOMAIN prior
  /\ Cardinality(Before(i)) \in Nat
  /\ Cardinality(Before(i)) < Occurrence(Key(prior[i]))

\* In a resumed run live work dirties its lineage.
DirtKnown ==
  resumes > 0 =>
    \A i \in DOMAIN records : records[i].from = 0 => records[i].scope.lineage \in dirty

\* What runs from a saved record is in a clean lineage and has a record passed.
TakenClean ==
  \A a \in running : a.from # 0 =>
    resumes > 0 /\ a.scope.lineage \notin dirty /\ Passed(a.from)

RecordsPassed == \A i \in DOMAIN records : records[i].from # 0 => Passed(records[i].from)

Counters ==
  /\ \E S : records \in Seq(S)
  /\ \A k \in DOMAIN starts : starts[k] \in Nat

ReuseInv == Counters /\ DirtKnown /\ TakenClean /\ RecordsPassed /\ ReusedOnce

\* ReusedOnce in terms of records and running activations.
LEMMA ReusedOnceMeans ==
  ReusedOnce <=>
    /\ \A i, j \in DOMAIN records :
         records[i].from = records[j].from /\ records[i].from # 0 => i = j
    /\ \A i \in DOMAIN records : \A a \in running :
         records[i].from # 0 => a.from # records[i].from
    /\ \A a, b \in running : a.from = b.from /\ a.from # 0 => a = b
BY DEF ReusedOnce

\* Appending to a sequence of anything.
LEMMA Appending ==
  ASSUME NEW q, \E S : q \in Seq(S), NEW r
  PROVE  /\ \E S : Append(q, r) \in Seq(S)
         /\ DOMAIN Append(q, r) = DOMAIN q \union {Len(q) + 1}
         /\ Len(q) + 1 \notin DOMAIN q
         /\ \A i \in DOMAIN q : Append(q, r)[i] = q[i]
         /\ Append(q, r)[Len(q) + 1] = r
<1>1. PICK S : q \in Seq(S)
  OBVIOUS
<1>2. q \in Seq(S \union {r}) /\ Len(q) \in Nat /\ DOMAIN q = 1..Len(q)
  BY <1>1
<1>3. /\ Append(q, r) \in Seq(S \union {r})
      /\ Len(Append(q, r)) = Len(q) + 1
      /\ \A i \in 1..Len(q) : Append(q, r)[i] = q[i]
      /\ Append(q, r)[Len(q) + 1] = r
  BY <1>2
<1>4. DOMAIN Append(q, r) = 1..(Len(q) + 1)
  BY <1>3
<1> QED
  BY <1>2, <1>3, <1>4

\* Steps that start nothing; one of them may record an activation that ends.
Records(a) ==
  \E r : /\ records' = Append(records, r)
         /\ r.from = a.from /\ r.scope = a.scope
         /\ resumes > 0 /\ a.from = 0 => a.scope.lineage \in dirty'

LEMMA ReuseKept ==
  ASSUME ReuseInv, UNCHANGED <<prior, starts, resumes>>, dirty \subseteq dirty',
         running' \subseteq running,
         \A b \in running' : b.from # 0 /\ b.scope.lineage \in dirty' => b.scope.lineage \in dirty,
         records' = records \/ \E a \in running \ running' : Records(a)
  PROVE  ReuseInv'
<1>1. \A i : Passed(i) => Passed(i)'
  BY DEF Passed, Before, Matching, Occurrence, Key
<1>2. TakenClean'
  BY <1>1 DEF ReuseInv, TakenClean
<1>3. \A k \in DOMAIN starts' : starts'[k] \in Nat
  BY DEF ReuseInv, Counters
<1>4. CASE records' = records
  BY <1>1, <1>2, <1>3, <1>4, ReusedOnceMeans
  DEF ReuseInv, Counters, DirtKnown, RecordsPassed, ReusedOnce
<1>5. ASSUME NEW a \in running \ running', Records(a) PROVE ReuseInv'
  <2>1. PICK r : /\ records' = Append(records, r) /\ r.from = a.from /\ r.scope = a.scope
                 /\ resumes > 0 /\ a.from = 0 => a.scope.lineage \in dirty'
    BY <1>5 DEF Records
  <2> DEFINE n == Len(records) + 1
  <2>2. /\ \E S : records' \in Seq(S)
        /\ DOMAIN records' = DOMAIN records \union {n} /\ n \notin DOMAIN records
        /\ \A i \in DOMAIN records : records'[i] = records[i]
        /\ records'[n] = r
    <3>1. \E S : records \in Seq(S)
      BY DEF ReuseInv, Counters
    <3>2. /\ \E S : Append(records, r) \in Seq(S)
          /\ DOMAIN Append(records, r) = DOMAIN records \union {n} /\ n \notin DOMAIN records
          /\ \A i \in DOMAIN records : Append(records, r)[i] = records[i]
          /\ Append(records, r)[n] = r
      BY <3>1, Appending, Zenon
    <3> QED
      BY <2>1, <3>2, Zenon
  <2> HIDE DEF n
  <2>3. Counters'
    BY <1>3, <2>2 DEF Counters
  <2>4. DirtKnown'
    BY <2>1, <2>2 DEF ReuseInv, DirtKnown
  <2>5. RecordsPassed'
    BY <1>1, <2>1, <2>2 DEF ReuseInv, RecordsPassed, TakenClean
  <2>6. ReusedOnce'
    <3>1. /\ \A i, j \in DOMAIN records :
               records[i].from = records[j].from /\ records[i].from # 0 => i = j
          /\ \A i \in DOMAIN records : \A b \in running :
               records[i].from # 0 => b.from # records[i].from
          /\ \A b, c \in running : b.from = c.from /\ b.from # 0 => b = c
      BY ReusedOnceMeans DEF ReuseInv
    <3>2. /\ \A i, j \in DOMAIN records' :
               records'[i].from = records'[j].from /\ records'[i].from # 0 => i = j
          /\ \A i \in DOMAIN records' : \A b \in running' :
               records'[i].from # 0 => b.from # records'[i].from
          /\ \A b, c \in running' : b.from = c.from /\ b.from # 0 => b = c
      BY <2>1, <2>2, <3>1
    <3> QED
      BY <3>2 DEF ReusedOnce
  <2> QED
    BY <1>2, <2>3, <2>4, <2>5, <2>6 DEF ReuseInv
<1> QED
  BY <1>4, <1>5

\* New iterations get no dirt on what runs already.
LEMMA DirtStays ==
  ASSUME IInv, NEW ls, Grows(ls), NEW soiled, dirty' = InheritedDirt(ls, soiled)
  PROVE  /\ soiled \subseteq dirty'
         /\ \A b \in running : b.scope.lineage \in dirty' => b.scope.lineage \in soiled
<1>1. soiled \subseteq dirty'
  BY DEF InheritedDirt
<1>2. ASSUME NEW b \in running, b.scope.lineage \in dirty', b.scope.lineage \notin soiled
      PROVE  FALSE
  <2>1. PICK k \in NewIterations(ls) : k[1] = b.scope.lineage
    BY <1>2 DEF InheritedDirt
  <2>2. PICK l \in DOMAIN ls : \E i \in Opened(ls[l]) :
          k = <<Iteration(l, i), l, ls[l].scope.lineage>>
    BY DEF NewIterations
  <2>3. PICK i \in Opened(ls[l]) : k = <<Iteration(l, i), l, ls[l].scope.lineage>>
    BY <2>2
  <2>4. Iteration(l, i) = b.scope.lineage
    BY <2>1, <2>3
  <2> QED
    BY <2>4, NewIteration
<1> QED
  BY <1>1, <1>2

\* The completion of a live activation, when nothing is left to replay, and of a
\* replayed one.
LEMMA ProcessReuse ==
  ASSUME IInv, ReuseInv, NEW a \in running, NEW outcome, NEW chosen, NEW soiled,
         Process(a, outcome, chosen, soiled), dirty \subseteq soiled,
         resumes > 0 /\ a.from = 0 => a.scope.lineage \in soiled,
         (\A b \in running : b.from = 0) \/ soiled = dirty
  PROVE  ReuseInv'
<1>1. running' = running \ {a} /\ UNCHANGED <<prior, starts, resumes>>
  BY DEF Process, replayVars
<1>2. soiled \subseteq dirty' /\ \A b \in running : b.scope.lineage \in dirty' => b.scope.lineage \in soiled
  <2>1. CASE dirty' = soiled
    BY <2>1
  <2>2. CASE OpenLoop(a, outcome, chosen, soiled)
    BY <1>1, <2>2, OpenLoopGrows, DirtStays
  <2> QED
    BY <2>1, <2>2 DEF Process
<1>3. records' = records \/ Records(a)
  <2> DEFINE r == [node |-> a.node, scope |-> a.scope, outcome |-> outcome, chosen |-> chosen,
                   from |-> a.from]
  <2>1. records' = records \/ records' = Append(records, r)
    BY DEF Process
  <2>2. r.from = a.from /\ r.scope = a.scope
    OBVIOUS
  <2> HIDE DEF r
  <2> QED
    BY <1>2, <2>1, <2>2 DEF Records
<1>4. a \in running \ running'
  BY <1>1
<1> QED
  BY <1>1, <1>2, <1>3, <1>4, ReuseKept

\* The record a start is given is the next one of its key, and its lineage is clean.
LEMMA IndexMeans ==
  ASSUME NEW p, ReplayIndex(p) # 0
  PROVE  /\ ReplayIndex(p) \in DOMAIN prior /\ Key(prior[ReplayIndex(p)]) = Key(p)
         /\ Replayable /\ resumes > 0 /\ p.scope.lineage \notin dirty
         /\ Cardinality(Before(ReplayIndex(p))) = Occurrence(Key(p))
<1> DEFINE found == {i \in Matching(Key(p)) :
                       /\ Replayable
                       /\ p.scope.lineage \notin dirty
                       /\ Cardinality({j \in Matching(Key(p)) : j < i}) = Occurrence(Key(p))
                       /\ prior[i].outcome \in Reusable}
<1>1. ReplayIndex(p) = IF found = {} THEN 0 ELSE CHOOSE i \in found : TRUE
  BY DEF ReplayIndex
<1>2. ReplayIndex(p) \in found
  BY <1>1
<1> DEFINE i == ReplayIndex(p)
<1>3. /\ i \in Matching(Key(p)) /\ Replayable /\ p.scope.lineage \notin dirty
      /\ Cardinality({j \in Matching(Key(p)) : j < i}) = Occurrence(Key(p))
  BY <1>2
<1> HIDE DEF i, found
<1>4. i \in DOMAIN prior /\ Key(prior[i]) = Key(p)
  BY <1>3 DEF Matching
<1>5. Cardinality(Before(i)) = Occurrence(Key(p))
  BY <1>3, <1>4 DEF Before
<1> QED
  BY <1>3, <1>4, <1>5 DEF Replayable, Resuming, i

\* A pass of _start_runnable gives every start a record that nobody was given.
LEMMA StartReuse ==
  ASSUME IInv, ReuseInv, NEW c \in Candidates, NEW s \in SUBSET c, Start(s)
  PROVE  ReuseInv'
<1>1. PICK f \in RunNumbers(s) : running' = running \union Begun(s, f)
  BY DEF Start
<1>2. UNCHANGED <<records, prior, resumes, dirty>>
  BY DEF Start
<1>3. /\ Replayable => starts' = [k \in DOMAIN starts \union {Key(p) : p \in s} |->
                                    Occurrence(k) + IF \E p \in s : Key(p) = k THEN 1 ELSE 0]
      /\ ~Replayable => starts' = starts
  BY DEF Start
<1>4. \A k : Occurrence(k) \in Nat
  BY DEF ReuseInv, Counters, Occurrence
<1>5. \A k : Occurrence(k)' \in Nat /\ Occurrence(k)' >= Occurrence(k)
  <2> SUFFICES ASSUME NEW k PROVE Occurrence(k)' \in Nat /\ Occurrence(k)' >= Occurrence(k)
    OBVIOUS
  <2>1. CASE ~Replayable
    BY <1>3, <1>4, <2>1 DEF Occurrence
  <2>2. CASE Replayable /\ k \in DOMAIN starts'
    <3>1. starts'[k] = Occurrence(k) + IF \E p \in s : Key(p) = k THEN 1 ELSE 0
      BY <1>3, <2>2
    <3>2. starts'[k] = Occurrence(k) \/ starts'[k] = Occurrence(k) + 1
      BY <3>1, <1>4
    <3>3. Occurrence(k)' = starts'[k]
      BY <2>2 DEF Occurrence
    <3> QED
      BY <1>4, <3>2, <3>3
  <2>3. CASE Replayable /\ k \notin DOMAIN starts'
    <3>1. k \notin DOMAIN starts
      BY <1>3, <2>3
    <3> QED
      BY <2>3, <3>1 DEF Occurrence
  <2> QED
    BY <2>1, <2>2, <2>3
<1>6. ASSUME NEW p \in s, Replayable
      PROVE  Occurrence(Key(p))' = Occurrence(Key(p)) + 1
  <2> DEFINE k == Key(p)
  <2>1. k \in DOMAIN starts' /\ \E q \in s : Key(q) = k
    BY <1>3, <1>6
  <2> HIDE DEF k
  <2>2. starts'[k] = Occurrence(k) + 1
    BY <1>3, <1>6, <2>1
  <2>3. Occurrence(k)' = starts'[k]
    BY <2>1 DEF Occurrence
  <2> QED
    BY <2>2, <2>3 DEF k
<1>7. ASSUME NEW i, Passed(i) PROVE Passed(i)'
  <2>1. PICK k : k = Key(prior[i])
    OBVIOUS
  <2>2. Before(i)' = Before(i) /\ Key(prior[i])' = Key(prior[i])
    BY <1>2 DEF Before, Matching, Key
  <2>3. Occurrence(k)' >= Occurrence(k) /\ Occurrence(k)' \in Nat /\ Occurrence(k) \in Nat
    BY <1>4, <1>5
  <2>4. Occurrence(Key(prior[i]))' = Occurrence(k)'
    BY <2>1, <2>2 DEF Occurrence
  <2> QED
    BY <1>2, <1>7, <2>1, <2>2, <2>3, <2>4 DEF Passed
<1>8. ASSUME NEW p \in s, NEW i, i = ReplayIndex(p), i # 0
      PROVE  ~Passed(i) /\ Passed(i)' /\ resumes > 0 /\ p.scope.lineage \notin dirty
             /\ Key(prior[i]) = Key(p)
  <2>1. /\ i \in DOMAIN prior /\ Key(prior[i]) = Key(p) /\ Replayable
        /\ resumes > 0 /\ p.scope.lineage \notin dirty
        /\ Cardinality(Before(i)) = Occurrence(Key(p))
    BY <1>8, IndexMeans
  <2>2. ~Passed(i)
    BY <1>4, <2>1 DEF Passed
  <2>3. PICK k : k = Key(p)
    OBVIOUS
  <2>4. Occurrence(k)' = Occurrence(k) + 1
    BY <1>6, <2>1, <2>3
  <2>5. Before(i)' = Before(i) /\ Key(prior[i])' = k
    BY <1>2, <2>1, <2>3 DEF Before, Matching, Key
  <2>6. Occurrence(Key(prior[i]))' = Occurrence(k)'
    BY <2>5 DEF Occurrence
  <2>7. Passed(i)'
    BY <1>2, <1>4, <2>1, <2>3, <2>4, <2>5, <2>6 DEF Passed
  <2> QED
    BY <2>1, <2>2, <2>7
<1> DEFINE B == Begun(s, f)
<1>9. \A b \in B : \E p \in s :
        b = [node |-> p.node, scope |-> p.scope, run |-> f[p], from |-> ReplayIndex(p)]
  BY DEF Begun
<1>10. \A p, q \in s : Key(p) = Key(q) => p = q
  <2>1. s \subseteq pending
    BY DEF Candidates, Unlocked
  <2> QED
    BY <2>1 DEF Key, IInv, Coalesced, SameGroup
<1>11. running' = running \union B
  BY <1>1
<1> HIDE DEF B
<1>12. ASSUME NEW b \in B, b.from # 0
       PROVE  /\ ~Passed(b.from) /\ Passed(b.from)' /\ resumes > 0
              /\ b.scope.lineage \notin dirty
  BY <1>8, <1>9, <1>12
<1>13. ASSUME NEW b \in B, NEW d \in B, b.from = d.from, b.from # 0 PROVE b = d
  <2>1. PICK p \in s :
          b = [node |-> p.node, scope |-> p.scope, run |-> f[p], from |-> ReplayIndex(p)]
    BY <1>9
  <2>2. PICK q \in s :
          d = [node |-> q.node, scope |-> q.scope, run |-> f[q], from |-> ReplayIndex(q)]
    BY <1>9
  <2>3. b.from = ReplayIndex(p) /\ d.from = ReplayIndex(q)
    BY <2>1, <2>2
  <2>4. Key(p) = Key(q)
    BY <1>8, <1>13, <2>3
  <2> QED
    BY <1>10, <2>1, <2>2, <2>4
<1>14. Counters'
  <2>1. \A k \in DOMAIN starts' : starts'[k] = Occurrence(k)'
    BY DEF Occurrence
  <2> QED
    BY <1>2, <1>5, <2>1 DEF ReuseInv, Counters
<1>15. DirtKnown' /\ RecordsPassed'
  BY <1>2, <1>7 DEF ReuseInv, DirtKnown, RecordsPassed
<1>16. TakenClean'
  BY <1>2, <1>7, <1>11, <1>12 DEF ReuseInv, TakenClean
<1>17. ReusedOnce'
  <2>1. /\ \A i, j \in DOMAIN records :
             records[i].from = records[j].from /\ records[i].from # 0 => i = j
        /\ \A i \in DOMAIN records : \A b \in running :
             records[i].from # 0 => b.from # records[i].from
        /\ \A b, d \in running : b.from = d.from /\ b.from # 0 => b = d
    BY ReusedOnceMeans DEF ReuseInv
  <2>2. \A i \in DOMAIN records : \A b \in B : records[i].from # 0 => b.from # records[i].from
    BY <1>12 DEF ReuseInv, RecordsPassed
  <2>3. \A a \in running, b \in B : a.from # 0 => a.from # b.from
    BY <1>12 DEF ReuseInv, TakenClean
  <2>4. /\ \A i, j \in DOMAIN records' :
             records'[i].from = records'[j].from /\ records'[i].from # 0 => i = j
        /\ \A i \in DOMAIN records' : \A b \in running' :
             records'[i].from # 0 => b.from # records'[i].from
        /\ \A b, d \in running' : b.from = d.from /\ b.from # 0 => b = d
    BY <1>2, <1>11, <1>13, <2>1, <2>2, <2>3
  <2> QED
    BY <2>4 DEF ReusedOnce
<1> QED
  BY <1>14, <1>15, <1>16, <1>17 DEF ReuseInv

\* A new scheduler has reused nothing.
LEMMA NothingReused ==
  ASSUME running = {}, records = << >>, starts = << >>
  PROVE  ReuseInv
<1>1. DOMAIN records = {} /\ DOMAIN starts = {} /\ records \in Seq({})
  OBVIOUS
<1> QED
  BY <1>1, ReusedOnceMeans DEF ReuseInv, Counters, DirtKnown, TakenClean, RecordsPassed

\* Every step keeps what is known about reuse.
LEMMA StepReuse == IInv /\ ReuseInv /\ [Next]_vars => ReuseInv'
<1> SUFFICES ASSUME IInv, ReuseInv, [Next]_vars PROVE ReuseInv'
  OBVIOUS
<1>1. ASSUME UNCHANGED <<prior, starts, resumes, records, dirty, running>> PROVE ReuseInv'
  BY <1>1, ReuseKept
<1>2. ASSUME NEW a \in running, Complete(a) PROVE ReuseInv'
  <2> DEFINE soiled == IF Resuming THEN dirty \union {a.scope.lineage} ELSE dirty
  <2>1. /\ \A b \in running : b.from = 0
        /\ \E outcome, chosen : Process(a, outcome, chosen, soiled)
    BY <1>2 DEF Complete
  <2>2. dirty \subseteq soiled /\ (resumes > 0 => a.scope.lineage \in soiled)
    BY DEF Resuming
  <2> HIDE DEF soiled
  <2> QED
    BY <2>1, <2>2, ProcessReuse
<1>3. ASSUME NEW a \in running, ReplayNext(a) PROVE ReuseInv'
  <2>1. PICK outcome, chosen : a.from # 0 /\ Process(a, outcome, chosen, dirty)
    BY <1>3 DEF ReplayNext
  <2> QED
    BY <2>1, ProcessReuse
<1>4. CASE Settle
  <2>1. Grows(Settled) /\ dirty' = InheritedDirt(Settled, dirty)
    BY <1>4, SettleGrows
  <2>2. dirty \subseteq dirty' /\ \A b \in running : b.scope.lineage \in dirty' => b.scope.lineage \in dirty
    BY <2>1, DirtStays
  <2>3. UNCHANGED <<prior, starts, resumes, records, running>>
    BY <1>4 DEF Settle, replayVars
  <2> QED
    BY <2>2, <2>3, ReuseKept
<1>5. CASE StartRunnable
  <2>1. PICK c \in Candidates : Start(c)
    BY <1>5 DEF StartRunnable
  <2>2. c \in SUBSET c
    OBVIOUS
  <2> QED
    BY <2>1, <2>2, StartReuse
<1>6. CASE BudgetExceeded
  <2>1. PICK c \in Candidates : \E s \in SUBSET c : Start(s)
    BY <1>6 DEF BudgetExceeded
  <2> QED
    BY <2>1, StartReuse
<1>7. CASE Resume
  <2>1. running' = {} /\ records' = << >> /\ starts' = << >>
    BY <1>7 DEF Resume, Begin
  <2>2. DOMAIN records' = {} /\ DOMAIN starts' = {} /\ records' \in Seq({})
    BY <2>1
  <2>3. ReusedOnce'
    BY <2>1, <2>2 DEF ReusedOnce
  <2> QED
    BY <2>1, <2>2, <2>3 DEF ReuseInv, Counters, DirtKnown, TakenClean, RecordsPassed
<1>8. CASE FinishFail \/ Emit \/ FinishReplay \/ Quiesce \/ Interrupt \/ UNCHANGED vars
  BY <1>1, <1>8 DEF FinishFail, Emit, FinishReplay, Quiesce, Interrupt, replayVars, vars
<1> QED
  BY <1>2, <1>3, <1>4, <1>5, <1>6, <1>7, <1>8 DEF Next, Step, Over, Spin

\* In every workflow, however often it is resumed, a saved result stands for one
\* activation at most, and none is reused in a lineage where live work completed.
THEOREM ReuseSound == Spec => []ReuseIsSound
<1>1. Init => ReuseInv
  BY NothingReused DEF Init
<1>2. ReuseInv => ReuseIsSound
  <2> SUFFICES ASSUME ReuseInv PROVE CleanReuse
    BY DEF ReuseInv, ReuseIsSound
  <2>1. \A a \in running : a.from # 0 => resumes > 0 /\ a.scope.lineage \notin dirty
    BY DEF ReuseInv, TakenClean
  <2> QED
    BY <2>1 DEF ReuseInv, DirtKnown, CleanReuse
<1> QED
  BY <1>1, <1>2, StepReuse, Invariant, PTL DEF Spec

-----------------------------------------------------------------------------
(* Loops keep going: what a run that comes to rest has left undone.        *)

\* An activation of an iteration counts as work of that iteration.
Inside(s) == s.lineage # Root => s.group \in s.within

Bounds(s) ==
  /\ s.closed \in BOOLEAN /\ s.infinite \in BOOLEAN /\ s.conc > 0
  /\ ~s.infinite => s.next <= s.items

\* The loop does not keep _fill_loop_capacity going for ever.
Turns(s) == s.infinite /\ ~s.closed => s.targets # {}

\* The loop is broken, is through, or has an iteration that is at work.
Held(s, as) ==
  \/ s.closed
  \/ s.next = s.items
  \/ \E g \in s.active : \E a \in as : g \in a.scope.within

Scoped ==
  /\ \A a \in pending \union running : Inside(a.scope)
  /\ hand # NULL \/ pc = "routes" => Inside(hand.act.scope)

Paced ==
  /\ \A l \in DOMAIN loops : Bounds(loops[l]) /\ (pc # "spin" => Turns(loops[l]))
  /\ pc \in {"start", "await"} => \A l \in DOMAIN loops : Held(loops[l], pending \union running)

PassInv == Scoped /\ Paced /\ PassIsEarned

\* Filling a loop leaves it through, or with an iteration that is at work.
LEMMA FillPace ==
  ASSUME NEW l, NEW s, LoopState(s), Bounds(s)
  PROVE  /\ Bounds(Filled(l, s))
         /\ Turns(s) => Turns(Filled(l, s))
         /\ s.active \subseteq Filled(l, s).active
         /\ Turns(s) =>
              \/ Filled(l, s).closed
              \/ Filled(l, s).next = Filled(l, s).items
              \/ s.active # {}
              \/ s.targets # {} /\ s.next \in Opened(s) /\ Iteration(l, s.next) \in Filled(l, s).active
<1> DEFINE N == {Iteration(l, i) : i \in {j \in Opened(s) : s.targets # {}}}
<1>1. /\ Filled(l, s).items = s.items /\ Filled(l, s).conc = s.conc
      /\ Filled(l, s).targets = s.targets /\ Filled(l, s).infinite = s.infinite
      /\ Filled(l, s).closed = s.closed
      /\ Filled(l, s).next = s.next + Count(s)
      /\ Filled(l, s).active = s.active \union N
  BY DEF Filled, LoopState
<1>2. PICK d \in Nat : d = Cardinality(s.active)
  BY FS_CardinalityType DEF LoopState
<1>3. Room(s) = s.conc - d /\ s.conc \in Nat /\ s.conc > 0 /\ s.next \in Nat /\ s.items \in Nat
  BY <1>2 DEF Room, LoopState, Bounds
<1>4. CASE s.closed
  BY <1>1, <1>3, <1>4 DEF Count, Bounds, Turns
<1>5. CASE ~s.closed /\ Room(s) <= 0
  <2>1. Count(s) = 0
    BY <1>5 DEF Count
  <2>2. s.active # {}
    <3>1. d > 0
      BY <1>3, <1>5
    <3>2. s.active = {} => d = 0
      BY <1>2, FS_EmptySet
    <3> QED
      BY <3>1, <3>2
  <2> QED
    BY <1>1, <1>3, <2>1, <2>2 DEF Bounds, Turns
<1>6. CASE ~s.closed /\ Room(s) > 0 /\ Left(s) <= 0
  <2>1. Count(s) = 0
    BY <1>6 DEF Count
  <2>2. ~s.infinite /\ Left(s) = s.items - s.next
    BY <1>3, <1>6 DEF Left
  <2>3. s.next = s.items
    BY <1>3, <1>6, <2>2 DEF Bounds
  <2> QED
    BY <1>1, <1>3, <2>1, <2>3 DEF Bounds, Turns
<1>7. CASE ~s.closed /\ Room(s) > 0 /\ Left(s) > 0
  <2>1. Left(s) \in Int /\ Room(s) \in Int
    BY <1>3 DEF Left
  <2>2. Count(s) = IF s.targets = {} \/ Left(s) < Room(s) THEN Left(s) ELSE Room(s)
    BY <1>3, <1>7, <2>1 DEF Count
  <2>3. Count(s) \in Nat /\ 0 < Count(s) /\ Count(s) <= Left(s)
    BY <1>7, <2>1, <2>2
  <2>4. Bounds(Filled(l, s)) /\ (Turns(s) => Turns(Filled(l, s)))
    BY <1>1, <1>3, <2>3 DEF Bounds, Turns, Left
  <2>5. CASE s.targets = {} /\ Turns(s)
    <3>1. ~s.infinite
      BY <1>7, <2>5 DEF Turns
    <3>2. Count(s) = s.items - s.next
      BY <2>2, <2>5, <3>1 DEF Left
    <3> QED
      BY <1>1, <1>3, <2>4, <3>2
  <2>6. CASE s.targets # {}
    <3>1. s.next \in Opened(s)
      BY <1>3, <2>3 DEF Opened
    <3>2. Iteration(l, s.next) \in N
      BY <2>6, <3>1
    <3> QED
      BY <1>1, <2>4, <2>6, <3>1, <3>2
  <2> QED
    BY <1>1, <2>4, <2>5, <2>6
<1>8. s.closed \in BOOLEAN
  BY DEF Bounds
<1>9. Left(s) \in Int /\ Room(s) \in Int
  BY <1>3 DEF Left
<1> QED
  BY <1>4, <1>5, <1>6, <1>7, <1>8, <1>9

\* New iterations are at work at once, and their activations belong to them.
LEMMA GrowsInside ==
  ASSUME IInv, Scoped, NEW ls, Grows(ls)
  PROVE  /\ \A a \in pending' \union running' : Inside(a.scope)
         /\ pending \subseteq pending'
         /\ \A l \in DOMAIN ls : \A i \in Opened(ls[l]) : ls[l].targets # {} =>
              \E a \in pending' \union running : Iteration(l, i) \in a.scope.within
<1> DEFINE offers == Fresh(BodyOffers(ls))
<1>1. PICK f \in Numberings(offers, sequence) : pending' = pending \union Queued(offers, f)
  BY DEF Grows, Enqueue
<1>2. \A q \in Queued(offers, f) : \E o \in offers : q.scope = o.scope
  BY DEF Queued
<1>3. \A o \in offers : \E q \in Queued(offers, f) : q.scope = o.scope
  <2> SUFFICES ASSUME NEW o \in offers PROVE \E q \in Queued(offers, f) : q.scope = o.scope
    OBVIOUS
  <2> DEFINE q == [node |-> o.node, scope |-> o.scope, seq |-> f[o], slot |-> f[o]]
  <2>1. q \in Queued(offers, f)
    BY DEF Queued
  <2>2. q.scope = o.scope
    OBVIOUS
  <2> QED
    BY <2>1, <2>2
<1>4. \A o \in BodyOffers(ls) : Inside(o.scope)
  <2>1. \A l, s, i : Inside(IterationScope(l, s, i))
    BY DEF Inside, IterationScope
  <2> QED
    BY <2>1 DEF BodyOffers
<1>5. \A a \in pending' \union running' : Inside(a.scope)
  BY <1>1, <1>2, <1>4 DEF Scoped, Grows, Fresh
<1>6. ASSUME NEW l \in DOMAIN ls, NEW i \in Opened(ls[l]), NEW t \in ls[l].targets
      PROVE  \E a \in pending' \union running : Iteration(l, i) \in a.scope.within
  <2> DEFINE o == [node |-> t, scope |-> IterationScope(l, ls[l].scope, i)]
  <2>1. o \in BodyOffers(ls)
    BY DEF BodyOffers
  <2>2. Iteration(l, i) \in o.scope.within /\ o.scope.group = Iteration(l, i)
    BY DEF IterationScope
  <2> HIDE DEF o
  <2>3. CASE o \in offers
    BY <1>1, <1>3, <2>2, <2>3
  <2>4. CASE o \notin offers
    <3>1. PICK a \in pending \union running : a.scope.group = Iteration(l, i)
      BY <2>1, <2>2, <2>4 DEF Fresh
    <3>2. ScopeOK(a.scope, loops)
      BY DEF IInv, Placed
    <3>3. a.scope.lineage # Root
      BY <3>1, <3>2, IterationShape DEF ScopeOK
    <3>4. Iteration(l, i) \in a.scope.within
      BY <3>1, <3>3 DEF Scoped, Inside
    <3> QED
      BY <1>1, <3>4
  <2> QED
    BY <2>3, <2>4
<1> QED
  BY <1>1, <1>5, <1>6

\* Settling leaves every loop through or at work.
LEMMA SettlePass == ASSUME IInv, PassInv, Settle PROVE PassInv'
<1> DEFINE ls == Settled
<1>1. /\ Grows(ls) /\ DOMAIN ls = DOMAIN loops /\ DOMAIN loops' = DOMAIN loops
      /\ \A l \in DOMAIN loops : LoopState(ls[l]) /\ loops'[l] = Filled(l, ls[l])
  BY SettleGrows
<1>2. pc = "settle" /\ running' = running /\ hand' = hand
      /\ pc' \in {"routes", "start"} /\ (pc' = "routes" => hand # NULL)
  BY DEF Settle
<1>3. ASSUME NEW l \in DOMAIN loops
      PROVE  /\ Bounds(ls[l]) /\ Turns(ls[l])
             /\ \A g \in ls[l].active : Live(g)
  <2>1. LoopState(loops[l]) /\ Bounds(loops[l]) /\ Turns(loops[l])
    BY <1>2 DEF IInv, LoopsOK, PassInv, Paced
  <2>2. /\ ls[l].items = loops[l].items /\ ls[l].conc = loops[l].conc
        /\ ls[l].targets = loops[l].targets /\ ls[l].infinite = loops[l].infinite
        /\ ls[l].closed = loops[l].closed /\ ls[l].next = loops[l].next
        /\ ls[l].active = {g \in loops[l].active : Live(g)}
    BY <2>1 DEF Settled, LoopState
  <2> HIDE DEF ls
  <2> QED
    BY <2>1, <2>2 DEF Bounds, Turns
<1> HIDE DEF ls
<1>4. /\ \A a \in pending' \union running' : Inside(a.scope)
      /\ pending \subseteq pending'
      /\ \A l \in DOMAIN ls : \A i \in Opened(ls[l]) : ls[l].targets # {} =>
           \E a \in pending' \union running : Iteration(l, i) \in a.scope.within
  BY <1>1, GrowsInside DEF PassInv
<1>5. Scoped'
  BY <1>2, <1>4 DEF PassInv, Scoped
<1>6. ASSUME NEW l \in DOMAIN loops
      PROVE  Bounds(loops'[l]) /\ Turns(loops'[l]) /\ Held(loops'[l], pending' \union running')
  <2>1. loops'[l] = Filled(l, ls[l])
    BY <1>1
  <2>2. /\ Bounds(Filled(l, ls[l])) /\ Turns(Filled(l, ls[l]))
        /\ ls[l].active \subseteq Filled(l, ls[l]).active
        /\ \/ Filled(l, ls[l]).closed
           \/ Filled(l, ls[l]).next = Filled(l, ls[l]).items
           \/ ls[l].active # {}
           \/ /\ ls[l].targets # {} /\ ls[l].next \in Opened(ls[l])
              /\ Iteration(l, ls[l].next) \in Filled(l, ls[l]).active
    BY <1>1, <1>3, FillPace
  <2>3. CASE ls[l].active # {}
    <3>1. PICK g \in ls[l].active : Live(g)
      BY <1>3, <2>3
    <3>2. \E a \in pending' \union running' : g \in a.scope.within
      BY <1>2, <1>4, <3>1 DEF Live
    <3> QED
      BY <2>1, <2>2, <3>2 DEF Held
  <2>4. CASE /\ ls[l].targets # {} /\ ls[l].next \in Opened(ls[l])
             /\ Iteration(l, ls[l].next) \in Filled(l, ls[l]).active
    BY <1>1, <1>2, <1>4, <2>1, <2>2, <2>4 DEF Held
  <2> QED
    BY <2>1, <2>2, <2>3, <2>4 DEF Held
<1>7. Paced'
  BY <1>1, <1>2, <1>6 DEF Paced
<1>8. PassIsEarned'
  BY <1>2 DEF PassIsEarned
<1> QED
  BY <1>5, <1>7, <1>8 DEF PassInv

\* Opening a loop: it may be the one that keeps _fill_loop_capacity going.
LEMMA OpenLoopPass ==
  ASSUME IInv, PassInv, pc = "await", NEW a \in running, NEW outcome, NEW chosen, NEW soiled,
         OpenLoop(a, outcome, chosen, soiled), running' = running \ {a}
  PROVE  PassInv'
<1> DEFINE l == Lineage(a)
           state == OpenState(a, outcome, chosen)
           ls == Opening(a, outcome, chosen)
<1>1. /\ Grows(ls) /\ DOMAIN loops' = DOMAIN loops \union {l}
      /\ \A m \in DOMAIN loops : loops'[m] = loops[m]
      /\ LoopState(state) /\ loops'[l] = Filled(l, state)
  BY OpenLoopGrows
<1>2. /\ pc' = IF Spins(state) THEN "spin" ELSE "settle"
      /\ hand' = IF Finish[a.node] = NULL THEN NULL ELSE [act |-> a, chosen |-> chosen]
      /\ a.node \in Loops
  BY DEF OpenLoop
<1>3. /\ state.closed = FALSE /\ state.next = 0 /\ state.active = {}
      /\ state.conc \in Nat \ {0} /\ state.items \in Nat /\ state.infinite \in BOOLEAN
  <2>1. Source[a.node] \in [items : Nat, infinite : BOOLEAN, conc : Nat \ {0}, failFast : BOOLEAN]
    BY <1>2, LoopsAssumption
  <2>2. /\ Source[a.node].items \in Nat /\ Source[a.node].conc \in Nat \ {0}
        /\ Source[a.node].infinite \in BOOLEAN
    BY <2>1
  <2>3. state.infinite = (outcome = "success" /\ Source[a.node].infinite)
    BY DEF OpenState
  <2>4. state.infinite \in BOOLEAN
    BY <2>3
  <2> QED
    BY <2>2, <2>4 DEF OpenState
<1> HIDE DEF l, state, ls
<1>4. Bounds(state)
  <2>1. state.closed \in BOOLEAN /\ state.infinite \in BOOLEAN
    BY <1>3, Zenon
  <2>2. state.conc > 0 /\ state.next <= state.items
    BY <1>3
  <2> QED
    BY <2>1, <2>2, Zenon DEF Bounds
<1>5. pc' # "spin" => Turns(state)
  <2>1. Room(state) > 0
    BY <1>3, FS_EmptySet DEF Room
  <2> QED
    BY <1>2, <1>3, <2>1 DEF Spins, Turns
<1>6. Bounds(loops'[l]) /\ (pc' # "spin" => Turns(loops'[l]))
  BY <1>1, <1>4, <1>5, FillPace
<1>7. Paced'
  BY <1>1, <1>2, <1>6 DEF PassInv, Paced
<1>8. Scoped'
  <2>1. \A b \in pending' \union running' : Inside(b.scope)
    BY <1>1, GrowsInside DEF PassInv
  <2>2. Inside(a.scope)
    BY DEF PassInv, Scoped
  <2>3. hand' # NULL => hand'.act = a
    BY <1>2
  <2>4. pc' # "routes"
    BY <1>2
  <2> QED
    BY <2>1, <2>2, <2>3, <2>4 DEF Scoped
<1>9. PassIsEarned'
  BY <1>2 DEF PassIsEarned
<1> QED
  BY <1>7, <1>8, <1>9 DEF PassInv

\* Steps that open nothing and do not lead to a start.
LEMMA PassKept ==
  ASSUME PassInv, pc # "spin", DOMAIN loops' = DOMAIN loops,
         \A l \in DOMAIN loops : Bounds(loops'[l]) /\ Turns(loops'[l]),
         \A a \in pending' \union running' : Inside(a.scope),
         hand' # NULL \/ pc' = "routes" => Inside(hand'.act.scope),
         pc' \notin {"start", "await"}, pc' = "ended" => error' # NULL
  PROVE  PassInv'
BY DEF PassInv, Scoped, Paced, PassIsEarned

\* Completions.
LEMMA ProcessPass ==
  ASSUME IInv, PassInv, pc = "await", NEW a \in running, NEW outcome, NEW chosen, NEW soiled,
         Process(a, outcome, chosen, soiled)
  PROVE  PassInv'
<1>1. running' = running \ {a}
  BY DEF Process
<1>2. /\ \A l \in DOMAIN loops : Bounds(loops[l]) /\ Turns(loops[l])
      /\ \A b \in pending \union running : Inside(b.scope)
      /\ hand # NULL => Inside(hand.act.scope)
  BY DEF PassInv, Scoped, Paced
<1>3. CASE DeferFailure(a, outcome)
  BY <1>1, <1>2, <1>3, PassKept DEF DeferFailure
<1>4. CASE FatalFailure(a, outcome)
  BY <1>1, <1>2, <1>4, PassKept, NoValueAssumption DEF FatalFailure
<1>5. CASE OpenLoop(a, outcome, chosen, soiled)
  BY <1>1, <1>5, OpenLoopPass
<1>6. CASE CloseLoop(a, outcome, chosen)
  <2>1. PICK l : loops' = [loops EXCEPT ![l].closed = TRUE]
    BY <1>6 DEF CloseLoop
  <2>2. pending' \subseteq pending /\ pc' = "settle" /\ hand'.act = a
    BY <1>6 DEF CloseLoop
  <2>3. DOMAIN loops' = DOMAIN loops
    BY <2>1
  <2>4. ASSUME NEW m \in DOMAIN loops PROVE Bounds(loops'[m]) /\ Turns(loops'[m])
    <3>1. loops'[m] = loops[m] \/ loops'[m] = [loops[m] EXCEPT !.closed = TRUE]
      BY <2>1
    <3>2. LoopState(loops[m]) /\ Bounds(loops[m]) /\ Turns(loops[m])
      BY <1>2 DEF IInv, LoopsOK
    <3>3. CASE loops'[m] = [loops[m] EXCEPT !.closed = TRUE]
      <4>1. /\ loops'[m].closed = TRUE /\ loops'[m].infinite = loops[m].infinite
            /\ loops'[m].conc = loops[m].conc /\ loops'[m].next = loops[m].next
            /\ loops'[m].items = loops[m].items
        BY <3>2, <3>3 DEF LoopState
      <4> QED
        BY <3>2, <4>1 DEF Bounds, Turns
    <3> QED
      BY <3>1, <3>2, <3>3
  <2> QED
    BY <1>1, <1>2, <2>2, <2>3, <2>4, PassKept
<1>7. CASE BreakOutsideLoop(a, outcome)
  BY <1>1, <1>2, <1>7, PassKept, NoValueAssumption DEF BreakOutsideLoop
<1>8. CASE CompleteTask(a, outcome, chosen)
  <2>1. hand'.act = a
    BY <1>8 DEF CompleteTask
  <2> QED
    BY <1>1, <1>2, <1>8, <2>1, PassKept DEF CompleteTask
<1> QED
  BY <1>3, <1>4, <1>5, <1>6, <1>7, <1>8 DEF Process

\* A pass of _start_runnable keeps every activation's scope.
LEMMA StartPass ==
  ASSUME IInv, PassInv, pc = "start", NEW c \in Candidates, NEW s \in SUBSET c, Start(s),
         pc' = "await" \/ (pc' = "ended" /\ error' # NULL)
  PROVE  PassInv'
<1>1. PICK f \in RunNumbers(s) : running' = running \union Begun(s, f)
  BY DEF Start
<1>2. pending' = pending \ s /\ loops' = loops /\ hand' = hand
  BY DEF Start
<1>3. s \subseteq pending
  BY DEF Candidates, Unlocked
<1>4. \A b \in Begun(s, f) : \E p \in s : b.scope = p.scope
  BY DEF Begun
<1>5. \A p \in s : \E b \in Begun(s, f) : b.scope = p.scope
  <2> SUFFICES ASSUME NEW p \in s PROVE \E b \in Begun(s, f) : b.scope = p.scope
    OBVIOUS
  <2> DEFINE b == [node |-> p.node, scope |-> p.scope, run |-> f[p], from |-> ReplayIndex(p)]
  <2>1. b \in Begun(s, f)
    BY DEF Begun
  <2>2. b.scope = p.scope
    OBVIOUS
  <2> QED
    BY <2>1, <2>2
<1> DEFINE as == pending \union running
           bs == pending' \union running'
<1>6. /\ \A b \in bs : \E a \in as : b.scope = a.scope
      /\ \A a \in as : \E b \in bs : b.scope = a.scope
  BY <1>1, <1>2, <1>3, <1>4, <1>5
<1>7. Scoped'
  BY <1>2, <1>6 DEF PassInv, Scoped
<1>8. \A l \in DOMAIN loops : Held(loops[l], bs)
  <2>1. \A l \in DOMAIN loops : Held(loops[l], as)
    BY DEF PassInv, Paced
  <2> HIDE DEF as, bs
  <2> QED
    BY <1>6, <2>1 DEF Held
<1>9. Paced'
  BY <1>2, <1>8 DEF PassInv, Paced
<1>10. PassIsEarned'
  BY DEF PassIsEarned
<1> QED
  BY <1>7, <1>9, <1>10 DEF PassInv

\* Every step keeps the loops going.
LEMMA StepPass == IInv /\ PassInv /\ [Next]_vars => PassInv'
<1> SUFFICES ASSUME IInv, PassInv, [Next]_vars PROVE PassInv'
  OBVIOUS
<1>1. ASSUME NEW a \in running, Complete(a) PROVE PassInv'
  BY <1>1, ProcessPass DEF Complete
<1>2. ASSUME NEW a \in running, ReplayNext(a) PROVE PassInv'
  BY <1>2, ProcessPass DEF ReplayNext
<1>3. /\ pc # "spin" => \A l \in DOMAIN loops : Bounds(loops[l]) /\ Turns(loops[l])
      /\ \A b \in pending \union running : Inside(b.scope)
  BY DEF PassInv, Scoped, Paced
<1>4. CASE FinishFail
  BY <1>3, <1>4, PassKept, NoValueAssumption DEF FinishFail
<1>5. CASE Emit
  <2>1. PICK queued, k : QueueOK(queued) /\ pending' = Joined(queued, k)
    BY <1>5, EmitQueue
  <2>2. Inside(hand.act.scope)
    BY <1>5 DEF Emit, PassInv, Scoped
  <2>3. \A q \in queued : Inside(q.scope)
    BY <1>3, <2>1, <2>2 DEF QueueOK
  <2>4. \A t \in MergingIn(queued) : Inside(Merge(WaitingIn(queued, t), k).scope)
    BY <2>1, MergeShape DEF Inside
  <2>5. \A p \in pending' : Inside(p.scope)
    BY <2>1, <2>3, <2>4 DEF Joined
  <2>6. pc = "routes" /\ pc' = "settle" /\ hand' = NULL /\ running' = running /\ loops' = loops
    BY <1>5 DEF Emit
  <2> QED
    BY <1>3, <2>5, <2>6, PassKept
<1>6. CASE Settle
  BY <1>6, SettlePass
<1>7. CASE StartRunnable
  <2>1. PICK c \in Candidates : Start(c)
    BY <1>7 DEF StartRunnable
  <2>2. PICK s \in SUBSET c : Start(s)
    BY <2>1
  <2>3. pc = "start" /\ pc' = "await"
    BY <1>7 DEF StartRunnable
  <2> QED
    BY <2>2, <2>3, StartPass
<1>8. CASE BudgetExceeded
  <2>1. PICK c \in Candidates : \E s \in SUBSET c : Start(s)
    BY <1>8 DEF BudgetExceeded
  <2>2. PICK s \in SUBSET c : Start(s)
    BY <2>1
  <2>3. pc = "start" /\ pc' = "ended" /\ error' # NULL
    BY <1>8, NoValueAssumption DEF BudgetExceeded
  <2> QED
    BY <2>2, <2>3, StartPass
<1>9. CASE FinishReplay
  BY <1>9 DEF FinishReplay, PassInv, Scoped, Paced, PassIsEarned
<1>10. CASE Quiesce
  <2>1. /\ pc = "await" /\ pc' = "ended" /\ running = {}
        /\ UNCHANGED <<hand, pending, running, loops, deferred>>
    BY <1>10 DEF Quiesce
  <2>2. error' = NULL => ~deferred /\ pending = {}
    BY <1>10, NoValueAssumption DEF Quiesce
  <2>3. pending = {} => \A l \in DOMAIN loops : loops[l].closed \/ loops[l].next = loops[l].items
    BY <2>1 DEF PassInv, Paced, Held
  <2>4. PassIsEarned'
    BY <2>1, <2>2, <2>3 DEF PassIsEarned
  <2> QED
    BY <2>1, <2>4 DEF PassInv, Scoped, Paced
<1>11. CASE Interrupt
  BY <1>11, NoValueAssumption DEF Interrupt, PassInv, Scoped, Paced, PassIsEarned
<1>12. CASE Resume
  <2>1. /\ running' = {} /\ loops' = << >> /\ hand' = NULL /\ pc' = "start"
        /\ \E f : pending' = Queued(InitialOffers, f)
    BY <1>12 DEF Resume, Begin
  <2>2. DOMAIN loops' = {}
    BY <2>1
  <2>3. \A p \in pending' : Inside(p.scope)
    BY <2>1 DEF Queued, InitialOffers, InitialScope, Inside
  <2> QED
    BY <2>1, <2>2, <2>3 DEF PassInv, Scoped, Paced, PassIsEarned
<1>13. CASE UNCHANGED vars
  BY <1>13 DEF vars, PassInv, Scoped, Paced, PassIsEarned
<1> QED
  BY <1>1, <1>2, <1>4, <1>5, <1>6, <1>7, <1>8, <1>9, <1>10, <1>11, <1>12, <1>13
  DEF Next, Step, Over, Spin

\* A new scheduler has no loops.
LEMMA InitPass == Init => PassInv
<1> SUFFICES ASSUME Init PROVE PassInv
  OBVIOUS
<1>1. /\ running = {} /\ loops = << >> /\ hand = NULL /\ pc = "start"
      /\ \E f : pending = Queued(InitialOffers, f)
  BY DEF Init
<1>2. DOMAIN loops = {}
  BY <1>1
<1>3. \A p \in pending : Inside(p.scope)
  BY <1>1 DEF Queued, InitialOffers, InitialScope, Inside
<1> QED
  BY <1>1, <1>2, <1>3 DEF PassInv, Scoped, Paced, PassIsEarned

\* In every workflow a run that passes has nothing left to do, no failure that was
\* put off, and no loop that stopped before its last item without a break.
THEOREM PassesAreEarned == Spec => []PassIsEarned
<1>1. PassInv => PassIsEarned
  BY DEF PassInv
<1> QED
  BY <1>1, InitPass, StepPass, Invariant, PTL DEF Spec

\* In every workflow, failures that are put off included, only work that waits
\* for what it needs keeps a loop from its remaining items.
THEOREM LoopsRunOut == Spec => []FailuresDoNotStopLoops
<1>1. PassInv => FailuresDoNotStopLoops
  BY DEF PassInv, Paced, Held, FailuresDoNotStopLoops
<1> QED
  BY <1>1, InitPass, StepPass, Invariant, PTL DEF Spec

-----------------------------------------------------------------------------
(* Signals that wait become one activation.                                *)

\* Setting up new iterations satisfies nothing in a lineage that has work waiting.
LEMMA NothingSatisfied ==
  ASSUME IInv, NEW ls, Grows(ls), NEW sat, NEW p \in pending, NEW m,
         <<p.scope.lineage, m>> \in Inherited(ls, sat)
  PROVE  <<p.scope.lineage, m>> \in sat
<1>1. \A k \in NewIterations(ls) : k[1] # p.scope.lineage
  <2> SUFFICES ASSUME NEW k \in NewIterations(ls) PROVE k[1] # p.scope.lineage
    OBVIOUS
  <2>1. PICK l \in DOMAIN ls : \E i \in Opened(ls[l]) :
          k = <<Iteration(l, i), l, ls[l].scope.lineage>>
    BY DEF NewIterations
  <2>2. PICK i \in Opened(ls[l]) : k = <<Iteration(l, i), l, ls[l].scope.lineage>>
    BY <2>1
  <2>3. Iteration(l, i) # p.scope.lineage
    BY NewIteration
  <2> QED
    BY <2>2, <2>3
<1> QED
  BY <1>1 DEF Inherited

\* What waits at a node that a completion unlocks is one activation afterwards.
LEMMA EmitMerges ==
  ASSUME IInv, Emit, NEW n \in Nodes, NEW lineage,
         ~LineageIsUnlocked(n, lineage, satisfied), LineageIsUnlocked(n, lineage, satisfied')
  PROVE  Cardinality({p \in Of(pending', n) : p.scope.lineage = lineage}) <= 1
<1>1. PICK queued, k : QueueOK(queued) /\ pending' = Joined(queued, k)
  BY EmitQueue
<1>2. satisfied' = satisfied \union {<<hand.act.scope.lineage, hand.act.node>>}
  BY DEF Emit
<1>3. lineage = hand.act.scope.lineage
  BY <1>2 DEF LineageIsUnlocked
<1> DEFINE T == {p \in Of(pending', n) : p.scope.lineage = lineage}
           W == WaitingIn(queued, n)
<1>4. IsFiniteSet(W) /\ Cardinality(W) \in Nat
  BY <1>1, FS_Subset, FS_CardinalityType DEF QueueOK, WaitingIn
<1>5. CASE Cardinality(W) > 1
  <2>1. n \in MergingIn(queued)
    BY <1>2, <1>3, <1>5 DEF MergingIn, Unlocks
  <2>2. ASSUME NEW p \in T PROVE p = Merge(W, k)
    <3>1. p \in Joined(queued, k) /\ p.node = n /\ p.scope.lineage = hand.act.scope.lineage
      BY <1>1, <1>3 DEF Of
    <3>2. CASE p \in queued \ UNION {WaitingIn(queued, t) : t \in MergingIn(queued)}
      <4>1. p \in W
        BY <3>1, <3>2 DEF WaitingIn
      <4> QED
        BY <2>1, <3>2, <4>1
    <3>3. ASSUME NEW t \in MergingIn(queued), p = Merge(WaitingIn(queued, t), k)
          PROVE  p = Merge(W, k)
      <4>1. Merge(WaitingIn(queued, t), k).node = t
        BY <1>1, MergeShape
      <4> QED
        BY <3>1, <3>3, <4>1
    <3> QED
      BY <3>1, <3>2, <3>3 DEF Joined
  <2>3. T \subseteq {Merge(W, k)}
    BY <2>2
  <2>4. IsFiniteSet({Merge(W, k)}) /\ Cardinality({Merge(W, k)}) = 1
    BY FS_Singleton
  <2> HIDE DEF T, W
  <2>5. Cardinality(T) <= Cardinality({Merge(W, k)})
    BY <2>3, <2>4, FS_Subset
  <2> QED
    BY <2>4, <2>5 DEF T
<1>6. CASE ~(Cardinality(W) > 1)
  <2>1. n \notin MergingIn(queued)
    BY <1>6 DEF MergingIn
  <2>2. ASSUME NEW p \in T PROVE p \in W
    <3>1. p \in Joined(queued, k) /\ p.node = n /\ p.scope.lineage = hand.act.scope.lineage
      BY <1>1, <1>3 DEF Of
    <3>2. \A t \in MergingIn(queued) : p # Merge(WaitingIn(queued, t), k)
      BY <1>1, <2>1, <3>1, MergeShape
    <3> QED
      BY <3>1, <3>2 DEF Joined, WaitingIn
  <2>3. T \subseteq W
    BY <2>2
  <2> HIDE DEF T, W
  <2>4. Cardinality(T) <= Cardinality(W) /\ Cardinality(T) \in Nat
    BY <1>4, <2>3, FS_Subset, FS_CardinalityType
  <2> QED
    BY <1>4, <1>6, <2>4 DEF T
<1> QED
  BY <1>5, <1>6

\* In every workflow the signals that wait at a locked node become one activation
\* at the completion that unlocks it, unless that is a loop's.
THEOREM UnlocksMerge == Spec => UnlockCoalesces
<1>1. IInv /\ [Next]_vars
        => [\A n \in Nodes : \A lineage \in {p.scope.lineage : p \in pending} :
              ~LineageIsUnlocked(n, lineage, satisfied)
                /\ LineageIsUnlocked(n, lineage, satisfied')
                /\ ~(\E l \in Loops : <<lineage, l>> \in satisfied' \ satisfied)
                => Cardinality({p \in Of(pending', n) : p.scope.lineage = lineage}) <= 1]_vars
  <2> SUFFICES ASSUME IInv, Next, NEW n \in Nodes, NEW p \in pending,
                      ~LineageIsUnlocked(n, p.scope.lineage, satisfied),
                      LineageIsUnlocked(n, p.scope.lineage, satisfied'),
                      ~(\E l \in Loops : <<p.scope.lineage, l>> \in satisfied' \ satisfied)
               PROVE  Cardinality({q \in Of(pending', n) : q.scope.lineage = p.scope.lineage}) <= 1
    OBVIOUS
  <2>1. PICK m \in Needs[n] : /\ <<p.scope.lineage, m>> \notin satisfied
                              /\ <<p.scope.lineage, m>> \in satisfied'
    BY DEF LineageIsUnlocked
  <2>2. CASE Emit
    BY <2>2, EmitMerges
  <2>3. CASE Settle
    <3>1. Grows(Settled) /\ satisfied' = Inherited(Settled, satisfied)
      BY <2>3, SettleGrows
    <3> QED
      BY <2>1, <3>1, NothingSatisfied
  <2>4. ASSUME NEW a \in running, NEW outcome, NEW chosen, NEW soiled,
               Process(a, outcome, chosen, soiled)
        PROVE  FALSE
    <3>1. OpenLoop(a, outcome, chosen, soiled) /\ running' = running \ {a}
      BY <2>1, <2>4 DEF Process, DeferFailure, FatalFailure, CloseLoop, BreakOutsideLoop, CompleteTask
    <3>2. /\ Grows(Opening(a, outcome, chosen))
          /\ satisfied' = Inherited(Opening(a, outcome, chosen),
                                    satisfied \union {<<a.scope.lineage, a.node>>})
      BY <3>1, OpenLoopGrows
    <3>3. <<p.scope.lineage, m>> \in satisfied \union {<<a.scope.lineage, a.node>>}
      BY <2>1, <3>2, NothingSatisfied
    <3>4. m \in Loops
      BY <2>1, <3>1, <3>3 DEF OpenLoop
    <3> QED
      BY <2>1, <3>4
  <2>5. CASE Resume
    BY <2>1, <2>5 DEF Resume, Begin
  <2> QED
    BY <2>1, <2>2, <2>3, <2>4, <2>5
    DEF Next, Step, Complete, ReplayNext, FinishFail, StartRunnable, BudgetExceeded, Start,
        FinishReplay, Quiesce, Interrupt, Over, Spin, vars
<1> QED
  BY <1>1, Invariant, PTL DEF Spec, UnlockCoalesces

-----------------------------------------------------------------------------
(* The width of loops.  A loop inside a loop is not counted: settling drops *)
(* an iteration whose inner loop is about to open its next item, so that    *)
(* the outer loop may be wider than its max-concurrency.                    *)

\* No loop was opened inside another.
Flat == \A l \in DOMAIN loops : loops[l].scope.loops = {}

\* An activation outside loops is work of no iteration; the iterations it is work
\* of are counted by their loops.
Known(s, ls) ==
  /\ {"loops", "within"} \subseteq DOMAIN s
  /\ s.loops = {} => s.within = {}
  /\ \A g \in s.within : \E l \in DOMAIN ls : \E i \in Nat : g = Iteration(l, i) /\ g \in ls[l].active

\* A completion that waits for loops to be settled has no routes, so nothing is
\* emitted for an iteration that was dropped meanwhile.
HandKept ==
  /\ pc \in {"start", "await"} => hand = NULL
  /\ pc = "settle" /\ hand # NULL => Routes[hand.act.node] = {}
  /\ pc = "routes" => Routes[hand.act.node] = {} \/ Known(hand.act.scope, loops)

WidthInv ==
  /\ HandKept
  /\ \A a \in pending \union running : Known(a.scope, loops)
  /\ \A l \in DOMAIN loops :
       /\ loops[l].scope.loops = {} => loops[l].scope.within = {}
       /\ Cardinality(loops[l].active) <= loops[l].conc

\* Filling a loop stays within its width.
LEMMA FillWidth ==
  ASSUME NEW l, NEW s, LoopState(s), Cardinality(s.active) <= s.conc
  PROVE  /\ Cardinality(Filled(l, s).active) <= Filled(l, s).conc
         /\ Filled(l, s).scope = s.scope
         /\ s.active \subseteq Filled(l, s).active
         /\ \A i \in Opened(s) : s.targets # {} => Iteration(l, i) \in Filled(l, s).active
<1> DEFINE J == {j \in Opened(s) : s.targets # {}}
           g == [i \in J |-> Iteration(l, i)]
           N == {Iteration(l, i) : i \in J}
<1>1. /\ Filled(l, s).conc = s.conc /\ Filled(l, s).scope = s.scope
      /\ Filled(l, s).active = s.active \union N
  BY DEF Filled, LoopState
<1>2. PICK d \in Nat : d = Cardinality(s.active)
  BY FS_CardinalityType DEF LoopState
<1>3. Room(s) = s.conc - d /\ s.conc \in Nat /\ s.next \in Nat /\ s.items \in Nat /\ d <= s.conc
  BY <1>2 DEF Room, LoopState
<1>4. Count(s) \in Nat
  BY FillLoop
<1>5. s.targets # {} => Count(s) <= s.conc - d
  <2>1. CASE s.closed \/ Room(s) <= 0 \/ Left(s) <= 0
    BY <1>3, <2>1 DEF Count
  <2>2. CASE ~(s.closed \/ Room(s) <= 0 \/ Left(s) <= 0)
    BY <1>3, <2>2 DEF Count, Left
  <2> QED
    BY <2>1, <2>2
<1>6. IsFiniteSet(J) /\ Cardinality(J) <= s.conc - d
  <2>1. CASE s.targets = {}
    <3>1. J = {}
      BY <2>1
    <3> QED
      BY <1>3, <3>1, FS_EmptySet
  <2>2. CASE s.targets # {}
    <3>1. J = s.next..(s.next + Count(s) - 1)
      BY <2>2 DEF Opened
    <3>2. /\ IsFiniteSet(s.next..(s.next + Count(s) - 1))
          /\ Cardinality(s.next..(s.next + Count(s) - 1)) = Count(s)
      <4>1. PICK b \in Int : b = s.next + Count(s) - 1
        BY <1>3, <1>4
      <4>2. PICK n \in Int : n = s.next
        BY <1>3
      <4>3. IsFiniteSet(n..b) /\ Cardinality(n..b) = IF n > b THEN 0 ELSE b - n + 1
        BY FS_Interval
      <4>4. b = n + Count(s) - 1
        BY <4>1, <4>2
      <4>5. PICK c \in Nat : c = Count(s)
        BY <1>3, <1>4
      <4>6. (IF n > n + c - 1 THEN 0 ELSE (n + c - 1) - n + 1) = c
        OBVIOUS
      <4>7. Cardinality(n..b) = Count(s)
        BY <4>3, <4>4, <4>5, <4>6
      <4> QED
        BY <4>1, <4>2, <4>3, <4>7
    <3> QED
      BY <1>5, <2>2, <3>1, <3>2
  <2> QED
    BY <2>1, <2>2
<1>7. IsFiniteSet(N) /\ Cardinality(N) <= s.conc - d
  <2>1. N = {g[i] : i \in J}
    OBVIOUS
  <2>2. IsFiniteSet({g[i] : i \in J}) /\ Cardinality({g[i] : i \in J}) <= Cardinality(J)
    <3> HIDE DEF g, J
    <3> QED
      BY <1>6, FiniteImage
  <2> HIDE DEF N, g, J
  <2>3. Cardinality(J) \in Nat /\ Cardinality(N) \in Nat
    BY <1>6, <2>1, <2>2, FS_CardinalityType
  <2> QED
    BY <1>3, <1>6, <2>1, <2>2, <2>3
<1>8. Cardinality(s.active \union N) <= s.conc
  <2> HIDE DEF N
  <2>1. IsFiniteSet(s.active) /\ IsFiniteSet(s.active \intersect N)
    BY <1>7, FS_Intersection DEF LoopState
  <2>2. Cardinality(s.active \union N)
          = Cardinality(s.active) + Cardinality(N) - Cardinality(s.active \intersect N)
    BY <1>7, <2>1, FS_Union
  <2>3. Cardinality(N) \in Nat /\ Cardinality(s.active \intersect N) \in Nat
    BY <1>7, <2>1, FS_CardinalityType
  <2> QED
    BY <1>2, <1>3, <1>7, <2>2, <2>3
<1>9. \A i \in Opened(s) : s.targets # {} => Iteration(l, i) \in N
  OBVIOUS
<1> QED
  BY <1>1, <1>8, <1>9

\* The activations of new iterations are counted, where loops are not nested.
LEMMA GrowsKnown ==
  ASSUME NEW ls, Grows(ls),
         \A a \in pending \union running' : Known(a.scope, loops'),
         \A l \in DOMAIN ls : ls[l].scope.within = {},
         \A l \in DOMAIN ls : \A i \in Opened(ls[l]) :
           ls[l].targets # {} => Iteration(l, i) \in loops'[l].active
  PROVE  \A a \in pending' \union running' : Known(a.scope, loops')
<1> DEFINE offers == Fresh(BodyOffers(ls))
<1>1. PICK f \in Numberings(offers, sequence) : pending' = pending \union Queued(offers, f)
  BY DEF Grows, Enqueue
<1>2. \A q \in Queued(offers, f) : \E o \in BodyOffers(ls) : q.scope = o.scope
  BY DEF Queued, Fresh
<1>3. ASSUME NEW o \in BodyOffers(ls) PROVE Known(o.scope, loops')
  <2>1. PICK l \in DOMAIN ls : \E t \in ls[l].targets, i \in Opened(ls[l]) :
          o = [node |-> t, scope |-> IterationScope(l, ls[l].scope, i)]
    BY DEF BodyOffers
  <2>2. PICK t \in ls[l].targets, i \in Opened(ls[l]) :
          o = [node |-> t, scope |-> IterationScope(l, ls[l].scope, i)]
    BY <2>1
  <2>3. /\ {"loops", "within"} \subseteq DOMAIN o.scope
        /\ o.scope.within = {Iteration(l, i)} /\ l \in o.scope.loops
    BY <2>2 DEF IterationScope
  <2>4. i \in Nat /\ l \in DOMAIN loops'
    BY FillLoop DEF Grows, Opened, LoopState
  <2>5. Iteration(l, i) \in loops'[l].active
    BY <2>2
  <2> QED
    BY <2>3, <2>4, <2>5 DEF Known
<1> QED
  BY <1>1, <1>2, <1>3

\* Settling: an iteration that has work is not dropped.
LEMMA SettleWidth == ASSUME IInv, WidthInv, Flat, Settle PROVE WidthInv'
<1> DEFINE ls == Settled
<1>1. /\ Grows(ls) /\ DOMAIN ls = DOMAIN loops /\ DOMAIN loops' = DOMAIN loops
      /\ \A l \in DOMAIN loops : LoopState(ls[l]) /\ loops'[l] = Filled(l, ls[l])
  BY SettleGrows
<1>2. /\ pc = "settle" /\ running' = running /\ hand' = hand
      /\ pc' = IF hand # NULL THEN "routes" ELSE "start"
  BY DEF Settle
<1>3. ASSUME NEW l \in DOMAIN loops
      PROVE  /\ Cardinality(ls[l].active) <= ls[l].conc /\ ls[l].scope = loops[l].scope
             /\ ls[l].active = {g \in loops[l].active : Live(g)}
  <2>1. LoopState(loops[l]) /\ Cardinality(loops[l].active) <= loops[l].conc
    BY DEF IInv, LoopsOK, WidthInv
  <2>2. /\ ls[l].conc = loops[l].conc /\ ls[l].scope = loops[l].scope
        /\ ls[l].active = {g \in loops[l].active : Live(g)}
    BY <2>1 DEF Settled, LoopState
  <2> HIDE DEF ls
  <2>3. IsFiniteSet(loops[l].active) /\ loops[l].conc \in Nat
    BY <2>1 DEF LoopState
  <2>4. ls[l].active \subseteq loops[l].active
    BY <2>2
  <2>5. /\ Cardinality(ls[l].active) <= Cardinality(loops[l].active)
        /\ IsFiniteSet(ls[l].active)
    BY <2>3, <2>4, FS_Subset
  <2>6. Cardinality(ls[l].active) \in Nat /\ Cardinality(loops[l].active) \in Nat
    BY <2>3, <2>5, FS_CardinalityType
  <2> QED
    BY <2>1, <2>2, <2>3, <2>5, <2>6
<1> HIDE DEF ls
<1>4. ASSUME NEW l \in DOMAIN loops
      PROVE  /\ Cardinality(loops'[l].active) <= loops'[l].conc
             /\ loops'[l].scope = loops[l].scope
             /\ ls[l].active \subseteq loops'[l].active
             /\ \A i \in Opened(ls[l]) : ls[l].targets # {} => Iteration(l, i) \in loops'[l].active
  BY <1>1, <1>3, FillWidth
<1>5. ASSUME NEW a \in pending \union running PROVE Known(a.scope, loops')
  <2>1. Known(a.scope, loops)
    BY DEF WidthInv
  <2>2. ASSUME NEW g \in a.scope.within
        PROVE  \E l \in DOMAIN loops' : \E i \in Nat : g = Iteration(l, i) /\ g \in loops'[l].active
    <3>1. PICK l \in DOMAIN loops : \E i \in Nat : g = Iteration(l, i) /\ g \in loops[l].active
      BY <2>1 DEF Known
    <3>2. Live(g)
      BY DEF Live
    <3>3. g \in loops'[l].active
      BY <1>3, <1>4, <3>1, <3>2
    <3> QED
      BY <1>1, <3>1, <3>3
  <2> QED
    BY <2>1, <2>2 DEF Known
<1>6. \A l \in DOMAIN ls : ls[l].scope.within = {}
  BY <1>1, <1>3 DEF WidthInv, Flat
<1>7. \A a \in pending' \union running' : Known(a.scope, loops')
  BY <1>1, <1>2, <1>4, <1>5, <1>6, GrowsKnown
<1>8. HandKept'
  BY <1>2 DEF WidthInv, HandKept
<1> QED
  BY <1>1, <1>4, <1>7, <1>8 DEF WidthInv

\* Opening a loop that is not inside another.
LEMMA OpenLoopWidth ==
  ASSUME IInv, WidthInv, Flat', pc = "await", NEW a \in running, NEW outcome, NEW chosen,
         NEW soiled, OpenLoop(a, outcome, chosen, soiled), running' = running \ {a}
  PROVE  WidthInv'
<1> DEFINE l == Lineage(a)
           state == OpenState(a, outcome, chosen)
           ls == Opening(a, outcome, chosen)
<1>1. /\ Grows(ls) /\ l \notin DOMAIN loops /\ DOMAIN loops' = DOMAIN loops \union {l}
      /\ \A m \in DOMAIN loops : loops'[m] = loops[m]
      /\ LoopState(state) /\ loops'[l] = Filled(l, state)
  BY OpenLoopGrows
<1>2. /\ pc' \in {"spin", "settle"}
      /\ hand' = IF Finish[a.node] = NULL THEN NULL ELSE [act |-> a, chosen |-> chosen]
  BY DEF OpenLoop
<1>3. DOMAIN ls = {l} /\ ls[l] = state
  BY DEF Opening
<1>4. state.active = {} /\ state.scope = a.scope
  BY DEF OpenState
<1> HIDE DEF l, state, ls
<1>5. Cardinality(state.active) <= state.conc
  BY <1>1, <1>4, FS_EmptySet DEF LoopState
<1>6. /\ Cardinality(loops'[l].active) <= loops'[l].conc /\ loops'[l].scope = a.scope
      /\ \A i \in Opened(state) : state.targets # {} => Iteration(l, i) \in loops'[l].active
  <2>1. /\ Cardinality(Filled(l, state).active) <= Filled(l, state).conc
        /\ Filled(l, state).scope = state.scope
        /\ \A i \in Opened(state) :
             state.targets # {} => Iteration(l, i) \in Filled(l, state).active
    BY <1>1, <1>5, FillWidth
  <2> QED
    BY <1>1, <1>4, <2>1
<1>7. a.scope.loops = {} /\ a.scope.within = {}
  BY <1>1, <1>6 DEF Flat, WidthInv, Known
<1>8. \A b \in pending \union running' : Known(b.scope, loops')
  <2>1. \A b \in pending \union running' : Known(b.scope, loops)
    BY DEF WidthInv
  <2> QED
    BY <1>1, <2>1 DEF Known
<1>9. \A b \in pending' \union running' : Known(b.scope, loops')
  BY <1>1, <1>3, <1>4, <1>6, <1>7, <1>8, GrowsKnown
<1>10. HandKept'
  <2>1. a.node \in Nodes
    BY DEF IInv, Placed
  <2>2. hand' # NULL => hand'.act = a /\ Finish[a.node] # NULL
    BY <1>2
  <2> QED
    BY <1>2, <2>1, <2>2, TerminalAssumption DEF HandKept
<1> QED
  BY <1>1, <1>6, <1>7, <1>9, <1>10 DEF WidthInv

\* Steps that open nothing.
LEMMA WidthKept ==
  ASSUME WidthInv, DOMAIN loops' = DOMAIN loops, HandKept',
         \A l \in DOMAIN loops : /\ loops'[l].scope = loops[l].scope
                                 /\ loops'[l].active = loops[l].active
                                 /\ loops'[l].conc = loops[l].conc,
         \A a \in pending' \union running' : Known(a.scope, loops)
  PROVE  WidthInv'
<1>1. \A s : Known(s, loops) => Known(s, loops')
  BY DEF Known
<1> QED
  BY <1>1 DEF WidthInv

\* Completions.
LEMMA ProcessWidth ==
  ASSUME IInv, WidthInv, Flat', pc = "await", NEW a \in running, NEW outcome, NEW chosen,
         NEW soiled, Process(a, outcome, chosen, soiled)
  PROVE  WidthInv'
<1>1. running' = running \ {a} /\ hand = NULL /\ a.node \in Nodes
  BY DEF Process, WidthInv, HandKept, IInv, Placed
<1>2. \A b \in pending \union running : Known(b.scope, loops)
  BY DEF WidthInv
<1>3. CASE DeferFailure(a, outcome) \/ FatalFailure(a, outcome) \/ BreakOutsideLoop(a, outcome)
  <2>1. /\ loops' = loops /\ pending' = pending /\ hand' = NULL /\ pc' \in {"settle", "ended"}
    BY <1>1, <1>3 DEF DeferFailure, FatalFailure, BreakOutsideLoop
  <2>2. HandKept'
    BY <2>1 DEF HandKept
  <2> QED
    BY <1>1, <1>2, <2>1, <2>2, WidthKept
<1>4. CASE OpenLoop(a, outcome, chosen, soiled)
  BY <1>1, <1>4, OpenLoopWidth
<1>5. CASE CloseLoop(a, outcome, chosen)
  <2>1. PICK l : loops' = [loops EXCEPT ![l].closed = TRUE]
    BY <1>5 DEF CloseLoop
  <2>2. /\ pending' \subseteq pending /\ pc' = "settle" /\ hand' = [act |-> a, chosen |-> chosen]
        /\ a.node \in Breaks
    BY <1>5 DEF CloseLoop
  <2>3. HandKept'
    BY <1>1, <2>2, TerminalAssumption DEF HandKept
  <2>4. ASSUME NEW m \in DOMAIN loops
        PROVE  /\ loops'[m].scope = loops[m].scope /\ loops'[m].active = loops[m].active
               /\ loops'[m].conc = loops[m].conc
    <3>1. loops'[m] = loops[m] \/ loops'[m] = [loops[m] EXCEPT !.closed = TRUE]
      BY <2>1
    <3>2. LoopState(loops[m])
      BY DEF IInv, LoopsOK
    <3> QED
      BY <3>1, <3>2 DEF LoopState
  <2>5. DOMAIN loops' = DOMAIN loops
    BY <2>1
  <2> QED
    BY <1>1, <1>2, <2>2, <2>3, <2>4, <2>5, WidthKept
<1>6. CASE CompleteTask(a, outcome, chosen)
  <2>1. /\ loops' = loops /\ pending' = pending /\ pc' = "routes"
        /\ hand' = [act |-> a, chosen |-> chosen]
    BY <1>6 DEF CompleteTask
  <2>2. HandKept'
    BY <1>2, <2>1 DEF HandKept
  <2> QED
    BY <1>1, <1>2, <2>1, <2>2, WidthKept
<1> QED
  BY <1>3, <1>4, <1>5, <1>6 DEF Process

\* Starting activations moves their scopes along.
LEMMA StartWidth ==
  ASSUME WidthInv, pc = "start", NEW c \in Candidates, NEW s \in SUBSET c, Start(s),
         pc' \in {"await", "ended"}
  PROVE  WidthInv'
<1>1. PICK f \in RunNumbers(s) : running' = running \union Begun(s, f)
  BY DEF Start
<1>2. pending' = pending \ s /\ loops' = loops /\ hand' = hand /\ s \subseteq pending
  BY DEF Start, Candidates, Unlocked
<1>3. \A b \in Begun(s, f) : \E p \in s : b.scope = p.scope
  BY DEF Begun
<1>4. \A b \in pending' \union running' : Known(b.scope, loops)
  BY <1>1, <1>2, <1>3 DEF WidthInv
<1>5. HandKept'
  BY <1>2 DEF WidthInv, HandKept
<1> QED
  BY <1>2, <1>4, <1>5, WidthKept

\* What is emitted or merged is work of the iterations it was work of.
LEMMA EmitWidth == ASSUME IInv, WidthInv, Emit PROVE WidthInv'
<1>1. /\ pc = "routes" /\ pc' = "settle" /\ hand' = NULL /\ running' = running /\ loops' = loops
  BY DEF Emit
<1>2. PICK queued, k : QueueOK(queued) /\ pending' = Joined(queued, k)
  BY EmitQueue
<1>3. ASSUME NEW q \in queued PROVE Known(q.scope, loops) /\ "group" \in DOMAIN q.scope
  <2>1. q \in pending \/ (q.scope = hand.act.scope /\ Routes[hand.act.node] # {})
    BY <1>2 DEF QueueOK
  <2>2. ScopeOK(q.scope, loops)
    BY <1>2 DEF QueueOK
  <2> QED
    BY <1>1, <2>1, <2>2 DEF WidthInv, HandKept, ScopeOK
<1>4. ASSUME NEW t \in MergingIn(queued) PROVE Known(Merge(WaitingIn(queued, t), k).scope, loops)
  <2> DEFINE W == WaitingIn(queued, t)
             first == CHOOSE p \in W : TRUE
  <2>1. W # {}
    <3>1. Cardinality(W) > 1
      BY DEF MergingIn
    <3> HIDE DEF W
    <3> QED
      BY <3>1, FS_EmptySet
  <2>2. first \in queued
    BY <2>1 DEF WaitingIn
  <2>3. Merge(W, k).scope = [first.scope EXCEPT !.group = Merged(Groups(W))]
    BY DEF Merge
  <2>4. Known(first.scope, loops)
    BY <1>3, <2>2
  <2> HIDE DEF first
  <2>5. /\ DOMAIN Merge(W, k).scope = DOMAIN first.scope
        /\ Merge(W, k).scope.loops = first.scope.loops
        /\ Merge(W, k).scope.within = first.scope.within
    BY <2>3, <2>4 DEF Known
  <2> HIDE DEF W
  <2>6. Known(Merge(W, k).scope, loops)
    BY <2>4, <2>5 DEF Known
  <2> QED
    BY <2>6 DEF W
<1>5. \A p \in pending' : Known(p.scope, loops)
  BY <1>2, <1>3, <1>4 DEF Joined
<1>6. HandKept'
  BY <1>1 DEF HandKept
<1> QED
  BY <1>1, <1>5, <1>6, WidthKept DEF WidthInv

\* Where loops are not nested, every step keeps them within their width.
LEMMA StepWidth == IInv /\ WidthInv /\ Flat /\ Flat' /\ [Next]_vars => WidthInv'
<1> SUFFICES ASSUME IInv, WidthInv, Flat, Flat', [Next]_vars PROVE WidthInv'
  OBVIOUS
<1>1. ASSUME NEW a \in running, Complete(a) PROVE WidthInv'
  BY <1>1, ProcessWidth DEF Complete
<1>2. ASSUME NEW a \in running, ReplayNext(a) PROVE WidthInv'
  BY <1>2, ProcessWidth DEF ReplayNext
<1>3. \A b \in pending \union running : Known(b.scope, loops)
  BY DEF WidthInv
<1>4. CASE FinishFail \/ FinishReplay \/ Quiesce \/ Interrupt
  <2>1. /\ pending' = pending /\ running' = running /\ loops' = loops
        /\ hand' \in {hand, NULL} /\ pc' \in {pc, "ended"}
    BY <1>4 DEF FinishFail, FinishReplay, Quiesce, Interrupt
  <2>2. pc' = "ended" \/ (pc' = pc /\ hand' = hand)
    BY <1>4 DEF FinishFail, FinishReplay, Quiesce, Interrupt
  <2>3. HandKept'
    BY <2>1, <2>2 DEF WidthInv, HandKept
  <2> QED
    BY <1>3, <2>1, <2>3, WidthKept
<1>5. CASE Emit
  BY <1>5, EmitWidth
<1>6. CASE Settle
  BY <1>6, SettleWidth
<1>7. CASE StartRunnable
  <2>1. PICK c \in Candidates : Start(c)
    BY <1>7 DEF StartRunnable
  <2>2. PICK s \in SUBSET c : Start(s)
    BY <2>1
  <2>3. pc = "start" /\ pc' = "await"
    BY <1>7 DEF StartRunnable
  <2> QED
    BY <2>2, <2>3, StartWidth
<1>8. CASE BudgetExceeded
  <2>1. PICK c \in Candidates : \E s \in SUBSET c : Start(s)
    BY <1>8 DEF BudgetExceeded
  <2>2. PICK s \in SUBSET c : Start(s)
    BY <2>1
  <2>3. pc = "start" /\ pc' = "ended"
    BY <1>8 DEF BudgetExceeded
  <2> QED
    BY <2>2, <2>3, StartWidth
<1>9. CASE Resume
  <2>1. /\ running' = {} /\ loops' = << >> /\ hand' = NULL /\ pc' = "start"
        /\ \E f : pending' = Queued(InitialOffers, f)
    BY <1>9 DEF Resume, Begin
  <2>2. DOMAIN loops' = {}
    BY <2>1
  <2>3. \A p \in pending' : Known(p.scope, loops')
    BY <2>1 DEF Queued, InitialOffers, InitialScope, Known
  <2> QED
    BY <2>1, <2>2, <2>3 DEF WidthInv, HandKept
<1>10. CASE UNCHANGED vars
  BY <1>10 DEF vars, WidthInv, HandKept
<1> QED
  BY <1>1, <1>2, <1>4, <1>5, <1>6, <1>7, <1>8, <1>9, <1>10 DEF Next, Step, Over, Spin

\* A new scheduler has no loops to be too wide.
LEMMA InitWidth == Init => WidthInv
<1> SUFFICES ASSUME Init PROVE WidthInv
  OBVIOUS
<1>1. /\ running = {} /\ loops = << >> /\ hand = NULL /\ pc = "start"
      /\ \E f : pending = Queued(InitialOffers, f)
  BY DEF Init
<1>2. DOMAIN loops = {}
  BY <1>1
<1>3. \A p \in pending : Known(p.scope, loops)
  BY <1>1 DEF Queued, InitialOffers, InitialScope, Known
<1> QED
  BY <1>1, <1>2, <1>3 DEF WidthInv, HandKept

\* The iterations that have work are among those the loop counts.
LEMMA WidthBounds == ASSUME IInv, WidthInv PROVE LoopBound
<1> SUFFICES ASSUME NEW l \in DOMAIN loops
             PROVE  Cardinality({i \in 0..(loops[l].next - 1) : Live(Iteration(l, i))})
                      <= loops[l].conc
  BY DEF LoopBound
<1> DEFINE S == {i \in 0..(loops[l].next - 1) : Live(Iteration(l, i))}
           g == [i \in S |-> Iteration(l, i)]
           T == {g[i] : i \in S}
<1>1. Triple(l) /\ LoopState(loops[l]) /\ Cardinality(loops[l].active) <= loops[l].conc
  BY DEF IInv, LoopsOK, WidthInv
<1>2. IsFiniteSet(S)
  <2>1. PICK b \in Int : b = loops[l].next - 1
    BY <1>1 DEF LoopState
  <2>2. IsFiniteSet(0..b)
    BY FS_Interval
  <2> QED
    BY <2>1, <2>2, FS_Subset
<1>3. ASSUME NEW i \in S PROVE Iteration(l, i) \in loops[l].active
  <2>1. PICK a \in pending \union running : Iteration(l, i) \in a.scope.within
    BY DEF Live
  <2>2. Known(a.scope, loops)
    BY DEF WidthInv
  <2>3. PICK m \in DOMAIN loops, j \in Nat :
          Iteration(l, i) = Iteration(m, j) /\ Iteration(l, i) \in loops[m].active
    BY <2>1, <2>2 DEF Known
  <2>4. l = m
    BY <1>1, <2>3, IterationInjective DEF IInv, LoopsOK
  <2> QED
    BY <2>3, <2>4
<1>4. \A i, j \in S : g[i] = g[j] => i = j
  BY <1>1, IterationInjective
<1>5. T \subseteq loops[l].active
  BY <1>3
<1> HIDE DEF S, g
<1>6. Cardinality(T) = Cardinality(S)
  BY <1>2, <1>4, InjectiveImage
<1> HIDE DEF T
<1>7. IsFiniteSet(T) /\ Cardinality(T) <= Cardinality(loops[l].active)
  BY <1>1, <1>5, FS_Subset DEF LoopState
<1>8. /\ Cardinality(S) \in Nat /\ Cardinality(loops[l].active) \in Nat /\ loops[l].conc \in Nat
  BY <1>1, <1>2, FS_CardinalityType DEF LoopState
<1>9. Cardinality(S) <= loops[l].conc
  BY <1>1, <1>6, <1>7, <1>8
<1> QED
  BY <1>9 DEF S

\* In every workflow whose loops are not nested, no loop ever has more iterations
\* at work than its max-concurrency.
THEOREM LoopsAreBounded == Spec /\ []Flat => []LoopBound
<1>1. IInv /\ WidthInv => LoopBound
  BY WidthBounds
<1> QED
  BY <1>1, InitWidth, StepWidth, Invariant, PTL DEF Spec

\* In every workflow, nested loops included, a broken loop stays broken and opens
\* no iteration, also when a second break or a settling finds it.
THEOREM BrokenLoopsStop == Spec => BreakIsFinal
<1>1. ASSUME IInv, PassInv, [Next]_vars, NEW l \in DOMAIN loops, l \in DOMAIN loops', loops[l].closed
      PROVE  loops'[l].closed /\ loops'[l].next = loops[l].next
  <2>1. LoopState(loops[l]) /\ loops[l].closed = TRUE
    BY <1>1 DEF IInv, LoopsOK, PassInv, Paced, Bounds
  <2>2. CASE Settle
    <3> DEFINE s == Settled[l]
    <3>1. s.closed = TRUE /\ s.next = loops[l].next /\ LoopState(s) /\ loops'[l] = Filled(l, s)
      <4>1. s.closed = TRUE /\ s.next = loops[l].next
        BY <2>1 DEF Settled, LoopState
      <4> QED
        BY <1>1, <2>2, <4>1, SettleGrows
    <3> HIDE DEF s
    <3>2. Count(s) = 0
      BY <3>1 DEF Count
    <3>3. Filled(l, s).closed = s.closed /\ Filled(l, s).next = s.next
      BY <3>1, <3>2, FillLoop DEF Filled, LoopState
    <3> QED
      BY <3>1, <3>3
  <2>3. ASSUME NEW a \in running, NEW outcome, NEW chosen, NEW soiled,
               Process(a, outcome, chosen, soiled), pc = "await"
        PROVE  loops'[l].closed /\ loops'[l].next = loops[l].next
    <3>1. CASE OpenLoop(a, outcome, chosen, soiled)
      <4>1. running' = running \ {a}
        BY <2>3 DEF Process
      <4>2. loops'[l] = loops[l]
        BY <1>1, <3>1, <4>1, OpenLoopGrows
      <4> QED
        BY <1>1, <4>2
    <3>2. CASE CloseLoop(a, outcome, chosen)
      <4>1. PICK m : loops' = [loops EXCEPT ![m].closed = TRUE]
        BY <3>2 DEF CloseLoop
      <4>2. loops'[l] = loops[l] \/ loops'[l] = [loops[l] EXCEPT !.closed = TRUE]
        BY <4>1
      <4> QED
        BY <1>1, <2>1, <4>2 DEF LoopState
    <3>3. CASE loops' = loops
      BY <1>1, <3>3
    <3> QED
      BY <2>3, <3>1, <3>2, <3>3
      DEF Process, DeferFailure, FatalFailure, BreakOutsideLoop, CompleteTask
  <2>4. CASE Resume
    BY <1>1, <2>4 DEF Resume, Begin
  <2>5. CASE loops' = loops
    BY <1>1, <2>5
  <2> QED
    BY <1>1, <2>2, <2>3, <2>4, <2>5
    DEF Next, Step, Complete, ReplayNext, FinishFail, Emit, StartRunnable, BudgetExceeded, Start,
        FinishReplay, Quiesce, Interrupt, Over, Spin, vars
<1>2. IInv /\ PassInv /\ [Next]_vars =>
        [\A l \in DOMAIN loops \intersect DOMAIN loops' :
           loops[l].closed => loops'[l].closed /\ loops'[l].next = loops[l].next]_vars
  BY <1>1
<1> QED
  BY <1>2, InitPass, StepPass, Invariant, PTL DEF Spec, BreakIsFinal

\* In every workflow whose loops are not nested, loops run at most max-concurrency
\* iterations, go on although some fail, and open nothing once they are broken.
THEOREM LoopRulesHold == Spec /\ []Flat => LoopRules
BY LoopsAreBounded, LoopsRunOut, BrokenLoopsStop, PTL DEF LoopRules

-----------------------------------------------------------------------------
(* Types.                                                                  *)

\* Of the signals that are merged one is the oldest.
LEMMA OldestSignal ==
  ASSUME NEW W, W # {}, \A p \in W : p.seq \in Nat
  PROVE  \E p \in W : \A q \in W : p.seq <= q.seq
<1> DEFINE T == {p.seq : p \in W}
           R == OpToRel(<, Nat)
<1>1. T \subseteq Nat /\ T # {}
  OBVIOUS
<1>2. IsWellFoundedOn(R, Nat)
  BY NatLessThanWellFounded
<1>3. \A x, y \in Nat : y < x => <<y, x>> \in R
  BY DEF OpToRel
<1> HIDE DEF T, R
<1>4. PICK x \in T : \A y \in T : <<y, x>> \notin R
  BY <1>1, <1>2, WFMin
<1>5. ASSUME NEW y \in T PROVE x <= y
  <2>1. x \in Nat /\ y \in Nat
    BY <1>1
  <2>2. ~(y < x)
    BY <1>3, <1>4, <2>1
  <2> QED
    BY <2>1, <2>2
<1> QED
  BY <1>5 DEF T

\* The initial activations can be numbered in the order of their nodes.
LEMMA Numberable == Numberings(InitialOffers, 0) # {}
<1> DEFINE O == InitialOffers
           S == {m \in Nodes : Needs[m] = {}}
           e == [n \in S |-> [node |-> n, scope |-> InitialScope(n)]]
<1>1. IsFiniteSet(O)
  <2>1. IsFiniteSet(S) /\ O = {e[n] : n \in S}
    BY NodesAssumption, FS_Subset DEF InitialOffers
  <2> HIDE DEF e, S, O
  <2> QED
    BY <2>1, FiniteImage
<1>2. /\ \A o \in O : Rank[o.node] \in Nat
      /\ \A o \in O : Len(o.scope.group) = 1
  BY RankAssumption DEF InitialOffers, InitialScope, Initial
<1>3. \A o, p \in O : EarlierOffer(o, p) => Rank[o.node] < Rank[p.node]
  BY <1>2 DEF EarlierOffer
<1> DEFINE n == Cardinality(O)
<1> HIDE DEF O
<1>4. PICK b : b \in Bijection(1..n, O)
  BY <1>1, FS_CardinalityType DEF ExistsBijection
<1> DEFINE h == [o \in O |-> CHOOSE i \in 1..n : b[i] = o]
<1>5. n \in Nat
  BY <1>1, FS_CardinalityType
<1>6. \A o \in O : h[o] \in 1..n /\ b[h[o]] = o
  BY <1>4 DEF Bijection, Surjection
<1> HIDE DEF h, n
<1> DEFINE Less(p, o) == Rank[p.node] < Rank[o.node] \/ (Rank[p.node] = Rank[o.node] /\ h[p] <= h[o])
           UpTo(o) == {p \in O : Less(p, o)}
           f == [o \in O |-> Cardinality(UpTo(o))]
<1>7. \A o, p \in O : h[o] \in Nat /\ (h[o] = h[p] => o = p)
  BY <1>5, <1>6
<1>8. ASSUME NEW o \in O, NEW p \in O, o # p, Less(o, p)
      PROVE  Cardinality(UpTo(o)) < Cardinality(UpTo(p))
  <2>1. UpTo(o) \subseteq UpTo(p)
    BY <1>2, <1>7, <1>8
  <2>2. p \in UpTo(p) /\ p \notin UpTo(o)
    BY <1>2, <1>7, <1>8
  <2>3. IsFiniteSet(UpTo(p)) /\ IsFiniteSet(UpTo(o))
    BY <1>1, FS_Subset
  <2>4. UpTo(o) # UpTo(p)
    BY <2>2
  <2> HIDE DEF UpTo
  <2>5. /\ Cardinality(UpTo(o)) <= Cardinality(UpTo(p))
        /\ Cardinality(UpTo(p)) # Cardinality(UpTo(o))
    BY <2>1, <2>3, <2>4, FS_Subset
  <2>6. Cardinality(UpTo(o)) \in Nat /\ Cardinality(UpTo(p)) \in Nat
    BY <2>3, FS_CardinalityType
  <2> QED
    BY <2>5, <2>6
<1>9. \A o, p \in O : Less(o, p) \/ Less(p, o)
  BY <1>2, <1>7
<1>10. ASSUME NEW o \in O PROVE Cardinality(UpTo(o)) \in 1..n
  <2>1. UpTo(o) \subseteq O /\ o \in UpTo(o)
    BY <1>2, <1>7
  <2> HIDE DEF UpTo
  <2>2. IsFiniteSet(UpTo(o)) /\ Cardinality(UpTo(o)) <= n
    BY <1>1, <2>1, FS_Subset DEF n
  <2>3. Cardinality(UpTo(o)) \in Nat /\ Cardinality(UpTo(o)) # 0
    BY <2>1, <2>2, FS_CardinalityType, FS_EmptySet
  <2> QED
    BY <1>5, <2>2, <2>3
<1> HIDE DEF UpTo
<1>11. f \in [O -> (0 + 1)..(0 + n)]
  BY <1>5, <1>10
<1>12. ASSUME NEW o \in O, NEW p \in O
       PROVE  (o # p => f[o] # f[p]) /\ (EarlierOffer(o, p) => f[o] < f[p])
  <2>1. Cardinality(UpTo(o)) \in Nat /\ Cardinality(UpTo(p)) \in Nat
    BY <1>5, <1>10
  <2>2. o # p => f[o] # f[p]
    BY <1>8, <1>9, <2>1
  <2>3. ASSUME EarlierOffer(o, p) PROVE f[o] < f[p]
    <3>1. Rank[o.node] < Rank[p.node]
      BY <1>3, <2>3
    <3>2. o # p
      BY <1>2, <3>1
    <3> QED
      BY <1>8, <3>1, <3>2
  <2> QED
    BY <2>2, <2>3
<1> HIDE DEF f, Less
<1>13. f \in Numberings(O, 0)
  BY <1>1, <1>11, <1>12 DEF Numberings, n
<1> QED
  BY <1>13 DEF O

TypeInv == TypeOK /\ \E S : prior \in Seq(S)

Ticket(p) == p.node \in Nodes /\ p.seq \in Nat /\ p.slot \in Nat

\* What is enqueued has numbers.
LEMMA QueuedTickets ==
  ASSUME NEW offers, NEW k \in Nat, NEW f \in Numberings(offers, k),
         \A o \in offers : o.node \in Nodes
  PROVE  /\ \A q \in Queued(offers, f) : Ticket(q)
         /\ Cardinality(offers) \in Nat
<1>1. IsFiniteSet(offers) /\ f \in [offers -> (k + 1)..(k + Cardinality(offers))]
  BY DEF Numberings
<1>2. Cardinality(offers) \in Nat
  BY <1>1, FS_CardinalityType
<1>3. \A o \in offers : f[o] \in Nat
  BY <1>1, <1>2
<1> QED
  BY <1>2, <1>3 DEF Queued, Ticket

\* Loops enqueue nodes of the workflow.
LEMMA GrowsTickets ==
  ASSUME IInv, TypeInv, NEW ls, Grows(ls)
  PROVE  sequence' \in Nat /\ \A p \in pending' : Ticket(p)
<1> DEFINE offers == Fresh(BodyOffers(ls))
<1>1. PICK f \in Numberings(offers, sequence) :
        /\ pending' = pending \union Queued(offers, f)
        /\ sequence' = sequence + Cardinality(offers)
  BY DEF Grows, Enqueue
<1>2. \A o \in offers : o.node \in Nodes
  BY DEF Fresh, BodyOffers, Grows, LoopState
<1>3. sequence \in Nat /\ \A p \in pending : Ticket(p)
  BY DEF TypeInv, TypeOK, Ticket
<1> HIDE DEF offers
<1> QED
  BY <1>1, <1>2, <1>3, QueuedTickets

\* What a step leaves typed.
LEMMA TypesKept ==
  ASSUME TypeInv, \A p \in pending' : Ticket(p), running' \subseteq running, sequence' \in Nat,
         pc' \in {"await", "routes", "settle", "start", "spin", "ended"},
         UNCHANGED <<runCounts, totalRuns, prior>>,
         deferred' \in BOOLEAN, replaying' \in BOOLEAN,
         error' \in {"node", "control", "budget", "output", "interrupted", NULL}
  PROVE  TypeInv'
<1>1. /\ \A a \in running' : a.node \in Nodes /\ a.run \in Nat /\ a.from \in 0..Len(prior)
      /\ runCounts \in [Nodes -> Nat] /\ totalRuns \in Nat
  BY DEF TypeInv, TypeOK
<1>2. \E S : prior' \in Seq(S)
  BY DEF TypeInv
<1> QED
  BY <1>1, <1>2 DEF TypeInv, TypeOK, Ticket

\* Completions.
LEMMA ProcessTypes ==
  ASSUME IInv, TypeInv, pc = "await", NEW a \in running, NEW outcome, NEW chosen, NEW soiled,
         Process(a, outcome, chosen, soiled)
  PROVE  TypeInv'
<1>1. /\ running' \subseteq running /\ UNCHANGED <<runCounts, totalRuns, prior, replaying>>
  BY DEF Process, budgetVars, replayVars
<1>2. /\ deferred \in BOOLEAN /\ replaying \in BOOLEAN /\ sequence \in Nat
      /\ error \in {"node", "control", "budget", "output", "interrupted", NULL}
      /\ \A p \in pending : Ticket(p)
  BY DEF TypeInv, TypeOK, Ticket
<1>3. deferred' \in BOOLEAN
  <2>1. deferred' = deferred \/ deferred' = TRUE
    BY DEF Process, DeferFailure, FatalFailure, OpenLoop, CloseLoop, BreakOutsideLoop,
           CompleteTask, endVars
  <2> QED
    BY <1>2, <2>1
<1>4. error' \in {"node", "control", "budget", "output", "interrupted", NULL}
  <2>1. error' = error \/ error' \in {"node", "control"}
    BY DEF Process, DeferFailure, FatalFailure, OpenLoop, CloseLoop, BreakOutsideLoop,
           CompleteTask, endVars
  <2> QED
    BY <1>2, <2>1
<1>5. pc' \in {"spin", "settle", "ended", "routes"}
  BY DEF Process, DeferFailure, FatalFailure, OpenLoop, CloseLoop, BreakOutsideLoop, CompleteTask
<1>6. sequence' \in Nat /\ \A p \in pending' : Ticket(p)
  <2>1. CASE OpenLoop(a, outcome, chosen, soiled)
    <3>1. running' = running \ {a}
      BY DEF Process
    <3>2. Grows(Opening(a, outcome, chosen))
      BY <2>1, <3>1, OpenLoopGrows
    <3> QED
      BY <3>2, GrowsTickets
  <2>2. CASE sequence' = sequence /\ pending' \subseteq pending
    BY <1>2, <2>2
  <2> QED
    BY <2>1, <2>2 DEF Process, DeferFailure, FatalFailure, CloseLoop, BreakOutsideLoop, CompleteTask
<1>7. replaying' \in BOOLEAN
  BY <1>1, <1>2
<1> QED
  BY <1>1, <1>3, <1>4, <1>5, <1>6, <1>7, TypesKept

\* The merged activation takes the number of the oldest signal.
LEMMA EmitTypes == ASSUME IInv, TypeInv, Emit PROVE TypeInv'
<1> DEFINE a == hand.act
           offers == Fresh({[node |-> t, scope |-> a.scope] : t \in Targets(a.node, hand.chosen)})
           last == sequence + Cardinality(offers)
<1>1. PICK f \in Numberings(offers, sequence) :
        /\ pending' = Joined(pending \union Queued(offers, f), last + 1)
        /\ sequence' = last + 1
  BY DEF Emit, Joined, MergingIn, WaitingIn
<1>2. a.node \in Nodes
  BY DEF IInv, Placed, Emit
<1>3. \A o \in offers : o.node \in Nodes
  BY <1>2, RoutesAssumption DEF Fresh, Targets, MatchingRoutes
<1>4. /\ sequence \in Nat /\ \A p \in pending : Ticket(p)
      /\ deferred \in BOOLEAN /\ replaying \in BOOLEAN
      /\ error \in {"node", "control", "budget", "output", "interrupted", NULL}
  BY DEF TypeInv, TypeOK, Ticket
<1> DEFINE queued == pending \union Queued(offers, f)
<1> HIDE DEF offers
<1>5. Cardinality(offers) \in Nat /\ \A q \in queued : Ticket(q)
  BY <1>1, <1>3, <1>4, QueuedTickets
<1>6. last + 1 \in Nat
  BY <1>4, <1>5
<1> HIDE DEF queued, last
<1>7. ASSUME NEW t \in MergingIn(queued) PROVE Ticket(Merge(WaitingIn(queued, t), last + 1))
  <2> DEFINE W == WaitingIn(queued, t)
             first == CHOOSE p \in W : TRUE
             oldest == CHOOSE p \in W : \A q \in W : p.seq <= q.seq
  <2>1. \A p \in W : Ticket(p)
    BY <1>5 DEF WaitingIn
  <2>2. W # {}
    <3>1. Cardinality(W) > 1
      BY DEF MergingIn
    <3> HIDE DEF W
    <3> QED
      BY <3>1, FS_EmptySet
  <2>3. /\ Merge(W, last + 1).node = first.node /\ Merge(W, last + 1).seq = oldest.seq
        /\ Merge(W, last + 1).slot = last + 1
    BY DEF Merge
  <2> HIDE DEF W
  <2>4. first \in W
    BY <2>2
  <2>5. \E p \in W : \A q \in W : p.seq <= q.seq
    BY <2>1, <2>2, OldestSignal DEF Ticket
  <2>6. oldest \in W
    BY <2>5
  <2> QED
    BY <1>6, <2>1, <2>3, <2>4, <2>6 DEF Ticket, W
<1>8. pending' = Joined(queued, last + 1)
  BY <1>1 DEF queued
<1>9. \A p \in pending' : Ticket(p)
  BY <1>5, <1>7, <1>8 DEF Joined
<1>10. /\ running' = running /\ pc' = "settle"
       /\ UNCHANGED <<runCounts, totalRuns, prior, deferred, replaying, error>>
  BY DEF Emit, budgetVars, endVars, replayVars
<1> QED
  BY <1>1, <1>4, <1>6, <1>9, <1>10, TypesKept

\* A pass of _start_runnable.
LEMMA StartTypes ==
  ASSUME IInv, IInv', TypeInv, NEW c \in Candidates, NEW s \in SUBSET c, Start(s),
         pc' \in {"await", "ended"}, error' \in {error, "budget"}
  PROVE  TypeInv'
<1>1. PICK f \in RunNumbers(s) : running' = running \union Begun(s, f)
  BY DEF Start
<1>2. /\ pending' = pending \ s /\ s \subseteq pending /\ totalRuns' = totalRuns + Cardinality(s)
      /\ UNCHANGED <<prior, sequence, deferred, replaying>>
  BY DEF Start, Candidates, Unlocked
<1>3. /\ deferred \in BOOLEAN /\ replaying \in BOOLEAN /\ sequence \in Nat /\ totalRuns \in Nat
      /\ error \in {"node", "control", "budget", "output", "interrupted", NULL}
      /\ \A p \in pending : Ticket(p)
      /\ \A a \in running : a.from \in 0..Len(prior)
  BY DEF TypeInv, TypeOK, Ticket
<1>4. totalRuns' \in Nat
  <2>1. IsFiniteSet(s)
    BY <1>2, FS_Subset DEF IInv, Finite
  <2> QED
    BY <1>2, <1>3, <2>1, FS_CardinalityType
<1>5. /\ \A a \in running' : a.node \in Nodes /\ a.run \in Nat
      /\ runCounts' \in [Nodes -> Nat]
  BY DEF IInv, Placed, Numbered, Finite
<1>6. \A a \in running' : a.from \in 0..Len(prior)
  <2>1. PICK S : prior \in Seq(S)
    BY DEF TypeInv
  <2>2. Len(prior) \in Nat /\ DOMAIN prior = 1..Len(prior)
    BY <2>1
  <2>3. \A p \in s : ReplayIndex(p) \in 0..Len(prior)
    BY <2>2, IndexMeans
  <2>4. \A b \in Begun(s, f) : b.from \in 0..Len(prior)
    BY <2>3 DEF Begun
  <2> QED
    BY <1>1, <1>3, <2>4
<1>7. \E S : prior' \in Seq(S)
  BY <1>2 DEF TypeInv
<1>8. deferred' \in BOOLEAN /\ replaying' \in BOOLEAN
  BY <1>2, <1>3
<1> QED
  BY <1>2, <1>3, <1>4, <1>5, <1>6, <1>7, <1>8 DEF TypeInv, TypeOK, Ticket

\* A new scheduler.
LEMMA InitialTickets ==
  LET f == CHOOSE g \in Numberings(InitialOffers, 0) : TRUE IN
  /\ \A p \in Queued(InitialOffers, f) : Ticket(p)
  /\ Cardinality(InitialOffers) \in Nat
<1> DEFINE f == CHOOSE g \in Numberings(InitialOffers, 0) : TRUE
<1>1. f \in Numberings(InitialOffers, 0)
  BY Numberable
<1>2. \A o \in InitialOffers : o.node \in Nodes
  BY DEF InitialOffers
<1> HIDE DEF f
<1>3. /\ \A p \in Queued(InitialOffers, f) : Ticket(p)
      /\ Cardinality(InitialOffers) \in Nat
  BY <1>1, <1>2, QueuedTickets
<1> QED
  BY <1>3 DEF f

\* Every step keeps the types.
LEMMA StepTypes == IInv /\ IInv' /\ ReuseInv /\ TypeInv /\ [Next]_vars => TypeInv'
<1> SUFFICES ASSUME IInv, IInv', ReuseInv, TypeInv, [Next]_vars PROVE TypeInv'
  OBVIOUS
<1>1. ASSUME NEW a \in running, Complete(a) PROVE TypeInv'
  BY <1>1, ProcessTypes DEF Complete
<1>2. ASSUME NEW a \in running, ReplayNext(a) PROVE TypeInv'
  BY <1>2, ProcessTypes DEF ReplayNext
<1>3. /\ pc \in {"await", "routes", "settle", "start", "spin", "ended"}
      /\ deferred \in BOOLEAN /\ replaying \in BOOLEAN /\ sequence \in Nat
      /\ error \in {"node", "control", "budget", "output", "interrupted", NULL}
      /\ \A p \in pending : Ticket(p)
  BY DEF TypeInv, TypeOK, Ticket
<1>4. CASE FinishFail \/ FinishReplay \/ Quiesce \/ Interrupt
  <2>1. /\ UNCHANGED <<pending, running, runCounts, totalRuns, sequence, deferred, prior>>
        /\ pc' \in {pc, "ended"} /\ error' \in {error, "control", "node", "output", "interrupted", NULL}
        /\ replaying' = replaying \/ replaying' = FALSE
    BY <1>4 DEF FinishFail, FinishReplay, Quiesce, Interrupt, budgetVars, endVars, replayVars
  <2>2. deferred' \in BOOLEAN /\ replaying' \in BOOLEAN
    BY <1>3, <2>1
  <2> QED
    BY <1>3, <2>1, <2>2, TypesKept
<1>5. CASE Emit
  BY <1>5, EmitTypes
<1>6. CASE Settle
  <2>1. Grows(Settled)
    BY <1>6, SettleGrows
  <2>2. sequence' \in Nat /\ \A p \in pending' : Ticket(p)
    BY <2>1, GrowsTickets
  <2>3. /\ UNCHANGED <<running, runCounts, totalRuns, deferred, replaying, error, prior>>
        /\ pc' \in {"routes", "start"}
    BY <1>6 DEF Settle, budgetVars, endVars, replayVars
  <2> QED
    BY <1>3, <2>2, <2>3, TypesKept
<1>7. CASE StartRunnable
  <2>1. PICK c \in Candidates : Start(c)
    BY <1>7 DEF StartRunnable
  <2>2. PICK s \in SUBSET c : Start(s)
    BY <2>1
  <2>3. pc' = "await" /\ error' = error
    BY <1>7 DEF StartRunnable
  <2> QED
    BY <2>2, <2>3, StartTypes
<1>8. CASE BudgetExceeded
  <2>1. PICK c \in Candidates : \E s \in SUBSET c : Start(s)
    BY <1>8 DEF BudgetExceeded
  <2>2. PICK s \in SUBSET c : Start(s)
    BY <2>1
  <2>3. pc' = "ended" /\ error' = "budget"
    BY <1>8 DEF BudgetExceeded
  <2> QED
    BY <2>2, <2>3, StartTypes
<1>9. CASE Resume
  <2>1. /\ pending' = Queued(InitialOffers, CHOOSE f \in Numberings(InitialOffers, 0) : TRUE)
        /\ sequence' = Cardinality(InitialOffers)
        /\ pc' = "start" /\ running' = {} /\ runCounts' = [n \in Nodes |-> 0] /\ totalRuns' = 0
        /\ deferred' = FALSE /\ error' = NULL /\ prior' = records
    BY <1>9 DEF Resume, Begin
  <2>2. replaying' \in BOOLEAN
    BY <1>9 DEF Resume, Begin
  <2>3. \A p \in pending' : Ticket(p)
    BY <2>1, InitialTickets
  <2>4. sequence' \in Nat
    BY <2>1, InitialTickets
  <2>5. \E S : prior' \in Seq(S)
    BY <2>1 DEF ReuseInv, Counters
  <2>6. deferred' \in BOOLEAN
    BY <2>1
  <2> QED
    BY <2>1, <2>2, <2>3, <2>4, <2>5, <2>6 DEF TypeInv, TypeOK, Ticket
<1>10. CASE UNCHANGED vars
  BY <1>3, <1>10, TypesKept DEF vars
<1> QED
  BY <1>1, <1>2, <1>4, <1>5, <1>6, <1>7, <1>8, <1>9, <1>10 DEF Next, Step, Over, Spin

\* In every workflow the state keeps its types: queue numbers stay natural numbers
\* through merges, and what an activation is replayed from is a saved record.
THEOREM TypesHold == Spec => []TypeOK
<1>1. Init => TypeInv
  <2> SUFFICES ASSUME Init PROVE TypeInv
    OBVIOUS
  <2>1. /\ pending = Queued(InitialOffers, CHOOSE f \in Numberings(InitialOffers, 0) : TRUE)
        /\ sequence = Cardinality(InitialOffers)
        /\ pc = "start" /\ running = {} /\ runCounts = [n \in Nodes |-> 0] /\ totalRuns = 0
        /\ deferred = FALSE /\ error = NULL /\ prior = << >> /\ replaying = FALSE
    BY DEF Init
  <2>2. (\A p \in pending : Ticket(p)) /\ sequence \in Nat
    BY <2>1, InitialTickets
  <2>3. << >> \in Seq({})
    OBVIOUS
  <2>4. deferred \in BOOLEAN /\ replaying \in BOOLEAN
    BY <2>1
  <2> QED
    BY <2>1, <2>2, <2>3, <2>4 DEF TypeInv, TypeOK, Ticket
<1>2. TypeInv => TypeOK
  BY DEF TypeInv
<1>3. Init => ReuseInv
  BY NothingReused DEF Init
<1> QED
  BY <1>1, <1>2, <1>3, StepTypes, StepReuse, Invariant, PTL DEF Spec
=============================================================================
