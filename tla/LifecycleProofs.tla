---------------------------- MODULE LifecycleProofs ----------------------------
(***************************************************************************)
(* Theorems about Lifecycle, for every list of pipelines and every set of  *)
(* configurations, any number of namespaces and policies included.         *)
(***************************************************************************)
EXTENDS Lifecycle, SequenceTheorems, TLAPS

-----------------------------------------------------------------------------
(* Informers *)

\* The position of an informer in a list of L kinds for each namespace says which
\* kind and which namespace it is of.
LEMMA DivMod ==
    ASSUME NEW L \in Nat \ {0}, NEW q \in Nat, NEW r \in 0 .. (L - 1)
    PROVE  (q * L + r) \div L = q /\ (q * L + r) % L = r
<1> DEFINE n == q * L + r
           d == n \div L
           m == n % L
<1>1. n \in Nat /\ d \in Int /\ m \in 0 .. (L - 1) /\ n = L * d + m
  BY Z3
<1> HIDE DEF d, m
<1>2. L * (q - d) = m - r
  BY <1>1
<1>3. q - d < 1
  <2> SUFFICES ASSUME q - d >= 1 PROVE FALSE
    BY <1>1
  <2>1. L * (q - d) >= L
    BY <1>1
  <2> QED  BY <1>1, <1>2, <2>1
<1>4. q - d > -1
  <2> SUFFICES ASSUME d - q >= 1 PROVE FALSE
    BY <1>1
  <2>1. L * (d - q) >= L
    BY <1>1
  <2>2. L * (d - q) = r - m
    BY <1>1
  <2> QED  BY <1>1, <2>1, <2>2
<1>5. q = d
  BY <1>1, <1>3, <1>4
<1> QED  BY <1>1, <1>2, <1>5 DEF d, m

\* A position below S * L is of one of the S namespaces.
LEMMA DivBound ==
    ASSUME NEW L \in Nat \ {0}, NEW S \in Nat, NEW n \in 0 .. (L * S - 1)
    PROVE  n \div L \in 0 .. (S - 1) /\ n % L \in 0 .. (L - 1)
<1> DEFINE d == n \div L
           m == n % L
<1>1. n \in Nat /\ n < L * S /\ L * S \in Nat
  OBVIOUS
<1>2. d \in Int /\ m \in 0 .. (L - 1) /\ n = L * d + m
  BY <1>1, Z3
<1> HIDE DEF d, m
<1>3. d >= 0
  <2> SUFFICES ASSUME d <= -1 PROVE FALSE
    BY <1>2
  <2>1. L * d <= -L
    BY <1>2
  <2> QED  BY <1>1, <1>2, <2>1
<1>4. d < S
  <2> SUFFICES ASSUME d >= S PROVE FALSE
    BY <1>2
  <2>1. L * d >= L * S
    BY <1>2
  <2> QED  BY <1>1, <1>2, <2>1
<1> QED  BY <1>2, <1>3, <1>4 DEF d, m

\* There is at least one namespace to watch, all of them if none is configured.
LEMMA ScopeFacts ==
    ASSUME NEW c \in Configs
    PROVE  Scopes(c) \in Nat \ {0}
<1>1. c.namespaces \in Seq(STRING)
  BY LifecycleAssumption
<1> QED  BY <1>1, EmptySeq DEF Scopes

\* The informers of some kinds are one for each kind and each namespace.
LEMMA PerScopeFacts ==
    ASSUME NEW c \in Configs, NEW kinds \in Seq(WatchedKinds(c))
    PROVE  /\ PerScope(kinds, c) \in Seq(Informers(c))
           /\ Elems(PerScope(kinds, c)) = AllOf(Elems(kinds), c)
<1> DEFINE S == Scopes(c)
           L == Len(kinds)
           Inf(n) == <<kinds[((n - 1) % L) + 1], ((n - 1) \div L) + 1>>
           infs == [n \in 1 .. (L * S) |-> Inf(n)]
<1>1. S \in Nat \ {0} /\ L \in Nat /\ L * S \in Nat
  BY ScopeFacts
<1>2. \A k \in 1 .. L : kinds[k] \in WatchedKinds(c)
  OBVIOUS
<1>3. ASSUME NEW n \in 1 .. (L * S)
      PROVE  ((n - 1) % L) + 1 \in 1 .. L /\ ((n - 1) \div L) + 1 \in 1 .. S
  <2>1. L # 0 /\ n - 1 \in 0 .. (L * S - 1)
    BY <1>1
  <2> HIDE DEF S, L
  <2>2. (n - 1) \div L \in 0 .. (S - 1) /\ (n - 1) % L \in 0 .. (L - 1)
    BY <1>1, <2>1, DivBound
  <2> QED  BY <1>1, <2>2
<1>4. \A n \in 1 .. (L * S) : Inf(n) \in AllOf(Elems(kinds), c) /\ Inf(n) \in Informers(c)
  <2> SUFFICES ASSUME NEW n \in 1 .. (L * S)
               PROVE  Inf(n) \in AllOf(Elems(kinds), c) /\ Inf(n) \in Informers(c)
    OBVIOUS
  <2>1. PICK k \in 1 .. L, j \in 1 .. S : Inf(n) = <<kinds[k], j>>
    BY <1>3
  <2>2. kinds[k] \in Elems(kinds)
    BY DEF Elems
  <2> QED  BY <1>2, <2>1, <2>2 DEF AllOf, Informers
<1>5. ASSUME NEW k \in 1 .. L, NEW j \in 1 .. S
      PROVE  \E n \in 1 .. (L * S) : Inf(n) = <<kinds[k], j>>
  <2> DEFINE n == (j - 1) * L + (k - 1) + 1
  <2>1. L # 0 /\ j - 1 \in Nat /\ k - 1 \in 0 .. (L - 1) /\ n - 1 = (j - 1) * L + (k - 1)
    BY <1>1
  <2>2. (n - 1) \div L = j - 1 /\ (n - 1) % L = k - 1
    <3> HIDE DEF S, L, n
    <3>1. ((j - 1) * L + (k - 1)) \div L = j - 1 /\ ((j - 1) * L + (k - 1)) % L = k - 1
      BY <1>1, <2>1, DivMod
    <3> QED  BY <2>1, <3>1
  <2>3. n \in 1 .. (L * S)
    <3>1. (j - 1) * L \in Nat /\ (j - 1) * L <= (S - 1) * L
      BY <1>1
    <3>2. (S - 1) * L = L * S - L
      BY <1>1
    <3> QED  BY <1>1, <3>1, <3>2
  <2> HIDE DEF n
  <2>4. ((n - 1) % L) + 1 = k /\ ((n - 1) \div L) + 1 = j
    BY <1>1, <2>2
  <2>5. Inf(n) = <<kinds[k], j>>
    BY <2>4
  <2> HIDE DEF Inf
  <2> QED  BY <2>3, <2>5
<1>6. PerScope(kinds, c) = infs
  BY DEF PerScope
<1> HIDE DEF Inf
<1>7. infs \in Seq(Informers(c))
  BY <1>1, <1>4
<1>8. Elems(infs) = {Inf(n) : n \in 1 .. (L * S)}
  BY DEF Elems
<1>9. AllOf(Elems(kinds), c) \subseteq {Inf(n) : n \in 1 .. (L * S)}
  <2> SUFFICES ASSUME NEW i \in AllOf(Elems(kinds), c)
               PROVE  \E n \in 1 .. (L * S) : i = Inf(n)
    OBVIOUS
  <2>1. PICK k \in 1 .. L, j \in 1 .. S : i = <<kinds[k], j>>
    BY DEF AllOf, Elems
  <2> QED  BY <1>5, <2>1
<1> QED  BY <1>4, <1>6, <1>7, <1>8, <1>9

\* What is watched: the kinds of the Gateway API, one kind of the core, or the kinds
\* of the policies that are configured.
LEMMA KindsFacts ==
    ASSUME NEW c \in Configs
    PROVE  /\ policyKinds(c) \in Seq(WatchedKinds(c))
           /\ GatewayKinds \in Seq(WatchedKinds(c))
           /\ Elems(GatewayKinds) = {"HTTPRoute", "GRPCRoute", "Gateway", "GatewayClass"}
           /\ \A kind \in {"Service", "EndpointSlice"} :
                  <<kind>> \in Seq(WatchedKinds(c)) /\ Elems(<<kind>>) = {kind}
<1>1. policyKinds(c) \in Seq(WatchedKinds(c))
  <2>1. Len(c.policies) \in Nat /\ DOMAIN c.policies = 1 .. Len(c.policies)
    BY LifecycleAssumption
  <2>2. policyKinds(c) = [i \in 1 .. Len(c.policies) |-> c.policies[i].resource]
    BY <2>1 DEF policyKinds
  <2>3. \A i \in 1 .. Len(c.policies) : c.policies[i].resource \in Elems(policyKinds(c))
    BY <2>2 DEF Elems
  <2>4. Elems(policyKinds(c)) \subseteq WatchedKinds(c)
    BY DEF WatchedKinds
  <2> QED  BY <2>1, <2>2, <2>3, <2>4
<1>2. /\ GatewayKinds \in Seq(WatchedKinds(c)) /\ DOMAIN GatewayKinds = 1 .. 4
  BY DEF GatewayKinds, WatchedKinds
<1>3. Elems(GatewayKinds) = {"HTTPRoute", "GRPCRoute", "Gateway", "GatewayClass"}
  <2>1. /\ GatewayKinds[1] = "HTTPRoute" /\ GatewayKinds[2] = "GRPCRoute"
        /\ GatewayKinds[3] = "Gateway" /\ GatewayKinds[4] = "GatewayClass"
    BY DEF GatewayKinds
  <2>2. \A i \in 1 .. 4 : i = 1 \/ i = 2 \/ i = 3 \/ i = 4
    OBVIOUS
  <2>3. Elems(GatewayKinds) = {GatewayKinds[i] : i \in 1 .. 4}
    BY <1>2 DEF Elems
  <2> QED  BY <2>1, <2>2, <2>3
<1>4. ASSUME NEW kind \in {"Service", "EndpointSlice"}
      PROVE  <<kind>> \in Seq(WatchedKinds(c)) /\ Elems(<<kind>>) = {kind}
  <2>1. kind \in WatchedKinds(c)
    BY DEF WatchedKinds
  <2> QED  BY <2>1 DEF Elems
<1> QED  BY <1>1, <1>2, <1>3, <1>4

\* What there is to wait for after some more was created.
LEMMA ConcatElems ==
    ASSUME NEW T, NEW a \in Seq(T), NEW b \in Seq(T)
    PROVE  /\ a \o b \in Seq(T) /\ Len(a \o b) = Len(a) + Len(b)
           /\ Elems(a \o b) = Elems(a) \cup Elems(b)
<1>1. /\ a \o b \in Seq(T) /\ Len(a \o b) = Len(a) + Len(b)
      /\ \A i \in 1 .. Len(a) + Len(b) :
            (a \o b)[i] = IF i <= Len(a) THEN a[i] ELSE b[i - Len(a)]
  BY ConcatProperties
<1>2. \A i \in DOMAIN a : i \in DOMAIN (a \o b) /\ (a \o b)[i] = a[i]
  BY <1>1
<1>3. \A i \in DOMAIN b : i + Len(a) \in DOMAIN (a \o b) /\ (a \o b)[i + Len(a)] = b[i]
  BY <1>1
<1>4. \A i \in DOMAIN (a \o b) : (a \o b)[i] \in Elems(a) \cup Elems(b)
  BY <1>1 DEF Elems
<1>5. Elems(a) \cup Elems(b) \subseteq Elems(a \o b)
  BY <1>2, <1>3 DEF Elems
<1>6. Elems(a \o b) \subseteq Elems(a) \cup Elems(b)
  <2> SUFFICES ASSUME NEW x \in Elems(a \o b) PROVE x \in Elems(a) \cup Elems(b)
    OBVIOUS
  <2>1. PICK i \in DOMAIN (a \o b) : x = (a \o b)[i]
    BY DEF Elems
  <2> QED  BY <1>4, <2>1
<1> QED  BY <1>1, <1>5, <1>6

-----------------------------------------------------------------------------
(* What each step of a processor leaves *)

\* q has the informers of p, and whatever was made of them.
SameButRunning(p, q) ==
    /\ q.hook = p.hook /\ q.informers = p.informers /\ q.handled = p.handled
    /\ q.synced = p.synced /\ q.gwInfs = p.gwInfs
    /\ q.indexes = p.indexes /\ q.inferrer = p.inferrer
    /\ q.lookup = p.lookup /\ q.stopFn = p.stopFn

SameInformers(p, q) == SameButRunning(p, q) /\ q.running = p.running

\* q has these informers, too, and some of them have handlers.
Grown(p, q, infs, handled) ==
    /\ q.hook = p.hook /\ q.running = p.running /\ q.synced = p.synced
    /\ q.indexes = p.indexes /\ q.inferrer = p.inferrer
    /\ q.lookup = p.lookup /\ q.stopFn = p.stopFn
    /\ q.handled = p.handled \cup handled
    /\ Elems(q.informers) = Elems(p.informers) \cup infs

\* Start has not moved on from p to q.
Unmoved(p, q) ==
    /\ q.pc = p.pc /\ q.waiting = p.waiting /\ q.gwInfs = p.gwInfs
    /\ p.waiting <= Len(p.informers) + 1 => q.waiting <= Len(q.informers) + 1

\* The ways to move on: Start, Shutdown, an error, and the wait.
Moves(p, q) ==
    \/ p.pc = "built" /\ q.pc = IF p.hook THEN "client" ELSE "running"
    \/ p.pc \in {"built", "running", "failed"} /\ q.pc = "stopped"
    \/ p.pc \in Starting /\ q.pc = "failed"
    \/ /\ p.pc = "wait" /\ q.pc = "wait"
       /\ \A n \in 1 .. Len(p.informers) : n < q.waiting => p.informers[n] \in p.synced

\* A step that only moves on leaves the informers and what they are for alone.
LEMMA MoveKeepsInv ==
    ASSUME NEW c \in Configs, NEW done \in BOOLEAN, NEW p, ProcessorInv(p, c, done),
           NEW q \in Processors(c),
           SameInformers(p, q),
           q.waiting <= Len(p.informers) + 1,
           Moves(p, q)
    PROVE  ProcessorInv(q, c, done)
<1> USE DEF ProcessorInv, SameInformers, SameButRunning, Moves
<1>1. Created(q, c)
  BY DEF Created, AfterClient, AfterService, AfterSlices, AfterRoutes, Starting
<1>2. Alive(q, done)
  <2>1. Running(q) = Running(p)
    BY DEF Running
  <2>2. p.pc = "built" => Elems(p.informers) = {}
    BY DEF Installed, Elems
  <2> QED  BY <2>1, <2>2 DEF Alive, Starting
<1>3. Wired(q, c)
  BY DEF Wired, Running
<1>4. Installed(q, c)
  BY DEF Installed, Starting
<1> QED  BY <1>1, <1>2, <1>3, <1>4

\* Start without the informers, Shutdown, and an error of newInformers.
LEMMA EndsKeepInv ==
    ASSUME NEW c \in Configs, NEW done \in BOOLEAN, NEW p, ProcessorInv(p, c, done)
    PROVE  /\ p.pc = "built" =>
                  ProcessorInv([p EXCEPT !.pc = IF p.hook THEN "client" ELSE "running"], c, done)
           /\ p.pc \in {"built", "running", "failed"} =>
                  ProcessorInv([p EXCEPT !.pc = "stopped"], c, done)
           /\ p.pc \in Starting => ProcessorInv(Leave(p, "failed"), c, done)
<1>1. p \in Processors(c) /\ p.waiting <= Len(p.informers) + 1
      /\ p.informers \in Seq(Informers(c))
  BY DEF ProcessorInv, Processors
<1>2. ASSUME p.pc = "built"
      PROVE  ProcessorInv([p EXCEPT !.pc = IF p.hook THEN "client" ELSE "running"], c, done)
  <2> DEFINE q == [p EXCEPT !.pc = IF p.hook THEN "client" ELSE "running"]
  <2>1. /\ SameInformers(p, q)
        /\ q.waiting = p.waiting
        /\ q.pc = IF p.hook THEN "client" ELSE "running"
    BY <1>1 DEF Processors, SameInformers, SameButRunning
  <2>2. q \in Processors(c)
    BY <1>1 DEF Processors, Starting
  <2> HIDE DEF q
  <2>3. q.waiting <= Len(p.informers) + 1 /\ Moves(p, q)
    BY <1>1, <1>2, <2>1 DEF Moves
  <2>4. ProcessorInv(q, c, done)
    BY <2>1, <2>2, <2>3, MoveKeepsInv
  <2> QED  BY <2>4 DEF q
<1>3. ASSUME p.pc \in {"built", "running", "failed"}
      PROVE  ProcessorInv([p EXCEPT !.pc = "stopped"], c, done)
  <2> DEFINE q == [p EXCEPT !.pc = "stopped"]
  <2>1. /\ SameInformers(p, q)
        /\ q.waiting = p.waiting
        /\ q.pc = "stopped"
    BY <1>1 DEF Processors, SameInformers, SameButRunning
  <2>2. q \in Processors(c)
    BY <1>1 DEF Processors, Starting
  <2> HIDE DEF q
  <2>3. q.waiting <= Len(p.informers) + 1 /\ Moves(p, q)
    BY <1>1, <1>3, <2>1 DEF Moves
  <2>4. ProcessorInv(q, c, done)
    BY <2>1, <2>2, <2>3, MoveKeepsInv
  <2> QED  BY <2>4 DEF q
<1>4. ASSUME p.pc \in Starting
      PROVE  ProcessorInv(Leave(p, "failed"), c, done)
  <2> DEFINE q == Leave(p, "failed")
  <2>1. /\ SameInformers(p, q)
        /\ q.waiting = 0
        /\ q.pc = "failed"
    BY <1>1 DEF Processors, SameInformers, SameButRunning, Leave
  <2>2. q \in Processors(c)
    BY <1>1 DEF Processors, Leave
  <2> HIDE DEF q
  <2>3. q.waiting <= Len(p.informers) + 1 /\ Moves(p, q)
    BY <1>1, <1>4, <2>1 DEF Moves
  <2>4. ProcessorInv(q, c, done)
    BY <2>1, <2>2, <2>3, MoveKeepsInv
  <2> QED  BY <2>4 DEF q
<1> QED  BY <1>2, <1>3, <1>4

\* WaitForCacheSync looks, goes on to the next informer, and time passes.
LEMMA WaitKeepsInv ==
    ASSUME NEW c \in Configs, NEW done \in BOOLEAN, NEW p, ProcessorInv(p, c, done),
           p.pc = "wait"
    PROVE  /\ ProcessorInv([p EXCEPT !.polled = TRUE], c, done)
           /\ ProcessorInv([p EXCEPT !.expired = TRUE], c, done)
           /\ p.waiting <= Len(p.informers) /\ p.informers[p.waiting] \in p.synced =>
                  ProcessorInv([p EXCEPT !.polled = FALSE, !.waiting = p.waiting + 1], c, done)
<1>1. /\ p \in Processors(c) /\ p.waiting <= Len(p.informers) + 1
      /\ p.informers \in Seq(Informers(c)) /\ p.waiting \in Nat /\ p.pc # "built"
      /\ \A n \in 1 .. Len(p.informers) : n < p.waiting => p.informers[n] \in p.synced
  BY DEF ProcessorInv, Processors, Alive
<1>2. ProcessorInv([p EXCEPT !.polled = TRUE], c, done)
  <2> DEFINE q == [p EXCEPT !.polled = TRUE]
  <2>1. SameInformers(p, q) /\ q.waiting = p.waiting /\ q.pc = "wait"
    BY <1>1 DEF Processors, SameInformers, SameButRunning
  <2>2. q \in Processors(c)
    BY <1>1 DEF Processors
  <2> HIDE DEF q
  <2>3. q.waiting <= Len(p.informers) + 1 /\ Moves(p, q)
    BY <1>1, <2>1 DEF Moves
  <2>4. ProcessorInv(q, c, done)
    BY <2>1, <2>2, <2>3, MoveKeepsInv
  <2> QED  BY <2>4 DEF q
<1>3. ProcessorInv([p EXCEPT !.expired = TRUE], c, done)
  <2> DEFINE q == [p EXCEPT !.expired = TRUE]
  <2>1. SameInformers(p, q) /\ q.waiting = p.waiting /\ q.pc = "wait"
    BY <1>1 DEF Processors, SameInformers, SameButRunning
  <2>2. q \in Processors(c)
    BY <1>1 DEF Processors
  <2> HIDE DEF q
  <2>3. q.waiting <= Len(p.informers) + 1 /\ Moves(p, q)
    BY <1>1, <2>1 DEF Moves
  <2>4. ProcessorInv(q, c, done)
    BY <2>1, <2>2, <2>3, MoveKeepsInv
  <2> QED  BY <2>4 DEF q
<1>4. ASSUME p.waiting <= Len(p.informers), p.informers[p.waiting] \in p.synced
      PROVE  ProcessorInv([p EXCEPT !.polled = FALSE, !.waiting = p.waiting + 1], c, done)
  <2> DEFINE q == [p EXCEPT !.polled = FALSE, !.waiting = p.waiting + 1]
  <2>1. SameInformers(p, q) /\ q.waiting = p.waiting + 1 /\ q.pc = "wait"
    BY <1>1 DEF Processors, SameInformers, SameButRunning
  <2>2. q \in Processors(c)
    <3> DEFINE r == [p EXCEPT !.polled = FALSE]
    <3>1. r \in Processors(c)
      BY <1>1 DEF Processors
    <3>2. p.waiting + 1 \in Nat
      BY <1>1
    <3>3. [r EXCEPT !.waiting = p.waiting + 1] \in Processors(c)
      <4> HIDE DEF r
      <4> QED  BY <3>1, <3>2 DEF Processors
    <3> QED  BY <3>3
  <2> HIDE DEF q
  <2>3. q.waiting <= Len(p.informers) + 1
    BY <1>1, <1>4, <2>1
  <2>4. Moves(p, q)
    BY <1>1, <1>4, <2>1 DEF Moves
  <2>5. ProcessorInv(q, c, done)
    BY <2>1, <2>2, <2>3, <2>4, MoveKeepsInv
  <2> QED  BY <2>5 DEF q
<1> QED  BY <1>2, <1>3, <1>4

\* What is created is added to what there was.
LEMMA CreateFacts ==
    ASSUME NEW c \in Configs, NEW p \in Processors(c), NEW kinds \in Seq(WatchedKinds(c)),
           NEW handled \in SUBSET AllOf(Elems(kinds), c),
           NEW q, q = Create(p, PerScope(kinds, c), handled)
    PROVE  /\ q \in Processors(c) /\ Grown(p, q, AllOf(Elems(kinds), c), handled)
           /\ Unmoved(p, q)
<1> DEFINE infs == PerScope(kinds, c)
           all == p.informers \o infs
<1>1. infs \in Seq(Informers(c)) /\ Elems(infs) = AllOf(Elems(kinds), c)
  BY PerScopeFacts
<1>2. p.informers \in Seq(Informers(c)) /\ p.handled \in SUBSET Informers(c)
  BY DEF Processors
<1>3. q = Create(p, infs, handled)
  OBVIOUS
<1> HIDE DEF infs
<1>4. /\ all \in Seq(Informers(c)) /\ Len(all) = Len(p.informers) + Len(infs)
      /\ Elems(all) = Elems(p.informers) \cup Elems(infs)
  BY <1>1, <1>2, ConcatElems
<1>5. Len(all) >= Len(p.informers)
  BY <1>1, <1>2, <1>4
<1>6. p.handled \cup handled \in SUBSET Informers(c)
  <2>1. AllOf(Elems(kinds), c) \subseteq Informers(c)
    BY DEF AllOf, Elems, Informers
  <2> QED  BY <1>2, <2>1
<1> DEFINE h == p.handled \cup handled
<1> HIDE DEF all, h
<1>7. /\ q.pc = p.pc /\ q.hook = p.hook /\ q.running = p.running
      /\ q.synced = p.synced /\ q.gwInfs = p.gwInfs /\ q.indexes = p.indexes
      /\ q.inferrer = p.inferrer /\ q.waiting = p.waiting
      /\ q.lookup = p.lookup /\ q.stopFn = p.stopFn
      /\ q.handled = h /\ q.informers = all
  BY <1>3 DEF Create, Processors, h, all
<1>8. q \in Processors(c)
  <2> DEFINE r == [p EXCEPT !.informers = all]
  <2>1. r \in Processors(c) /\ q = [r EXCEPT !.handled = h]
    BY <1>4, <1>3 DEF Processors, Create, all, h
  <2> HIDE DEF r
  <2> QED  BY <1>6, <2>1 DEF Processors, h
<1>9. /\ q.handled = p.handled \cup handled
      /\ Elems(q.informers) = Elems(p.informers) \cup AllOf(Elems(kinds), c)
  BY <1>1, <1>4, <1>7 DEF h
<1>10. p.waiting <= Len(p.informers) + 1 => q.waiting <= Len(q.informers) + 1
  <2>1. p.waiting \in Nat
    BY DEF Processors
  <2> QED  BY <1>2, <1>4, <1>5, <1>7, <2>1
<1> QED  BY <1>7, <1>8, <1>9, <1>10 DEF Grown, Unmoved

\* The same for the informers of one kind, all with handlers.
LEMMA CreateKind ==
    ASSUME NEW c \in Configs, NEW p \in Processors(c),
           NEW kind \in {"Service", "EndpointSlice"},
           NEW q, q = Create(p, PerScope(<<kind>>, c), Elems(PerScope(<<kind>>, c)))
    PROVE  /\ Elems(PerScope(<<kind>>, c)) = AllOf({kind}, c)
           /\ q \in Processors(c) /\ Grown(p, q, AllOf({kind}, c), AllOf({kind}, c))
           /\ Unmoved(p, q)
<1> DEFINE kinds == <<kind>>
           all == AllOf({kind}, c)
<1>1. kinds \in Seq(WatchedKinds(c)) /\ Elems(kinds) = {kind}
  BY KindsFacts
<1>2. q = Create(p, PerScope(kinds, c), Elems(PerScope(kinds, c)))
  OBVIOUS
<1> HIDE DEF kinds
<1>3. Elems(PerScope(kinds, c)) = all
  BY <1>1, PerScopeFacts
<1>4. q = Create(p, PerScope(kinds, c), all) /\ all \in SUBSET AllOf(Elems(kinds), c)
  BY <1>1, <1>2, <1>3
<1>5. Grown(p, q, AllOf(Elems(kinds), c), all) /\ q \in Processors(c)
  <2> HIDE DEF all
  <2> QED  BY <1>1, <1>4, CreateFacts
<1>6. Unmoved(p, q)
  <2> HIDE DEF all
  <2> QED  BY <1>1, <1>4, CreateFacts
<1> QED  BY <1>1, <1>3, <1>5, <1>6 DEF kinds

\* What is started runs with what already did, under Start's own context.
LEMMA RunFacts ==
    ASSUME NEW c \in Configs, NEW p \in Processors(c), NEW infs \in SUBSET Informers(c)
    PROVE  LET q == Run(p, infs, "start")
           IN  /\ q \in Processors(c) /\ SameButRunning(p, q)
               /\ q.pc = p.pc /\ q.waiting = p.waiting
               /\ Running(q) = Running(p) \cup infs
<1> DEFINE run == p.running \cup (infs \X {"start"})
           q == Run(p, infs, "start")
<1>1. run \in SUBSET (Informers(c) \X {"start"})
  BY DEF Processors
<1>2. q = [p EXCEPT !.running = run]
  BY DEF Run
<1> HIDE DEF run, q
<1>3. q \in Processors(c)
  BY <1>1, <1>2 DEF Processors
<1>4. SameButRunning(p, q) /\ q.running = run /\ q.pc = p.pc /\ q.waiting = p.waiting
  BY <1>2 DEF Processors, SameButRunning
<1>5. Running(q) = Running(p) \cup infs
  <2>1. {r[1] : r \in infs \X {"start"}} = infs
    <3>1. \A i \in infs : <<i, "start">> \in infs \X {"start"} /\ <<i, "start">>[1] = i
      OBVIOUS
    <3>2. \A r \in infs \X {"start"} : r[1] \in infs
      OBVIOUS
    <3> QED  BY <3>1, <3>2
  <2>2. {r[1] : r \in run} = {r[1] : r \in p.running} \cup {r[1] : r \in infs \X {"start"}}
    BY DEF run
  <2> QED  BY <1>4, <2>1, <2>2 DEF Running
<1> QED  BY <1>3, <1>4, <1>5 DEF q

\* Nothing is installed while Start is on its way.
LEMMA InstalledKept ==
    ASSUME NEW c \in Configs, NEW p, Installed(p, c), p.pc \in Starting,
           NEW q, q.pc \in Starting, q.lookup = p.lookup, q.stopFn = p.stopFn,
           p.synced \subseteq q.synced, p.handled \subseteq q.handled
    PROVE  Installed(q, c)
  BY DEF Installed, Starting

\* The informers of some of the kinds.
LEMMA AllOfFacts ==
    ASSUME NEW c \in Configs, NEW a, NEW b
    PROVE  /\ OfKinds(AllOf(a, c), b) = AllOf(a \cap b, c)
           /\ a \subseteq b => AllOf(a, c) \subseteq AllOf(b, c)
           /\ a \subseteq WatchedKinds(c) => AllOf(a, c) \subseteq Informers(c)
           /\ \A i \in AllOf(a, c) : i[1] \in a
<1>1. OfKinds(AllOf(a, c), b) = AllOf(a \cap b, c)
  BY DEF OfKinds, AllOf
<1>2. a \subseteq b => AllOf(a, c) \subseteq AllOf(b, c)
  BY DEF AllOf
<1>3. a \subseteq WatchedKinds(c) => AllOf(a, c) \subseteq Informers(c)
  BY DEF AllOf, Informers
<1>4. \A i \in AllOf(a, c) : i[1] \in a
  BY DEF AllOf
<1> QED  BY <1>1, <1>2, <1>3, <1>4

\* Pass 1: the Gateway API informers, those of routes still without handlers.
LEMMA GatewaysKeepInv ==
    ASSUME NEW c \in Configs, NEW done \in BOOLEAN, NEW p, ProcessorInv(p, c, done),
           p.pc = "client"
    PROVE  LET infs == PerScope(GatewayKinds, c)
           IN  ProcessorInv([Create(p, infs, OfKinds(Elems(infs), {"Gateway", "GatewayClass"}))
                   EXCEPT !.pc = "service", !.gwInfs = OfKinds(Elems(infs), {"Gateway"})], c, done)
<1> DEFINE infs == PerScope(GatewayKinds, c)
           all == AllOf(Elems(GatewayKinds), c)
           h == OfKinds(Elems(infs), {"Gateway", "GatewayClass"})
           g == OfKinds(Elems(infs), {"Gateway"})
           r == Create(p, infs, h)
           q == [r EXCEPT !.pc = "service", !.gwInfs = g]
<1>1. /\ p \in Processors(c) /\ p.waiting <= Len(p.informers) + 1
      /\ Created(p, c) /\ Alive(p, done) /\ Wired(p, c) /\ Installed(p, c)
      /\ p.waiting \in Nat
  BY DEF ProcessorInv, Processors
<1>2. /\ Elems(infs) = all /\ GatewayKinds \in Seq(WatchedKinds(c))
      /\ Elems(GatewayKinds) = {"HTTPRoute", "GRPCRoute", "Gateway", "GatewayClass"}
  BY PerScopeFacts, KindsFacts
<1>3. h = AllOf({"Gateway", "GatewayClass"}, c) /\ g = AllOf({"Gateway"}, c)
  <2>1. /\ Elems(GatewayKinds) \cap {"Gateway", "GatewayClass"} = {"Gateway", "GatewayClass"}
        /\ Elems(GatewayKinds) \cap {"Gateway"} = {"Gateway"}
    BY <1>2
  <2> QED  BY <1>2, <2>1, AllOfFacts
<1> HIDE DEF infs, h, g
<1>4. h \subseteq all /\ g \subseteq Informers(c)
  <2>1. /\ {"Gateway", "GatewayClass"} \subseteq Elems(GatewayKinds)
        /\ {"Gateway"} \subseteq WatchedKinds(c)
    BY <1>2 DEF WatchedKinds
  <2> QED  BY <1>3, <2>1, AllOfFacts
<1>5. /\ r \in Processors(c) /\ Grown(p, r, all, h)
      /\ r.waiting <= Len(r.informers) + 1
  <2>1. r = Create(p, PerScope(GatewayKinds, c), h) /\ h \in SUBSET AllOf(Elems(GatewayKinds), c)
    BY <1>4 DEF infs
  <2>2. GatewayKinds \in Seq(WatchedKinds(c))
    BY <1>2
  <2> HIDE DEF r
  <2>3. r \in Processors(c) /\ Grown(p, r, AllOf(Elems(GatewayKinds), c), h)
    BY <1>1, <2>1, <2>2, CreateFacts
  <2>4. Unmoved(p, r)
    BY <1>1, <2>1, <2>2, CreateFacts
  <2> QED  BY <1>1, <2>3, <2>4 DEF Unmoved
<1> HIDE DEF r, all
<1>6. /\ Grown(p, q, all, h) /\ q.pc = "service" /\ q.gwInfs = g
      /\ q.waiting <= Len(q.informers) + 1
  BY <1>5 DEF Processors, Grown
<1>7. q \in Processors(c)
  <2> DEFINE t == [r EXCEPT !.pc = "service"]
  <2>1. t \in Processors(c) /\ q = [t EXCEPT !.gwInfs = g]
    BY <1>5 DEF Processors, Starting
  <2> HIDE DEF t, q
  <2> QED  BY <1>4, <2>1 DEF Processors
<1> HIDE DEF q
<1> USE DEF Grown
<1>8. Created(q, c)
  <2>1. AllOf({"Gateway"}, c) \subseteq h
    BY <1>3 DEF AllOf
  <2> QED  BY <1>1, <1>3, <1>6, <2>1 DEF Created, AfterClient, AfterService, AfterSlices, AfterRoutes, all
<1>9. Alive(q, done)
  <2>1. Running(q) = Running(p)
    BY <1>6 DEF Running
  <2>2. \A i \in all : i \in h \/ i[1] \in RouteKinds
    BY <1>2, <1>3 DEF all, AllOf, RouteKinds
  <2>3. all \subseteq OfKinds(all, Elems(GatewayKinds) \cup {"Service"})
    BY DEF all, AllOf, OfKinds
  <2> QED  BY <1>1, <1>6, <2>1, <2>2, <2>3 DEF Alive, OfKinds
<1>10. Wired(q, c)
  <2>1. Running(q) = Running(p)
    BY <1>6 DEF Running
  <2> QED  BY <1>1, <1>3, <1>6, <2>1 DEF Wired
<1>11. Installed(q, c)
  BY <1>1, <1>6, InstalledKept DEF Starting
<1> QED  BY <1>6, <1>7, <1>8, <1>9, <1>10, <1>11 DEF ProcessorInv, q, r, infs, h, g

\* The Service informers, if any feature needs them.
LEMMA ServicesKeepInv ==
    ASSUME NEW c \in Configs, NEW done \in BOOLEAN, NEW p, ProcessorInv(p, c, done),
           p.pc = "service"
    PROVE  LET infs == PerScope(<<"Service">>, c)
           IN  IF serviceIndexes(c) = {} THEN ProcessorInv([p EXCEPT !.pc = "routes"], c, done)
               ELSE ProcessorInv([Create(p, infs, Elems(infs))
                        EXCEPT !.pc = "slices", !.indexes = serviceIndexes(c)], c, done)
<1>1. /\ p \in Processors(c) /\ p.waiting <= Len(p.informers) + 1
      /\ Created(p, c) /\ Alive(p, done) /\ Wired(p, c) /\ Installed(p, c)
  BY DEF ProcessorInv
<1>2. serviceIndexes(c) \in SUBSET {"ip", "waypoint", "name"}
  BY DEF serviceIndexes
<1>3. ASSUME serviceIndexes(c) = {}
      PROVE  ProcessorInv([p EXCEPT !.pc = "routes"], c, done)
  <2> DEFINE q == [p EXCEPT !.pc = "routes"]
  <2>1. q \in Processors(c) /\ SameInformers(p, q) /\ q.waiting = p.waiting /\ q.pc = "routes"
    BY <1>1 DEF Processors, SameInformers, SameButRunning, Starting
  <2> HIDE DEF q
  <2>2. Running(q) = Running(p) /\ Elems(q.informers) = Elems(p.informers)
    BY <2>1 DEF Running, SameInformers, SameButRunning
  <2>3. ~(c.fallback /\ PodIPEnabled(c))
    BY <1>3 DEF serviceIndexes
  <2>4. Created(q, c)
    BY <1>1, <1>3, <2>1, <2>2, <2>3 DEF Created, SameInformers, SameButRunning,
       AfterClient, AfterService, AfterSlices, AfterRoutes
  <2>5. Alive(q, done) /\ Wired(q, c)
    BY <1>1, <2>1, <2>2 DEF Alive, Wired, SameInformers, SameButRunning
  <2>6. Installed(q, c)
    BY <1>1, <2>1, InstalledKept DEF SameInformers, SameButRunning, Starting
  <2>7. ProcessorInv(q, c, done)
    BY <1>1, <2>1, <2>4, <2>5, <2>6 DEF ProcessorInv, SameInformers, SameButRunning
  <2> QED  BY <2>7 DEF q
<1>4. ASSUME serviceIndexes(c) # {}
      PROVE  LET infs == PerScope(<<"Service">>, c)
             IN  ProcessorInv([Create(p, infs, Elems(infs))
                     EXCEPT !.pc = "slices", !.indexes = serviceIndexes(c)], c, done)
  <2> DEFINE infs == PerScope(<<"Service">>, c)
             all == AllOf({"Service"}, c)
             r == Create(p, infs, Elems(infs))
             q == [r EXCEPT !.pc = "slices", !.indexes = serviceIndexes(c)]
  <2>1. /\ r \in Processors(c) /\ Grown(p, r, all, all)
        /\ r.waiting <= Len(r.informers) + 1 /\ r.gwInfs = p.gwInfs
    BY <1>1, CreateKind DEF Unmoved
  <2> HIDE DEF r, all, infs
  <2>2. /\ q.hook = p.hook /\ q.running = p.running /\ q.synced = p.synced
        /\ q.inferrer = p.inferrer /\ q.lookup = p.lookup /\ q.stopFn = p.stopFn
        /\ q.handled = p.handled \cup all
        /\ Elems(q.informers) = Elems(p.informers) \cup all
        /\ q.pc = "slices" /\ q.indexes = serviceIndexes(c) /\ q.gwInfs = p.gwInfs
        /\ q.waiting <= Len(q.informers) + 1
    BY <2>1 DEF Processors, Grown
  <2>3. q \in Processors(c)
    <3> DEFINE t == [r EXCEPT !.pc = "slices"]
    <3>1. t \in Processors(c) /\ q = [t EXCEPT !.indexes = serviceIndexes(c)]
      BY <2>1 DEF Processors, Starting
    <3> HIDE DEF t, q
    <3> QED  BY <1>2, <3>1 DEF Processors
  <2> HIDE DEF q
  <2>4. Running(q) = Running(p)
    BY <2>2 DEF Running
  <2>5. Created(q, c)
    BY <1>1, <2>2 DEF Created, all, AfterClient, AfterService, AfterSlices, AfterRoutes
  <2>6. Alive(q, done)
    <3>1. \A i \in all : i[1] \in Elems(GatewayKinds) \cup {"Service"}
      BY DEF all, AllOf
    <3> QED  BY <1>1, <2>2, <2>4, <3>1 DEF Alive, OfKinds
  <2>7. Wired(q, c)
    <3>1. p.inferrer = "wired" => "name" \in serviceIndexes(c)
      BY <1>1 DEF Wired, serviceIndexes
    <3> QED  BY <1>1, <2>2, <2>4, <3>1 DEF Wired
  <2>8. Installed(q, c)
    BY <1>1, <2>2, InstalledKept DEF Starting
  <2> QED  BY <2>2, <2>3, <2>5, <2>6, <2>7, <2>8 DEF ProcessorInv, q, r, infs
<1> QED  BY <1>3, <1>4

\* The EndpointSlice informers, if Pod IPs are resolved, which run at once.
LEMMA SlicesKeepInv ==
    ASSUME NEW c \in Configs, NEW done \in BOOLEAN, NEW p, ProcessorInv(p, c, done),
           p.pc = "slices"
    PROVE  LET infs == PerScope(<<"EndpointSlice">>, c)
               next == [p EXCEPT !.pc = "routes"]
           IN  IF c.fallback /\ PodIPEnabled(c)
               THEN ProcessorInv(Run(Create(next, infs, Elems(infs)), Elems(infs), "start"), c, done)
               ELSE ProcessorInv(next, c, done)
<1> DEFINE infs == PerScope(<<"EndpointSlice">>, c)
           all == AllOf({"EndpointSlice"}, c)
           next == [p EXCEPT !.pc = "routes"]
<1>1. /\ p \in Processors(c) /\ p.waiting <= Len(p.informers) + 1
      /\ Created(p, c) /\ Alive(p, done) /\ Wired(p, c) /\ Installed(p, c)
  BY DEF ProcessorInv
<1>2. /\ next \in Processors(c) /\ SameInformers(p, next)
      /\ next.waiting = p.waiting /\ next.pc = "routes"
  BY <1>1 DEF Processors, SameInformers, SameButRunning, Starting
<1> HIDE DEF next
<1>3. CASE ~(c.fallback /\ PodIPEnabled(c))
  <2>1. Running(next) = Running(p) /\ Elems(next.informers) = Elems(p.informers)
    BY <1>2 DEF Running, SameInformers, SameButRunning
  <2>2. Created(next, c)
    BY <1>1, <1>2, <1>3, <2>1 DEF Created, SameInformers, SameButRunning,
       AfterClient, AfterService, AfterSlices, AfterRoutes
  <2>3. Alive(next, done) /\ Wired(next, c)
    BY <1>1, <1>2, <2>1 DEF Alive, Wired, SameInformers, SameButRunning
  <2>4. Installed(next, c)
    BY <1>1, <1>2, InstalledKept DEF SameInformers, SameButRunning, Starting
  <2>5. ProcessorInv(next, c, done)
    BY <1>1, <1>2, <2>2, <2>3, <2>4 DEF ProcessorInv, SameInformers, SameButRunning
  <2> QED  BY <1>3, <2>5 DEF next
<1>4. CASE c.fallback /\ PodIPEnabled(c)
  <2> DEFINE r == Create(next, infs, Elems(infs))
             q == Run(r, all, "start")
  <2>1. Elems(infs) = all /\ all \subseteq Informers(c)
    <3>1. Elems(infs) = all
      BY <1>2, CreateKind
    <3>2. {"EndpointSlice"} \subseteq WatchedKinds(c)
      BY DEF WatchedKinds
    <3> QED  BY <3>1, <3>2, AllOfFacts
  <2>2. /\ r \in Processors(c) /\ Grown(next, r, all, all) /\ r.gwInfs = next.gwInfs
        /\ r.pc = next.pc /\ r.waiting <= Len(r.informers) + 1
    <3>1. next.waiting <= Len(next.informers) + 1
      BY <1>1, <1>2 DEF SameInformers, SameButRunning
    <3> QED  BY <1>2, <3>1, CreateKind DEF Unmoved
  <2> HIDE DEF r, all, infs
  <2>3. /\ q \in Processors(c) /\ SameButRunning(r, q) /\ q.pc = r.pc
        /\ q.waiting = r.waiting /\ Running(q) = Running(r) \cup all
    BY <2>1, <2>2, RunFacts
  <2> HIDE DEF q
  <2>4. /\ q.synced = p.synced /\ q.inferrer = p.inferrer /\ q.indexes = p.indexes
        /\ q.lookup = p.lookup /\ q.stopFn = p.stopFn /\ q.gwInfs = p.gwInfs
        /\ q.handled = p.handled \cup all
        /\ Elems(q.informers) = Elems(p.informers) \cup all
        /\ Running(q) = Running(p) \cup all /\ q.pc = "routes"
        /\ q.waiting <= Len(q.informers) + 1
    BY <1>2, <2>2, <2>3 DEF Grown, SameInformers, SameButRunning, Running
  <2>5. Created(q, c)
    BY <1>1, <2>4 DEF Created, all, AfterClient, AfterService, AfterSlices, AfterRoutes
  <2>6. Alive(q, done)
    BY <1>1, <2>4 DEF Alive, OfKinds
  <2>7. Wired(q, c)
    <3>1. OfKinds(Running(q), RouteKinds) = OfKinds(Running(p), RouteKinds)
      BY <2>4 DEF OfKinds, RouteKinds, all, AllOf
    <3> QED  BY <1>1, <2>4, <3>1 DEF Wired
  <2>8. Installed(q, c)
    BY <1>1, <2>4, InstalledKept DEF Starting
  <2>9. ProcessorInv(q, c, done)
    BY <2>3, <2>4, <2>5, <2>6, <2>7, <2>8 DEF ProcessorInv
  <2> QED  BY <1>4, <2>1, <2>9 DEF q, r, infs, next
<1> QED  BY <1>3, <1>4

\* Pass 2: the route handlers, with the inferrer or without one.
LEMMA RoutesKeepInv ==
    ASSUME NEW c \in Configs, NEW done \in BOOLEAN, NEW p, ProcessorInv(p, c, done),
           p.pc = "routes",
           NEW inferrer, inferrer = IF InferServiceParentEnabled(c) THEN "wired" ELSE "nil"
    PROVE  ProcessorInv([p EXCEPT !.pc = "policies", !.inferrer = inferrer,
                                  !.handled = p.handled \cup OfKinds(Elems(p.informers), RouteKinds)],
                        c, done)
<1> DEFINE h == p.handled \cup OfKinds(Elems(p.informers), RouteKinds)
           q == [p EXCEPT !.pc = "policies", !.inferrer = inferrer, !.handled = h]
<1>1. /\ p \in Processors(c) /\ p.waiting <= Len(p.informers) + 1
      /\ Created(p, c) /\ Alive(p, done) /\ Wired(p, c) /\ Installed(p, c)
  BY DEF ProcessorInv
<1>2. /\ h \in SUBSET Informers(c) /\ p.handled \subseteq h /\ Elems(p.informers) \subseteq h
      /\ inferrer \in {"wired", "nil"}
  <2>1. p.informers \in Seq(Informers(c)) /\ p.handled \in SUBSET Informers(c)
    BY <1>1 DEF Processors
  <2>2. Elems(p.informers) \subseteq Informers(c)
    BY <2>1 DEF Elems
  <2>3. Elems(p.informers) \subseteq h
    BY <1>1 DEF Alive, OfKinds
  <2> QED  BY <2>1, <2>2, <2>3 DEF OfKinds
<1> HIDE DEF h
<1>3. /\ q.informers = p.informers /\ q.synced = p.synced /\ q.running = p.running
      /\ q.gwInfs = p.gwInfs /\ q.indexes = p.indexes /\ q.waiting = p.waiting
      /\ q.lookup = p.lookup /\ q.stopFn = p.stopFn
      /\ q.pc = "policies" /\ q.inferrer = inferrer /\ q.handled = h
  BY <1>1 DEF Processors
<1>4. q \in Processors(c)
  <2> DEFINE r == [p EXCEPT !.pc = "policies"]
             t == [r EXCEPT !.inferrer = inferrer]
  <2>1. r \in Processors(c)
    BY <1>1 DEF Processors, Starting
  <2>2. q = [t EXCEPT !.handled = h]
    BY <1>1 DEF Processors
  <2> HIDE DEF r, q
  <2>3. t \in Processors(c)
    BY <1>2, <2>1 DEF Processors
  <2> HIDE DEF t
  <2> QED  BY <1>2, <2>2, <2>3 DEF Processors
<1> HIDE DEF q
<1>5. Running(q) = Running(p)
  BY <1>3 DEF Running
<1>6. Created(q, c)
  BY <1>1, <1>2, <1>3 DEF Created, AfterClient, AfterService, AfterSlices, AfterRoutes
<1>7. Alive(q, done)
  BY <1>1, <1>2, <1>3, <1>5 DEF Alive
<1>8. Wired(q, c)
  <2>1. inferrer = "wired" => "name" \in serviceIndexes(c)
    BY DEF serviceIndexes
  <2> QED  BY <1>1, <1>2, <1>3, <2>1 DEF Wired, Created, AfterClient, AfterService,
              AfterSlices
<1>9. Installed(q, c)
  BY <1>1, <1>2, <1>3, InstalledKept DEF Starting
<1>10. ProcessorInv(q, c, done)
  BY <1>1, <1>3, <1>4, <1>6, <1>7, <1>8, <1>9 DEF ProcessorInv
<1> QED  BY <1>10 DEF q, h

\* The policy informers, if there are policies to watch, which run at once.
LEMMA PoliciesKeepInv ==
    ASSUME NEW c \in Configs, NEW done \in BOOLEAN, NEW p, ProcessorInv(p, c, done),
           p.pc = "policies"
    PROVE  LET infs == PerScope(policyKinds(c), c)
               next == [p EXCEPT !.pc = "start"]
           IN  IF c.policies = << >> THEN ProcessorInv(next, c, done)
               ELSE ProcessorInv(Run(Create(next, infs, Elems(infs)), Elems(infs), "start"), c, done)
<1> DEFINE infs == PerScope(policyKinds(c), c)
           all == AllOf(Elems(policyKinds(c)), c)
           next == [p EXCEPT !.pc = "start"]
<1>1. /\ p \in Processors(c) /\ p.waiting <= Len(p.informers) + 1
      /\ Created(p, c) /\ Alive(p, done) /\ Wired(p, c) /\ Installed(p, c)
  BY DEF ProcessorInv
<1>2. /\ next \in Processors(c) /\ SameInformers(p, next)
      /\ next.waiting = p.waiting /\ next.pc = "start"
  BY <1>1 DEF Processors, SameInformers, SameButRunning, Starting
<1> HIDE DEF next
<1>3. CASE c.policies = << >>
  <2>1. Running(next) = Running(p) /\ Elems(next.informers) = Elems(p.informers)
    BY <1>2 DEF Running, SameInformers, SameButRunning
  <2>2. all = {}
    BY <1>3 DEF policyKinds, Elems, AllOf
  <2> HIDE DEF all
  <2>3. Created(next, c)
    BY <1>1, <1>2, <2>1, <2>2 DEF Created, SameInformers, SameButRunning, all,
       AfterClient, AfterService, AfterSlices, AfterRoutes
  <2>4. Alive(next, done) /\ Wired(next, c)
    BY <1>1, <1>2, <2>1 DEF Alive, Wired, SameInformers, SameButRunning
  <2>5. Installed(next, c)
    BY <1>1, <1>2, InstalledKept DEF SameInformers, SameButRunning, Starting
  <2>6. ProcessorInv(next, c, done)
    BY <1>1, <1>2, <2>3, <2>4, <2>5 DEF ProcessorInv, SameInformers, SameButRunning
  <2> QED  BY <1>3, <2>6 DEF next
<1>4. CASE c.policies # << >>
  <2> DEFINE r == Create(next, infs, Elems(infs))
             q == Run(r, all, "start")
  <2>1. policyKinds(c) \in Seq(WatchedKinds(c))
    BY KindsFacts
  <2>2. Elems(infs) = all /\ all \subseteq Informers(c)
    <3>1. Elems(infs) = all
      BY <2>1, PerScopeFacts
    <3>2. Elems(policyKinds(c)) \subseteq WatchedKinds(c)
      BY DEF WatchedKinds
    <3> QED  BY <3>1, <3>2, AllOfFacts
  <2>3. /\ r \in Processors(c) /\ Grown(next, r, all, all)
        /\ Unmoved(next, r)
    <3>1. r = Create(next, PerScope(policyKinds(c), c), all)
          /\ all \in SUBSET AllOf(Elems(policyKinds(c)), c)
      BY <2>2
    <3> HIDE DEF r, all
    <3>2. r \in Processors(c) /\ Grown(next, r, AllOf(Elems(policyKinds(c)), c), all)
      BY <1>2, <2>1, <3>1, CreateFacts
    <3>3. Unmoved(next, r)
      BY <1>2, <2>1, <3>1, CreateFacts
    <3> QED  BY <3>2, <3>3 DEF all
  <2> HIDE DEF r, all, infs
  <2>4. /\ q \in Processors(c) /\ SameButRunning(r, q) /\ q.pc = r.pc
        /\ q.waiting = r.waiting /\ Running(q) = Running(r) \cup all
    BY <2>2, <2>3, RunFacts
  <2> HIDE DEF q
  <2>5. /\ q.synced = p.synced /\ q.inferrer = p.inferrer /\ q.indexes = p.indexes
        /\ q.lookup = p.lookup /\ q.stopFn = p.stopFn /\ q.gwInfs = p.gwInfs
        /\ q.handled = p.handled \cup all
        /\ Elems(q.informers) = Elems(p.informers) \cup all
        /\ Running(q) = Running(p) \cup all /\ q.pc = "start"
    BY <1>2, <2>3, <2>4 DEF Grown, Unmoved, SameInformers, SameButRunning, Running
  <2>6. q.waiting <= Len(q.informers) + 1
    BY <1>1, <1>2, <2>3, <2>4 DEF Unmoved, SameInformers, SameButRunning
  <2>7. Created(q, c)
    BY <1>1, <2>5 DEF Created, all, AfterClient, AfterService, AfterSlices, AfterRoutes
  <2>8. Alive(q, done)
    BY <1>1, <2>5 DEF Alive, OfKinds
  <2>9. Wired(q, c)
    BY <1>1, <2>5 DEF Wired, Created, AfterRoutes
  <2>10. Installed(q, c)
    BY <1>1, <2>5, InstalledKept DEF Starting
  <2>11. ProcessorInv(q, c, done)
    BY <2>4, <2>6, <2>7, <2>8, <2>9, <2>10 DEF ProcessorInv
  <2> QED  BY <1>4, <2>2, <2>11 DEF q, r, infs, next
<1> QED  BY <1>3, <1>4

\* Pass 3: the Gateway API and Service informers run, and the wait begins.
LEMMA StartKeepsInv ==
    ASSUME NEW c \in Configs, NEW done \in BOOLEAN, NEW p, ProcessorInv(p, c, done),
           p.pc = "start"
    PROVE  LET infs == OfKinds(Elems(p.informers), Elems(GatewayKinds) \cup {"Service"})
           IN  ProcessorInv([Run(p, infs, "start") EXCEPT !.pc = "wait", !.waiting = 1], c, done)
<1> DEFINE infs == OfKinds(Elems(p.informers), Elems(GatewayKinds) \cup {"Service"})
           r == Run(p, infs, "start")
           t == [r EXCEPT !.pc = "wait"]
           q == [t EXCEPT !.waiting = 1]
<1>1. /\ p \in Processors(c) /\ p.waiting <= Len(p.informers) + 1
      /\ Created(p, c) /\ Alive(p, done) /\ Wired(p, c) /\ Installed(p, c)
      /\ p.informers \in Seq(Informers(c))
  BY DEF ProcessorInv, Processors
<1>2. infs \in SUBSET Informers(c) /\ infs \subseteq Elems(p.informers)
  <2>1. Elems(p.informers) \subseteq Informers(c)
    BY <1>1 DEF Elems
  <2> QED  BY <2>1 DEF OfKinds
<1>3. Elems(p.informers) \subseteq p.handled /\ p.inferrer # "unset"
  BY <1>1 DEF Created, AfterRoutes
<1> HIDE DEF infs
<1>4. r \in Processors(c) /\ SameButRunning(p, r) /\ Running(r) = Running(p) \cup infs
  BY <1>1, <1>2, RunFacts
<1> HIDE DEF r
<1>5. /\ t \in Processors(c) /\ SameButRunning(r, t) /\ t.running = r.running /\ t.pc = "wait"
  BY <1>4 DEF Processors, SameButRunning, Starting
<1> HIDE DEF t
<1>6. /\ q \in Processors(c) /\ SameButRunning(t, q) /\ q.running = t.running /\ q.pc = "wait"
      /\ q.waiting = 1
  BY <1>5 DEF Processors, SameButRunning
<1> HIDE DEF q
<1>7. SameButRunning(p, q) /\ Running(q) = Running(p) \cup infs
  BY <1>4, <1>5, <1>6 DEF SameButRunning, Running
<1>8. q.waiting <= Len(q.informers) + 1
  BY <1>1, <1>6, <1>7 DEF SameButRunning
<1>9. Created(q, c)
  BY <1>1, <1>6, <1>7 DEF SameButRunning, Created, AfterClient, AfterService,
     AfterSlices, AfterRoutes
<1>10. Alive(q, done)
  <2>1. ~done => Elems(p.informers) \subseteq Running(p) \cup infs
    BY <1>1 DEF Alive, infs
  <2>2. \A n \in 1 .. Len(q.informers) : ~(n < q.waiting)
    BY <1>6
  <2> QED  BY <1>1, <1>2, <1>3, <1>6, <1>7, <2>1, <2>2 DEF Alive, SameButRunning
<1>11. Wired(q, c)
  BY <1>1, <1>3, <1>7 DEF Wired, SameButRunning
<1>12. Installed(q, c)
  BY <1>1, <1>6, <1>7, InstalledKept DEF SameButRunning, Starting
<1>13. ProcessorInv(q, c, done)
  BY <1>6, <1>8, <1>9, <1>10, <1>11, <1>12 DEF ProcessorInv
<1> QED  BY <1>13 DEF q, t, r, infs

\* Start keeps the lookup when all informers there are to wait for have synced.
LEMMA ReturnKeepsInv ==
    ASSUME NEW c \in Configs, NEW done \in BOOLEAN, NEW p, ProcessorInv(p, c, done),
           p.pc = "wait", ~(p.waiting <= Len(p.informers))
    PROVE  ProcessorInv([Leave(p, "running") EXCEPT !.lookup = "informers", !.stopFn = TRUE],
                        c, done)
<1> DEFINE r == Leave(p, "running")
           t == [r EXCEPT !.lookup = "informers"]
           q == [t EXCEPT !.stopFn = TRUE]
<1>1. /\ p \in Processors(c) /\ p.waiting \in Nat
      /\ Created(p, c) /\ Alive(p, done) /\ Wired(p, c) /\ Installed(p, c)
      /\ p.informers \in Seq(Informers(c))
  BY DEF ProcessorInv, Processors
<1>2. Elems(p.informers) \subseteq p.synced \cap p.handled
  <2>1. \A n \in 1 .. Len(p.informers) : p.informers[n] \in p.synced
    BY <1>1 DEF Alive
  <2>2. Elems(p.informers) \subseteq p.synced
    BY <1>1, <2>1 DEF Elems
  <2> QED  BY <1>1, <2>2 DEF Created, AfterRoutes
<1>3. Needed(c) \subseteq Elems(p.informers)
  <2> DEFINE infs == Elems(p.informers)
             S == 1 .. Scopes(c)
  <2>1. /\ Elems(GatewayKinds) \X S \subseteq infs
        /\ Elems(policyKinds(c)) \X S \subseteq infs
        /\ serviceIndexes(c) # {} => {"Service"} \X S \subseteq infs
        /\ c.fallback /\ PodIPEnabled(c) => {"EndpointSlice"} \X S \subseteq infs
    BY <1>1 DEF Created, AllOf, AfterClient, AfterService, AfterSlices, AfterRoutes
  <2>2. c.fallback \/ WaypointEnabled(c) \/ InferServiceParentEnabled(c)
            => serviceIndexes(c) # {}
    BY DEF serviceIndexes
  <2> SUFFICES ASSUME NEW kind \in KindsNeeded(c), NEW n \in S
               PROVE  <<kind, n>> \in infs
    BY DEF Needed
  <2> HIDE DEF infs, S
  <2>3. CASE kind \in Elems(GatewayKinds) \cup Elems(policyKinds(c))
    BY <2>1, <2>3
  <2>4. CASE /\ kind = "Service"
             /\ c.fallback \/ WaypointEnabled(c) \/ InferServiceParentEnabled(c)
    BY <2>1, <2>2, <2>4
  <2>5. CASE kind = "EndpointSlice" /\ c.fallback /\ PodIPEnabled(c)
    BY <2>1, <2>5
  <2> QED  BY <2>3, <2>4, <2>5 DEF KindsNeeded
<1>4. /\ r \in Processors(c) /\ SameInformers(p, r) /\ r.pc = "running" /\ r.waiting = 0
  BY <1>1 DEF Processors, Leave, SameInformers, SameButRunning
<1> HIDE DEF r
<1>5. /\ t \in Processors(c) /\ t.pc = "running" /\ t.waiting = 0 /\ t.hook = p.hook
      /\ t.informers = p.informers /\ t.handled = p.handled /\ t.running = p.running
      /\ t.synced = p.synced /\ t.gwInfs = p.gwInfs /\ t.indexes = p.indexes
      /\ t.inferrer = p.inferrer /\ t.lookup = "informers"
  BY <1>4 DEF Processors, SameInformers, SameButRunning
<1> HIDE DEF t
<1>6. /\ q \in Processors(c) /\ q.pc = "running" /\ q.waiting = 0
      /\ q.informers = p.informers /\ q.handled = p.handled /\ q.running = p.running
      /\ q.synced = p.synced /\ q.gwInfs = p.gwInfs /\ q.indexes = p.indexes
      /\ q.inferrer = p.inferrer /\ q.lookup = "informers" /\ q.stopFn = TRUE
  BY <1>5 DEF Processors
<1> HIDE DEF q
<1>7. q.waiting <= Len(q.informers) + 1
  BY <1>1, <1>6
<1>8. Created(q, c)
  BY <1>6 DEF Created, AfterClient, AfterService, AfterSlices, AfterRoutes
<1>9. Running(q) = Running(p)
  BY <1>6 DEF Running
<1>10. Alive(q, done) /\ Wired(q, c)
  BY <1>1, <1>6, <1>9 DEF Alive, Wired
<1>11. Installed(q, c)
  BY <1>1, <1>2, <1>3, <1>6, LifecycleAssumption DEF Installed
<1>12. ProcessorInv(q, c, done)
  BY <1>6, <1>7, <1>8, <1>10, <1>11 DEF ProcessorInv
<1> QED  BY <1>12 DEF q, t, r

\* An informer syncs.
LEMMA SyncKeepsInv ==
    ASSUME NEW c \in Configs, NEW done \in BOOLEAN, NEW p, ProcessorInv(p, c, done),
           NEW i \in Running(p)
    PROVE  ProcessorInv([p EXCEPT !.synced = p.synced \cup {i}], c, done)
<1> DEFINE synced == p.synced \cup {i}
           q == [p EXCEPT !.synced = synced]
<1>1. /\ p \in Processors(c) /\ p.waiting <= Len(p.informers) + 1
      /\ Created(p, c) /\ Alive(p, done) /\ Wired(p, c) /\ Installed(p, c)
      /\ p.handled \in SUBSET Informers(c) /\ p.synced \in SUBSET Informers(c)
  BY DEF ProcessorInv, Processors
<1>2. i \in p.handled /\ synced \in SUBSET Informers(c)
  BY <1>1 DEF Alive
<1>3. p.synced \subseteq synced /\ synced \subseteq p.handled
  BY <1>1, <1>2 DEF Alive
<1> HIDE DEF synced
<1>4. /\ q \in Processors(c) /\ q.pc = p.pc /\ q.waiting = p.waiting /\ q.hook = p.hook
      /\ q.informers = p.informers /\ q.handled = p.handled /\ q.running = p.running
      /\ q.synced = synced /\ q.gwInfs = p.gwInfs /\ q.indexes = p.indexes
      /\ q.inferrer = p.inferrer /\ q.lookup = p.lookup /\ q.stopFn = p.stopFn
  BY <1>1, <1>2 DEF Processors
<1> HIDE DEF q
<1>5. Running(q) = Running(p)
  BY <1>4 DEF Running
<1>6. Created(q, c) /\ Wired(q, c)
  BY <1>1, <1>4, <1>5 DEF Created, Wired
<1>7. Alive(q, done)
  BY <1>1, <1>3, <1>4, <1>5 DEF Alive
<1>8. Installed(q, c)
  BY <1>1, <1>3, <1>4 DEF Installed
<1>9. ProcessorInv(q, c, done)
  BY <1>1, <1>4, <1>6, <1>7, <1>8 DEF ProcessorInv
<1> QED  BY <1>9 DEF q, synced

\* Informers stop, all of them with the context that Start was given.
LEMMA StopKeepsInv ==
    ASSUME NEW c \in Configs, NEW p, ProcessorInv(p, c, TRUE), NEW ended
    PROVE  ProcessorInv([p EXCEPT !.running = p.running \ ended], c, TRUE)
<1> DEFINE running == p.running \ ended
           q == [p EXCEPT !.running = running]
<1>1. /\ p \in Processors(c) /\ p.waiting <= Len(p.informers) + 1
      /\ Created(p, c) /\ Alive(p, TRUE) /\ Wired(p, c) /\ Installed(p, c)
  BY DEF ProcessorInv
<1>2. running \in SUBSET (Informers(c) \X {"start"}) /\ running \subseteq p.running
  BY <1>1 DEF Processors
<1> HIDE DEF running
<1>3. /\ q \in Processors(c) /\ q.pc = p.pc /\ q.waiting = p.waiting
      /\ SameButRunning(p, q) /\ q.running = running
  BY <1>1, <1>2 DEF Processors, SameButRunning
<1> HIDE DEF q
<1>4. Running(q) \subseteq Running(p)
  BY <1>2, <1>3 DEF Running
<1>5. Created(q, c) /\ Installed(q, c)
  BY <1>1, <1>3 DEF Created, Installed, SameButRunning
<1>6. Alive(q, TRUE)
  BY <1>1, <1>3, <1>4 DEF Alive, SameButRunning
<1>7. Wired(q, c)
  BY <1>1, <1>3, <1>4 DEF Wired, OfKinds, SameButRunning
<1>8. ProcessorInv(q, c, TRUE)
  BY <1>1, <1>3, <1>5, <1>6, <1>7 DEF ProcessorInv, SameButRunning
<1> QED  BY <1>8 DEF q, running

\* With the context ended, less is claimed of what runs.
LEMMA CancelKeepsInv ==
    ASSUME NEW c, NEW done \in BOOLEAN, NEW p, ProcessorInv(p, c, done)
    PROVE  ProcessorInv(p, c, TRUE)
<1>1. Alive(p, TRUE)
  BY DEF ProcessorInv, Alive
<1> QED  BY <1>1 DEF ProcessorInv

\* Nothing has been created for q yet.
Blank(q) ==
    /\ q.informers = << >> /\ q.handled = {} /\ q.running = {}
    /\ q.synced = {} /\ q.gwInfs = {} /\ q.indexes = {} /\ q.inferrer = "unset"
    /\ q.waiting = 0 /\ q.stopFn = FALSE

\* A processor before and after newProcessor.
LEMMA NewKeepsInv ==
    ASSUME NEW c \in Configs, NEW done \in BOOLEAN
    PROVE  /\ ProcessorInv(NoProcessor, c, done)
           /\ ProcessorInv([BuiltProcessor EXCEPT !.hook = (c.auth # "none")], c, done)
<1>1. ASSUME NEW q \in Processors(c), Blank(q), q.pc \in {"none", "built"},
             q.lookup = IF q.pc = "none" THEN None ELSE "static",
             q.pc = "built" => q.hook = (c.auth # "none")
      PROVE  ProcessorInv(q, c, done)
  <2>1. Elems(q.informers) = {} /\ Running(q) = {} /\ Len(q.informers) = 0
    BY <1>1, EmptySeq DEF Blank, Elems, Running
  <2>2. Created(q, c)
    BY <1>1, <2>1 DEF Blank, Created, AfterClient, AfterService, AfterSlices, AfterRoutes
  <2>3. Alive(q, done) /\ Wired(q, c)
    BY <1>1, <2>1 DEF Blank, Alive, Wired, OfKinds
  <2>4. Installed(q, c)
    BY <1>1, LifecycleAssumption DEF Blank, Installed
  <2> QED  BY <1>1, <2>1, <2>2, <2>3, <2>4 DEF ProcessorInv, Blank
<1> DEFINE r == [NoProcessor EXCEPT !.pc = "built"]
           t == [r EXCEPT !.lookup = "static"]
           q == [t EXCEPT !.hook = (c.auth # "none")]
<1>2. /\ NoProcessor \in Processors(c) /\ Blank(NoProcessor)
      /\ NoProcessor.pc = "none" /\ NoProcessor.lookup = None
  BY EmptySeq DEF NoProcessor, Processors, Blank
<1>3. r \in Processors(c) /\ Blank(r) /\ r.pc = "built"
  BY <1>2 DEF Processors, Blank
<1>4. [BuiltProcessor EXCEPT !.hook = (c.auth # "none")] = q
  BY DEF BuiltProcessor
<1> HIDE DEF r
<1>5. t \in Processors(c) /\ Blank(t) /\ t.pc = "built" /\ t.lookup = "static"
  BY <1>3 DEF Processors, Blank
<1> HIDE DEF t
<1>6. /\ q \in Processors(c) /\ Blank(q) /\ q.pc = "built" /\ q.lookup = "static"
      /\ q.hook = (c.auth # "none")
  BY <1>5 DEF Processors, Blank
<1> HIDE DEF q
<1>7. ProcessorInv(NoProcessor, c, done)
  BY <1>1, <1>2
<1>8. ProcessorInv(q, c, done)
  BY <1>1, <1>6
<1> QED  BY <1>4, <1>7, <1>8

-----------------------------------------------------------------------------
(* Every step preserves LifecycleInv *)

\* One processor changes, and keeps its part of the invariant.
LEMMA BecomesKeepsInv ==
    ASSUME LifecycleInv, NEW s \in Signals, NEW p, Becomes(s, p),
           ProcessorInv(p, cfg, ctxDone)
    PROVE  LifecycleInv'
<1>1. /\ proc' = [proc EXCEPT ![s] = p]
      /\ cfg' = cfg /\ denied' = denied /\ host' = host /\ ctxDone' = ctxDone
  BY DEF Becomes
<1>2. DOMAIN proc' = Signals /\ \A t \in Signals : proc'[t] = IF t = s THEN p ELSE proc[t]
  BY <1>1 DEF LifecycleInv
<1>3. \A t \in Signals : ProcessorInv(proc'[t], cfg', ctxDone')
  BY <1>1, <1>2 DEF LifecycleInv
<1>4. AcceptedConfigBuilds'
  BY <1>1 DEF LifecycleInv, AcceptedConfigBuilds, Validate, ValidateParser
<1> QED  BY <1>1, <1>2, <1>3, <1>4 DEF LifecycleInv

\* Every step of newInformers.
LEMMA StartStepKeepsInv ==
    ASSUME LifecycleInv, NEW s \in Signals, StartStep(s)
    PROVE  LifecycleInv'
<1> DEFINE p == proc[s]
<1>1. cfg \in Configs /\ ctxDone \in BOOLEAN /\ ProcessorInv(p, cfg, ctxDone)
  BY DEF LifecycleInv
<1>2. ASSUME p.pc \in Starting, Fail(s) PROVE LifecycleInv'
  BY <1>1, <1>2, EndsKeepInv, BecomesKeepsInv DEF Fail
<1>3. CASE CreateGatewayInformers(s)
  BY <1>1, <1>2, <1>3, GatewaysKeepInv, BecomesKeepsInv DEF CreateGatewayInformers, At, Starting
<1>4. CASE startServiceInformer(s)
  BY <1>1, <1>2, <1>4, ServicesKeepInv, BecomesKeepsInv
     DEF startServiceInformer, NeedsServices, At, Starting
<1>5. CASE startEndpointSliceInformer(s)
  BY <1>1, <1>5, SlicesKeepInv, BecomesKeepsInv DEF startEndpointSliceInformer, NeedsSlices, At
<1>6. CASE RegisterRouteHandlers(s)
  BY <1>1, <1>6, RoutesKeepInv, BecomesKeepsInv
     DEF RegisterRouteHandlers, newParentInferrer, At
<1>7. CASE startPolicyInformers(s)
  BY <1>1, <1>2, <1>7, PoliciesKeepInv, BecomesKeepsInv DEF startPolicyInformers, At, Starting
<1>8. CASE StartFactories(s)
  BY <1>1, <1>8, StartKeepsInv, BecomesKeepsInv DEF StartFactories, At
<1>9. CASE Poll(s) \/ Advance(s)
  BY <1>1, <1>9, WaitKeepsInv, BecomesKeepsInv DEF Poll, Advance, Waiting, Awaited, At
<1>10. CASE TimeOut(s)
  BY <1>2, <1>10 DEF TimeOut, Waiting, At, Starting
<1>11. CASE Return(s)
  BY <1>1, <1>11, ReturnKeepsInv, BecomesKeepsInv DEF Return, Waiting, At
<1> QED  BY <1>3, <1>4, <1>5, <1>6, <1>7, <1>8, <1>9, <1>10, <1>11 DEF StartStep

\* What Validate accepts can be built, but for the names of the parsers.
LEMMA AcceptedBuilds ==
    ASSUME NEW c, Validate(c), ~buildParserChain(c)
    PROVE  \E i \in DOMAIN c.parsers : c.parsers[i].name \notin KnownParsers
  BY DEF Validate, ValidateParser, buildParserChain, NewEnvoyParser

\* The collector's own steps: validation, its end, and the context's.
LEMMA HostKeepsInv ==
    ASSUME LifecycleInv, Load \/ GoDown \/ CancelContext \/ UNCHANGED vars
    PROVE  LifecycleInv'
<1>1. cfg' = cfg /\ denied' = denied /\ proc' = proc
  BY DEF Load, GoDown, CancelContext, vars
<1>2. host' \in {"load", "up", "down", "refused"} /\ ctxDone' \in BOOLEAN
  BY DEF LifecycleInv, Load, GoDown, CancelContext, vars
<1>3. \A s \in Signals : ProcessorInv(proc[s], cfg, ctxDone')
  <2>1. CASE ctxDone' = ctxDone
    BY <2>1 DEF LifecycleInv
  <2>2. CASE ctxDone' # ctxDone
    <3>1. ctxDone' = TRUE
      BY <2>2 DEF Load, GoDown, CancelContext, vars
    <3>2. \A s \in Signals : ProcessorInv(proc[s], cfg, TRUE)
      BY CancelKeepsInv DEF LifecycleInv
    <3> QED  BY <3>1, <3>2
  <2> QED  BY <2>1, <2>2
<1>4. AcceptedConfigBuilds'
  <2>1. Validate(cfg)' <=> Validate(cfg)
    BY <1>1 DEF Validate, ValidateParser
  <2>2. host' = "refused" /\ Validate(cfg) => host = "refused"
    BY DEF Load, GoDown, CancelContext, vars
  <2> QED  BY <1>1, <2>1, <2>2 DEF LifecycleInv, AcceptedConfigBuilds
<1> QED  BY <1>1, <1>2, <1>3, <1>4 DEF LifecycleInv

\* What the collector does with a processor, and what goes on by itself.
LEMMA ProcessorKeepsInv ==
    ASSUME LifecycleInv, NEW s \in Signals,
           \/ newProcessor(s) \/ Start(s) \/ Shutdown(s) \/ Elapse(s) \/ StopInformers(s)
           \/ \E i \in Running(proc[s]) : Sync(s, i)
    PROVE  LifecycleInv'
<1> DEFINE p == proc[s]
<1>1. cfg \in Configs /\ ctxDone \in BOOLEAN /\ ProcessorInv(p, cfg, ctxDone)
  BY DEF LifecycleInv
<1>2. CASE newProcessor(s)
  <2>1. CASE buildParserChain(cfg)
    <3>1. Becomes(s, [BuiltProcessor EXCEPT !.hook = (cfg.auth # "none")])
      BY <1>2, <2>1 DEF newProcessor, attachDefaultStartHook
    <3> QED  BY <1>1, <3>1, NewKeepsInv, BecomesKeepsInv
  <2>2. CASE ~buildParserChain(cfg)
    <3>1. host' = "refused" /\ UNCHANGED <<cfg, denied, ctxDone, proc>>
      BY <1>2, <2>2 DEF newProcessor
    <3>2. AcceptedConfigBuilds'
      <4>1. Validate(cfg)' <=> Validate(cfg)
        BY <3>1 DEF Validate, ValidateParser
      <4> QED  BY <2>2, <3>1, <4>1, AcceptedBuilds DEF AcceptedConfigBuilds
    <3> QED  BY <3>1, <3>2 DEF LifecycleInv
  <2> QED  BY <2>1, <2>2
<1>3. CASE Start(s)
  BY <1>1, <1>3, EndsKeepInv, BecomesKeepsInv DEF Start, At
<1>4. CASE Shutdown(s)
  BY <1>1, <1>4, EndsKeepInv, BecomesKeepsInv DEF Shutdown
<1>5. CASE Elapse(s)
  BY <1>1, <1>5, WaitKeepsInv, BecomesKeepsInv DEF Elapse, At
<1>6. CASE StopInformers(s)
  <2> DEFINE ended == {r \in p.running : Closed(p, r[2])}
  <2>1. ended # {} /\ Becomes(s, [p EXCEPT !.running = p.running \ ended])
    BY <1>6 DEF StopInformers
  <2>2. p.running \in SUBSET (Informers(cfg) \X {"start"})
    BY <1>1 DEF ProcessorInv, Processors
  <2>3. ctxDone = TRUE
    <3>1. PICK r \in p.running : Closed(p, r[2])
      BY <2>1
    <3>2. r[2] = "start"
      BY <2>2
    <3> QED  BY <1>1, <3>1, <3>2 DEF Closed
  <2> HIDE DEF ended
  <2> QED  BY <1>1, <2>1, <2>3, StopKeepsInv, BecomesKeepsInv
<1>7. ASSUME NEW i \in Running(p), Sync(s, i) PROVE LifecycleInv'
  BY <1>1, <1>7, SyncKeepsInv, BecomesKeepsInv DEF Sync
<1> QED  BY <1>2, <1>3, <1>4, <1>5, <1>6, <1>7

-----------------------------------------------------------------------------
(* Theorems *)

\* The inductive invariant holds however the starts, the informers, the timeout
\* and the contexts interleave.
THEOREM LifecycleInvariant == Spec => []LifecycleInv
<1>1. Init => LifecycleInv
  <2> SUFFICES ASSUME Init PROVE LifecycleInv
    OBVIOUS
  <2>1. \A s \in Signals : proc[s] = NoProcessor
    BY DEF Init
  <2>2. \A s \in Signals : ProcessorInv(proc[s], cfg, ctxDone)
    BY <2>1, NewKeepsInv DEF Init
  <2> QED  BY <2>2 DEF Init, LifecycleInv, AcceptedConfigBuilds
<1>2. LifecycleInv /\ [Next]_vars => LifecycleInv'
  BY StartStepKeepsInv, HostKeepsInv, ProcessorKeepsInv DEF Next
<1> QED  BY <1>1, <1>2, PTL DEF Spec

\* Every variable keeps its type, and no informer runs without handlers.
THEOREM LifecycleTypeOK == Spec => []TypeOK
<1>1. LifecycleInv => TypeOK
  <2> SUFFICES ASSUME LifecycleInv, NEW s \in Signals
               PROVE  LET p == proc[s]
                      IN  /\ p.pc \in Starting \cup {"none", "built", "running", "failed", "stopped"}
                          /\ p.synced \cup Running(p) \subseteq p.handled
                          /\ p.waiting \in 0 .. (Len(p.informers) + 1)
                          /\ p.lookup \in {None, "static", "informers"}
                          /\ p.lookup = None <=> p.pc = "none"
                          /\ p.stopFn <=> p.lookup = "informers"
    BY DEF TypeOK, LifecycleInv
  <2>1. ProcessorInv(proc[s], cfg, ctxDone)
    BY DEF LifecycleInv
  <2> QED  BY <2>1 DEF ProcessorInv, Processors, Alive, Installed
<1> QED  BY <1>1, LifecycleInvariant, PTL

\* The lookup that Start installs has every informer behind an enabled feature
\* registered with its handlers and listed (informer.go, newInformers).
THEOREM LifecycleServesWarm == Spec => []ServesAWarmLookup
<1>1. LifecycleInv => ServesAWarmLookup
  BY DEF LifecycleInv, ProcessorInv, Installed, ServesAWarmLookup
<1> QED  BY <1>1, LifecycleInvariant, PTL

\* The end of the wait stops no informer: all run until the context ends.
THEOREM LifecycleInformersOutlive == Spec => []InformersOutliveStart
<1>1. LifecycleInv => InformersOutliveStart
  BY DEF LifecycleInv, ProcessorInv, Alive, InformersOutliveStart
<1> QED  BY <1>1, LifecycleInvariant, PTL

\* No route is projected by a handler with a half-built inferrer.
THEOREM LifecycleInferrerWhole == Spec => []InferrerIsWhole
<1>1. LifecycleInv => InferrerIsWhole
  <2> SUFFICES ASSUME LifecycleInv, NEW s \in Signals
               PROVE  LET p == proc[s]
                          Scoped(kind) == OfKinds(p.handled, {kind})
                      IN  /\ OfKinds(Running(p), RouteKinds) # {} => p.inferrer = newParentInferrer
                          /\ p.inferrer = "wired" =>
                                 /\ "name" \in p.indexes
                                 /\ {i[2] : i \in Scoped("Service")}
                                        = {i[2] : i \in Scoped("Gateway")}
                                 /\ p.gwInfs \subseteq p.synced => Scoped("Gateway") \subseteq p.synced
    BY DEF InferrerIsWhole
  <2> DEFINE p == proc[s]
             S == 1 .. Scopes(cfg)
             Scoped(kind) == OfKinds(p.handled, {kind})
  <2>1. ProcessorInv(p, cfg, ctxDone)
    BY DEF LifecycleInv
  <2>2. OfKinds(Running(p), RouteKinds) # {} => p.inferrer = newParentInferrer
    BY <2>1 DEF ProcessorInv, Wired, newParentInferrer
  <2>3. ASSUME p.inferrer = "wired"
        PROVE  /\ "name" \in p.indexes
               /\ {i[2] : i \in Scoped("Service")} = {i[2] : i \in Scoped("Gateway")}
               /\ p.gwInfs \subseteq p.synced => Scoped("Gateway") \subseteq p.synced
    <3>1. /\ "name" \in p.indexes /\ p.handled \subseteq WatchedKinds(cfg) \X S
          /\ {"Gateway"} \X S \subseteq p.handled \cap p.gwInfs
          /\ {"Service"} \X S \subseteq p.handled
      BY <2>1, <2>3 DEF ProcessorInv, Wired, AllOf, Processors, Informers
    <3> HIDE DEF p, S
    <3>2. Scoped("Gateway") = {"Gateway"} \X S /\ Scoped("Service") = {"Service"} \X S
      BY <3>1 DEF OfKinds
    <3>3. ASSUME NEW kind PROVE {i[2] : i \in {kind} \X S} = S
      <4>1. \A n \in S : <<kind, n>> \in {kind} \X S /\ <<kind, n>>[2] = n
        OBVIOUS
      <4>2. \A i \in {kind} \X S : i[2] \in S
        OBVIOUS
      <4> QED  BY <4>1, <4>2
    <3> QED  BY <3>1, <3>2, <3>3
  <2> QED  BY <2>2, <2>3
<1> QED  BY <1>1, LifecycleInvariant, PTL

\* With auth_type none nothing is ever started or looked up.
THEOREM LifecycleNoCluster == Spec => []NoClusterIsEverNeeded
<1>1. LifecycleInv => NoClusterIsEverNeeded
  BY DEF LifecycleInv, ProcessorInv, Installed, NoClusterIsEverNeeded, Starting
<1> QED  BY <1>1, LifecycleInvariant, PTL

\* What Validate accepts is refused later only for the name of a parser.
THEOREM LifecycleAcceptedBuilds == Spec => []AcceptedConfigBuilds
<1>1. LifecycleInv => AcceptedConfigBuilds
  BY DEF LifecycleInv
<1> QED  BY <1>1, LifecycleInvariant, PTL

=============================================================================
