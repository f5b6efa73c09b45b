---------------------------- MODULE ScopeProofs -----------------------------
(***************************************************************************)
(* What holds of a scope capture for all modules, ports, selections and    *)
(* capacities, however long it runs: it holds the newest records, its      *)
(* ports are alive, and it misses no sample.                               *)
(***************************************************************************)
EXTENDS Scope, SequenceTheorems, WellFoundedInduction, TLAPS

(* The one fact about numbers that stands for induction: a set of naturals *)
(* that is not empty has a least element.                                  *)
LEMMA LeastNatural ==
  ASSUME NEW T, T \subseteq Nat, T # {}
  PROVE  \E x \in T : \A y \in T : x <= y
  <1>1. PICK x \in T : \A y \in T : ~ (<<y, x>> \in OpToRel(<, Nat))
    BY NatLessThanWellFounded, WFMin
  <1>2. \A y \in T : ~ (y < x)
    BY <1>1 DEF OpToRel
  <1> QED
    BY <1>2
-----------------------------------------------------------------------------
Entities == (0 .. MaxLives) \X Selector
Capture == [capacity : Capacities \ {0}, overwritten : Nat, selectors : Selections,
            bindings : Seq(Entities), records : Seq(Record)]

(* A capture s holds the newest records of the sequence L.                 *)
Kept(s, L) ==
  /\ s.overwritten + Len(s.records) = Len(L)
  /\ s.overwritten > 0 => Len(s.records) = s.capacity
  /\ Len(s.records) <= s.capacity
  /\ \A i \in 1 .. Len(s.records) : s.records[i] = L[s.overwritten + i]

(* A selection is a sequence of at most MaxSelectors selectors.            *)
LEMMA SelectionIsSeq ==
  ASSUME NEW s \in Selections
  PROVE  s \in Seq(Selector) /\ Len(s) \in 0 .. MaxSelectors /\ DOMAIN s = 1 .. Len(s)
  <1>1. PICK n \in 0 .. MaxSelectors : s \in [1 .. n -> Selector]
    BY DEF Selections
  <1>2. n \in Nat
    BY <1>1, ScopeAssumption
  <1>3. s \in Seq(Selector)
    BY <1>1, <1>2, SeqDef
  <1>4. Len(s) = n /\ DOMAIN s = 1 .. Len(s)
    BY <1>1, <1>2, <1>3
  <1> QED
    BY <1>1, <1>3, <1>4

(* A capture has room for at least one record. *)
LEMMA ScopeTypes == Capacities \subseteq Nat /\ MaxSelectors \in Nat
  BY ScopeAssumption

(* One push lets the oldest record go when there is no room, and touches   *)
(* nothing but the records and their count.                                *)
LEMMA PushKeeps ==
  ASSUME NEW s \in Capture, NEW L \in Seq(Record), NEW r \in Record, Kept(s, L)
  PROVE  /\ Pushed(s, r) \in Capture
         /\ Kept(Pushed(s, r), Append(L, r))
         /\ Pushed(s, r).selectors = s.selectors
         /\ Pushed(s, r).bindings = s.bindings
         /\ Pushed(s, r).capacity = s.capacity
  <1> DEFINE n == Len(s.records)  o == s.overwritten  t == Pushed(s, r)  M == Append(L, r)
  <1>1. /\ s.records \in Seq(Record) /\ n \in Nat /\ o \in Nat
        /\ s.capacity \in Nat \ {0} /\ Len(L) \in Nat
    <2>1. s.records \in Seq(Record) /\ o \in Nat /\ s.capacity \in Capacities \ {0}
      BY DEF Capture
    <2>2. n \in Nat /\ Len(L) \in Nat
      BY <2>1
    <2>3. s.capacity \in Nat \ {0}
      BY <2>1, ScopeTypes
    <2> QED
      BY <2>1, <2>2, <2>3
  <1>2. /\ M \in Seq(Record) /\ Len(M) = Len(L) + 1 /\ M[Len(L) + 1] = r
        /\ \A i \in 1 .. Len(L) : M[i] = L[i]
    OBVIOUS
  <1>3. /\ o + n = Len(L) /\ n <= s.capacity /\ (o > 0 => n = s.capacity)
        /\ \A i \in 1 .. n : s.records[i] = L[o + i]
    BY DEF Kept
  <1> HIDE DEF n, o
  <1>4. CASE n = s.capacity
    <2>2. s.records # <<>>
      BY <1>1, <1>4 DEF n
    <2>3. /\ Tail(s.records) \in Seq(Record) /\ Len(Tail(s.records)) = n - 1
          /\ \A i \in 1 .. n - 1 : Tail(s.records)[i] = s.records[i + 1]
      BY <1>1, <2>2 DEF n
    <2> DEFINE q == Append(Tail(s.records), r)
    <2>4. /\ q \in Seq(Record) /\ Len(q) = n /\ q[n] = r
          /\ \A i \in 1 .. n - 1 : q[i] = s.records[i + 1]
      BY <1>1, <2>3
    <2>1. t = [s EXCEPT !.records = q, !.overwritten = o + 1]
      BY <1>4 DEF Pushed, n, o
    <2>5. /\ t \in Capture /\ t.records = q /\ t.overwritten = o + 1
          /\ t.selectors = s.selectors /\ t.bindings = s.bindings /\ t.capacity = s.capacity
      <3> HIDE DEF q, t
      <3> DEFINE u == [s EXCEPT !.records = q]
      <3>1. /\ u \in Capture /\ u.records = q /\ u.selectors = s.selectors
            /\ u.bindings = s.bindings /\ u.capacity = s.capacity
        BY <2>4 DEF Capture
      <3>2. t = [u EXCEPT !.overwritten = o + 1]
        BY <2>1 DEF Capture
      <3>3. o + 1 \in Nat
        BY <1>1
      <3> HIDE DEF u
      <3> QED
        BY <3>1, <3>2, <3>3 DEF Capture
    <2>6. ASSUME NEW i \in 1 .. n PROVE q[i] = M[o + 1 + i]
      <3>1. CASE i = n
        <4>1. o + 1 + n = Len(L) + 1
          BY <1>1, <1>3
        <4> QED
          BY <1>2, <2>4, <3>1, <4>1
      <3>2. CASE i # n
        <4>1. i \in 1 .. n - 1 /\ i + 1 \in 1 .. n /\ o + 1 + i = o + (i + 1)
              /\ o + (i + 1) \in 1 .. Len(L)
          BY <1>1, <1>3, <3>2
        <4>2. q[i] = s.records[i + 1] /\ s.records[i + 1] = L[o + (i + 1)]
          BY <1>3, <2>4, <4>1
        <4>3. M[o + (i + 1)] = L[o + (i + 1)]
          BY <1>2, <4>1
        <4> QED
          BY <4>1, <4>2, <4>3
      <3> QED
        BY <3>1, <3>2
    <2>7. (o + 1) + n = Len(M)
      BY <1>1, <1>2, <1>3
    <2> HIDE DEF q, M, t
    <2> QED
      BY <1>4, <2>4, <2>5, <2>6, <2>7 DEF Kept, t, M, n, o
  <1>5. CASE n # s.capacity
    <2> DEFINE q == Append(s.records, r)
    <2>1. t = [s EXCEPT !.records = q]
      BY <1>5 DEF Pushed, n, o
    <2>2. /\ q \in Seq(Record) /\ Len(q) = n + 1 /\ q[n + 1] = r
          /\ \A i \in 1 .. n : q[i] = s.records[i]
      BY <1>1 DEF n
    <2>3. /\ t \in Capture /\ t.records = q /\ t.overwritten = o
          /\ t.selectors = s.selectors /\ t.bindings = s.bindings /\ t.capacity = s.capacity
      <3> HIDE DEF q, t
      <3> QED
        BY <1>1, <2>1, <2>2 DEF Capture, o
    <2>4. o = 0
      BY <1>1, <1>3, <1>5
    <2>5. ASSUME NEW i \in 1 .. n + 1 PROVE q[i] = M[o + i]
      <3>1. CASE i = n + 1
        <4>1. o + i = Len(L) + 1
          BY <1>1, <1>3, <3>1
        <4> QED
          BY <1>2, <2>2, <3>1, <4>1
      <3>2. CASE i # n + 1
        <4>1. i \in 1 .. n /\ o + i \in 1 .. Len(L)
          BY <1>1, <1>3, <3>2
        <4> QED
          BY <1>2, <1>3, <2>2, <4>1
      <3> QED
        BY <3>1, <3>2
    <2>6. o + (n + 1) = Len(M) /\ n + 1 <= s.capacity
      BY <1>1, <1>2, <1>3, <1>5
    <2> HIDE DEF q, M, t
    <2> QED
      BY <1>1, <2>2, <2>3, <2>4, <2>5, <2>6 DEF Kept, t, M, n, o
  <1> QED
    BY <1>4, <1>5

-----------------------------------------------------------------------------
(* The captures on the way of observe_scope through the first m bindings.  *)
Pushes(h, m, sample) ==
  h = [i \in 0 .. m |-> IF i = 0 THEN scope ELSE Pushed(h[i - 1], Signal(sample, i))]

(* There is such a way: the recursion of Observed defines something.       *)
LEMMA PushesExist ==
  ASSUME NEW sample, NEW n \in Nat
  PROVE  \E h : Pushes(h, n, sample)
  <1> DEFINE bad == {m \in Nat : \A h : ~ Pushes(h, m, sample)}
  <1>1. SUFFICES ASSUME bad # {} PROVE FALSE
    OBVIOUS
  <1>2. PICK m \in bad : \A k \in bad : m <= k
    <2>1. bad \subseteq Nat
      OBVIOUS
    <2> HIDE DEF bad
    <2> QED
      BY <1>1, <2>1, LeastNatural
  <1>3. m # 0
    <2>1. Pushes([i \in 0 .. 0 |-> scope], 0, sample)
      BY DEF Pushes
    <2> QED
      BY <1>2, <2>1
  <1>4. m \in Nat /\ m - 1 \in Nat /\ m - 1 \notin bad
    BY <1>2, <1>3
  <1>5. PICK h : Pushes(h, m - 1, sample)
    BY <1>4
  <1> DEFINE g == [i \in 0 .. m |-> IF i = m THEN Pushed(h[m - 1], Signal(sample, m)) ELSE h[i]]
  <1>6. ASSUME NEW i \in 0 .. m
        PROVE  g[i] = IF i = 0 THEN scope ELSE Pushed(g[i - 1], Signal(sample, i))
    <2>1. CASE i = m
      <3>1. g[i] = Pushed(h[m - 1], Signal(sample, m)) /\ g[m - 1] = h[m - 1]
        BY <1>4, <2>1
      <3> QED
        BY <1>3, <2>1, <3>1
    <2>2. CASE i # m
      <3>1. i \in 0 .. m - 1 /\ g[i] = h[i]
        BY <1>4, <2>2
      <3>2. h[i] = IF i = 0 THEN scope ELSE Pushed(h[i - 1], Signal(sample, i))
        BY <1>5, <3>1 DEF Pushes
      <3>3. i # 0 => g[i - 1] = h[i - 1]
        BY <1>4, <3>1
      <3> QED
        BY <3>1, <3>2, <3>3
    <2> QED
      BY <2>1, <2>2
  <1>7. Pushes(g, m, sample)
    <2>1. g = [i \in 0 .. m |-> g[i]]
      OBVIOUS
    <2> HIDE DEF g
    <2> QED
      BY <1>6, <2>1 DEF Pushes
  <1> QED
    BY <1>2, <1>7

(* The records of a sample so far, after those that were there.            *)
LogAfter(k, sample) == log \o [i \in 1 .. k |-> Signal(sample, i)]

LEMMA LogGrows ==
  ASSUME log \in Seq(Record), NEW sample \in Nat, NEW k \in Nat, k <= MaxSelectors
  PROVE  /\ LogAfter(k, sample) \in Seq(Record)
         /\ Len(LogAfter(k, sample)) = Len(log) + k
         /\ \A i \in 1 .. Len(log) : LogAfter(k, sample)[i] = log[i]
         /\ \A i \in 1 .. k : LogAfter(k, sample)[Len(log) + i] = Signal(sample, i)
  <1> DEFINE q == [i \in 1 .. k |-> Signal(sample, i)]
  <1>1. \A i \in 1 .. k : Signal(sample, i) \in Record
    BY ScopeTypes DEF Signal, Record
  <1>2. q \in [1 .. k -> Record]
    BY <1>1
  <1> HIDE DEF q
  <1>3. q \in Seq(Record)
    BY <1>2, SeqDef
  <1>4. Len(q) = k
    BY <1>2, <1>3
  <1>5. \A i \in 1 .. k : q[i] = Signal(sample, i)
    BY DEF q
  <1>6. LogAfter(k, sample) = log \o q
    BY DEF LogAfter, q
  <1>7. /\ log \o q \in Seq(Record) /\ Len(log \o q) = Len(log) + k
        /\ \A i \in 1 .. Len(log) + k :
             (log \o q)[i] = IF i <= Len(log) THEN log[i] ELSE q[i - Len(log)]
    BY <1>3, <1>4, ConcatProperties
  <1>8. Len(log) \in Nat
    OBVIOUS
  <1>9. ASSUME NEW i \in 1 .. k PROVE (log \o q)[Len(log) + i] = Signal(sample, i)
    <2>1. /\ Len(log) + i \in 1 .. Len(log) + k /\ ~(Len(log) + i <= Len(log))
          /\ (Len(log) + i) - Len(log) = i
      BY <1>8
    <2>2. (log \o q)[Len(log) + i] = q[(Len(log) + i) - Len(log)]
      BY <1>7, <2>1
    <2> QED
      BY <1>5, <2>1, <2>2
  <1>10. ASSUME NEW i \in 1 .. Len(log) PROVE (log \o q)[i] = log[i]
    <2>1. i \in 1 .. Len(log) + k /\ i <= Len(log)
      BY <1>8
    <2> QED
      BY <1>7, <2>1
  <1> QED
    BY <1>6, <1>7, <1>9, <1>10

LEMMA LogAppends ==
  ASSUME log \in Seq(Record), NEW sample \in Nat, NEW k \in Nat, k + 1 <= MaxSelectors
  PROVE  LogAfter(k + 1, sample) = Append(LogAfter(k, sample), Signal(sample, k + 1))
  <1> DEFINE M == LogAfter(k + 1, sample)  L == LogAfter(k, sample)
             N == Append(L, Signal(sample, k + 1))  n == Len(log)
  <1>1. n \in Nat /\ k <= MaxSelectors /\ k + 1 \in Nat
    BY ScopeTypes
  <1>2. /\ M \in Seq(Record) /\ Len(M) = n + (k + 1)
        /\ \A i \in 1 .. n : M[i] = log[i]
        /\ \A i \in 1 .. k + 1 : M[n + i] = Signal(sample, i)
    BY <1>1, LogGrows
  <1>3. /\ L \in Seq(Record) /\ Len(L) = n + k
        /\ \A i \in 1 .. n : L[i] = log[i]
        /\ \A i \in 1 .. k : L[n + i] = Signal(sample, i)
    BY <1>1, LogGrows
  <1>4. Signal(sample, k + 1) \in Record
    BY <1>1, ScopeTypes DEF Signal, Record
  <1> HIDE DEF M, L, n
  <1>5. /\ N \in Seq(Record) /\ Len(N) = n + k + 1 /\ N[n + k + 1] = Signal(sample, k + 1)
        /\ \A i \in 1 .. n + k : N[i] = L[i]
    BY <1>1, <1>3, <1>4
  <1> HIDE DEF N
  <1>6. ASSUME NEW i \in 1 .. n + k + 1 PROVE M[i] = N[i]
    <2>1. CASE i \in 1 .. n
      <3>1. i \in 1 .. n + k
        BY <1>1, <2>1
      <3> QED
        BY <1>2, <1>3, <1>5, <2>1, <3>1
    <2>2. CASE i \in n + 1 .. n + k
      <3>1. i - n \in 1 .. k /\ i - n \in 1 .. k + 1 /\ n + (i - n) = i /\ i \in 1 .. n + k
        BY <1>1, <2>2
      <3>2. M[n + (i - n)] = Signal(sample, i - n) /\ L[n + (i - n)] = Signal(sample, i - n)
        BY <1>2, <1>3, <3>1
      <3> QED
        BY <1>5, <3>1, <3>2
    <2>3. CASE i = n + k + 1
      <3>1. n + (k + 1) = n + k + 1 /\ k + 1 \in 1 .. k + 1
        BY <1>1
      <3>2. M[n + (k + 1)] = Signal(sample, k + 1)
        BY <1>2, <3>1
      <3> QED
        BY <1>5, <2>3, <3>1, <3>2
    <2> QED
      BY <1>1, <2>1, <2>2, <2>3
  <1>7. Len(M) = Len(N) /\ Len(M) = n + k + 1
    BY <1>1, <1>2, <1>5
  <1>8. M = N
    BY <1>2, <1>5, <1>6, <1>7, SeqEqual
  <1> QED
    BY <1>8 DEF M, N, L

(* observe_scope as a whole: the newest of what there was and of the       *)
(* sample's signals, for the same ports.                                   *)
LEMMA ObservedKeeps ==
  ASSUME NEW sample \in Nat, scope \in Capture, log \in Seq(Record), Kept(scope, log),
         Len(scope.bindings) <= MaxSelectors
  PROVE  LET s == Observed(sample)
         IN  /\ s \in Capture /\ Kept(s, LogAfter(Len(scope.bindings), sample))
             /\ s.selectors = scope.selectors /\ s.bindings = scope.bindings
  <1> DEFINE n == Len(scope.bindings)
             after == CHOOSE h : Pushes(h, n, sample)
             Good(s, k) == /\ s \in Capture /\ Kept(s, LogAfter(k, sample))
                           /\ s.selectors = scope.selectors /\ s.bindings = scope.bindings
             bad == {k \in 0 .. n : ~ Good(after[k], k)}
  <1>1. n \in Nat
    BY DEF Capture
  <1>2. Observed(sample) = after[n]
    BY DEF Observed, Pushes
  <1>3. Pushes(after, n, sample)
    BY <1>1, PushesExist
  <1> HIDE DEF n, after
  <1>4. \A k \in 0 .. n :
          after[k] = IF k = 0 THEN scope ELSE Pushed(after[k - 1], Signal(sample, k))
    BY <1>3 DEF Pushes
  <1>5. Good(after[0], 0)
    <2>1. after[0] = scope
      BY <1>1, <1>4
    <2>2. LogAfter(0, sample) = log
      <3>1. /\ LogAfter(0, sample) \in Seq(Record) /\ Len(LogAfter(0, sample)) = Len(log) + 0
            /\ \A i \in 1 .. Len(log) : LogAfter(0, sample)[i] = log[i]
        BY ScopeTypes, LogGrows
      <3>2. Len(LogAfter(0, sample)) = Len(log)
        BY <3>1
      <3> QED
        BY <3>1, <3>2, SeqEqual
    <2> QED
      BY <2>1, <2>2
  <1>6. SUFFICES ASSUME bad # {} PROVE FALSE
    BY <1>1, <1>2 DEF n
  <1>7. PICK k \in bad : \A j \in bad : k <= j
    <2>1. bad \subseteq Nat
      OBVIOUS
    <2> HIDE DEF bad
    <2> QED
      BY <1>6, <2>1, LeastNatural
  <1>8. k \in 1 .. n /\ k - 1 \in 0 .. n /\ k - 1 \in Nat /\ (k - 1) + 1 = k /\ ~ (k <= k - 1)
    BY <1>1, <1>5, <1>7
  <1>9. Good(after[k - 1], k - 1)
    BY <1>7, <1>8
  <1>10. after[k] = Pushed(after[k - 1], Signal(sample, k))
    BY <1>4, <1>8
  <1>11. k <= MaxSelectors /\ k - 1 <= MaxSelectors /\ MaxSelectors \in Nat
    BY <1>1, <1>8, ScopeTypes DEF n
  <1>12. Signal(sample, k) \in Record
    BY <1>8, <1>11 DEF Signal, Record
  <1>13. LogAfter(k - 1, sample) \in Seq(Record)
    BY <1>8, <1>11, LogGrows
  <1>14. LogAfter(k, sample) = Append(LogAfter(k - 1, sample), Signal(sample, k))
    <2>1. LogAfter((k - 1) + 1, sample)
          = Append(LogAfter(k - 1, sample), Signal(sample, (k - 1) + 1))
      BY <1>8, <1>11, LogAppends
    <2> QED
      BY <1>8, <2>1
  <1>15. Good(after[k], k)
    BY <1>9, <1>10, <1>12, <1>13, <1>14, PushKeeps
  <1> QED
    BY <1>7, <1>15

-----------------------------------------------------------------------------
(* A capture holds the newest records and is bound, selection by           *)
(* selection, to ports of modules that are there.                          *)
CaptureInv ==
  /\ completed \in Nat /\ copies \subseteq Nat
  /\ pending = None \/ pending \in Nat
  /\ life \in 0 .. MaxLives
  /\ loaded = None \/ loaded \in SUBSET Names
  /\ log \in Seq(Record)
  /\ scope # None =>
       /\ scope \in Capture /\ Kept(scope, log)
       /\ Len(scope.bindings) = Len(scope.selectors)
       /\ \A i \in 1 .. Len(scope.bindings) :
            /\ scope.bindings[i] = PortEntity(scope.selectors[i])
            /\ scope.selectors[i][1] \in Live

LEMMA BoundFew ==
  ASSUME CaptureInv, scope # None
  PROVE  /\ scope.selectors \in Selections
         /\ Len(scope.bindings) \in 0 .. MaxSelectors
         /\ DOMAIN scope.bindings = 1 .. Len(scope.bindings)
  <1>1. scope.selectors \in Selections /\ scope.bindings \in Seq(Entities)
        /\ Len(scope.bindings) = Len(scope.selectors)
    BY DEF CaptureInv, Capture
  <1> QED
    BY <1>1, SelectionIsSeq

LEMMA CaptureInit == Init => CaptureInv
  <1> SUFFICES ASSUME Init PROVE CaptureInv
    OBVIOUS
  <1>1. 0 \in 0 .. MaxLives
    BY ScopeAssumption
  <1>2. <<>> \in Seq(Record)
    OBVIOUS
  <1> QED
    BY <1>1, <1>2 DEF Init, CaptureInv

(* A new capture is empty and bound to what it selects.                    *)
LEMMA ConfigureKeepsCapture ==
  ASSUME CaptureInv, NEW s \in Selections, NEW c \in Capacities, Configure(s, c)
  PROVE  CaptureInv'
  <1>1. s \in Seq(Selector) /\ Len(s) \in 0 .. MaxSelectors /\ DOMAIN s = 1 .. Len(s)
    BY SelectionIsSeq
  <1>2. Len(s) \in Nat /\ \A i \in 1 .. Len(s) : s[i] \in Selector
    BY <1>1
  <1> DEFINE b == [i \in DOMAIN s |-> PortEntity(s[i])]
             t == [capacity |-> c, overwritten |-> 0, selectors |-> s, bindings |-> b,
                   records |-> <<>>]
  <1>3. /\ scope' = t /\ log' = <<>> /\ c # 0 /\ Selectable(s)
        /\ UNCHANGED <<loaded, life, completed, pending, copies>>
    BY DEF Configure, Configurable, worldVars, timeVars, midiVars
  <1>4. b \in Seq(Entities) /\ Len(b) = Len(s) /\ \A i \in 1 .. Len(s) : b[i] = PortEntity(s[i])
    <2>1. \A i \in 1 .. Len(s) : PortEntity(s[i]) \in Entities
      BY <1>2 DEF CaptureInv, PortEntity, Entities
    <2>2. b = [i \in 1 .. Len(s) |-> PortEntity(s[i])]
      BY <1>1
    <2> HIDE DEF b
    <2>3. b \in [1 .. Len(s) -> Entities]
      BY <2>1, <2>2
    <2>4. b \in Seq(Entities)
      BY <1>2, <2>3, SeqDef
    <2> QED
      BY <1>2, <2>2, <2>3, <2>4
  <1>5. <<>> \in Seq(Record) /\ Len(<<>>) = 0 /\ c \in Nat \ {0}
    BY <1>3, ScopeTypes
  <1> HIDE DEF b
  <1>6. t \in Capture
    BY <1>3, <1>4, <1>5 DEF Capture
  <1>7. Kept(t, <<>>)
    BY <1>5 DEF Kept
  <1>8. \A i \in 1 .. Len(s) : s[i][1] \in Live
    BY <1>1, <1>3 DEF Selectable
  <1>9. Live' = Live /\ \A e : PortEntity(e)' = PortEntity(e)
    BY <1>3 DEF Live, PortEntity
  <1>10. /\ t.bindings = b /\ t.selectors = s
    OBVIOUS
  <1> HIDE DEF t
  <1> QED
    BY <1>3, <1>4, <1>5, <1>6, <1>7, <1>8, <1>9, <1>10 DEF CaptureInv, PortEntity

(* Observe pushes the signals of the sample.                               *)
LEMMA ObserveKeepsCapture ==
  ASSUME CaptureInv, NEW sample \in Nat, Observe(sample)
  PROVE  /\ log' \in Seq(Record)
         /\ scope = None => scope' = scope /\ log' = log
         /\ scope # None =>
              /\ scope' \in Capture /\ Kept(scope', log')
              /\ scope'.selectors = scope.selectors /\ scope'.bindings = scope.bindings
              /\ log' = LogAfter(Len(scope.bindings), sample)
  <1>1. CASE scope = None
    BY <1>1 DEF Observe, captureVars, CaptureInv
  <1>2. CASE scope # None
    <2>1. DOMAIN scope.bindings = 1 .. Len(scope.bindings)
          /\ Len(scope.bindings) \in Nat /\ Len(scope.bindings) <= MaxSelectors
      BY <1>2, BoundFew, ScopeTypes
    <2>2. scope' = Observed(sample) /\ log' = LogAfter(Len(scope.bindings), sample)
      BY <1>2, <2>1 DEF Observe, SignalsOf, LogAfter
    <2>3. scope \in Capture /\ Kept(scope, log) /\ log \in Seq(Record)
      BY <1>2 DEF CaptureInv
    <2> QED
      BY <1>2, <2>1, <2>2, <2>3, ObservedKeeps, LogGrows
  <1> QED
    BY <1>1, <1>2

LEMMA FixedUpdateKeepsCapture == CaptureInv /\ FixedUpdate => CaptureInv'
  <1> SUFFICES ASSUME CaptureInv, FixedUpdate PROVE CaptureInv'
    OBVIOUS
  <1>1. /\ UNCHANGED <<loaded, life, copies>>
        /\ completed' \in Nat /\ (pending' = None \/ pending' \in Nat)
        /\ Observe(completed) \/ UNCHANGED <<scope, log>>
    BY DEF FixedUpdate, worldVars, captureVars, CaptureInv
  <1>2. Live' = Live /\ completed \in Nat
    BY <1>1 DEF Live, CaptureInv
  <1>3. CASE UNCHANGED <<scope, log>>
    BY <1>1, <1>2, <1>3 DEF CaptureInv, PortEntity
  <1>4. CASE Observe(completed)
    BY <1>1, <1>2, <1>4, ObserveKeepsCapture DEF CaptureInv, PortEntity
  <1> QED
    BY <1>1, <1>3, <1>4

(* Clear forgets the records and keeps the ports.                          *)
LEMMA ClearKeepsCapture == CaptureInv /\ Clear => CaptureInv'
  <1> SUFFICES ASSUME CaptureInv, Clear PROVE CaptureInv'
    OBVIOUS
  <1> DEFINE u == [scope EXCEPT !.records = <<>>]  t == [u EXCEPT !.overwritten = 0]
  <1>1. /\ scope # None /\ scope' = t /\ log' = <<>>
        /\ UNCHANGED <<loaded, life, completed, pending, copies>>
    BY DEF Clear, worldVars, timeVars, midiVars
  <1>2. <<>> \in Seq(Record) /\ Len(<<>>) = 0 /\ Live' = Live
    BY <1>1 DEF Live
  <1>3. /\ u \in Capture /\ u.records = <<>> /\ u.selectors = scope.selectors
        /\ u.bindings = scope.bindings /\ u.capacity = scope.capacity
    BY <1>1, <1>2 DEF CaptureInv, Capture
  <1> HIDE DEF u
  <1>4. /\ t \in Capture /\ t.records = <<>> /\ t.selectors = scope.selectors
        /\ t.bindings = scope.bindings /\ t.capacity = scope.capacity /\ t.overwritten = 0
    BY <1>3 DEF Capture
  <1> HIDE DEF t
  <1>5. Kept(t, <<>>)
    <2>1. t.capacity \in Nat
      BY <1>4, ScopeTypes DEF Capture
    <2> QED
      BY <1>2, <1>4, <2>1 DEF Kept
  <1> QED
    BY <1>1, <1>2, <1>4, <1>5 DEF CaptureInv, PortEntity

(* A copied MIDI event is one more record.                                 *)
LEMMA RecordMidiKeepsCapture ==
  ASSUME CaptureInv, NEW s \in copies, RecordMidi(s)
  PROVE  /\ CaptureInv'
         /\ scope # None => /\ log' = Append(log, Midi(s))
                            /\ scope'.selectors = scope.selectors
                            /\ scope'.bindings = scope.bindings
  <1>1. /\ UNCHANGED <<loaded, life, completed, pending>> /\ copies' \subseteq Nat
        /\ IF scope = None THEN UNCHANGED <<scope, log>>
           ELSE scope' = Pushed(scope, Midi(s)) /\ log' = Append(log, Midi(s))
    BY DEF RecordMidi, worldVars, timeVars, captureVars, CaptureInv
  <1>2. Live' = Live
    BY <1>1 DEF Live
  <1>3. CASE scope = None
    BY <1>1, <1>2, <1>3 DEF CaptureInv
  <1>4. CASE scope # None
    <2>1. Midi(s) \in Record
      BY ScopeTypes DEF Midi, Record, CaptureInv
    <2>2. scope \in Capture /\ Kept(scope, log) /\ log \in Seq(Record)
      BY <1>4 DEF CaptureInv
    <2>3. /\ scope' \in Capture /\ Kept(scope', log') /\ log' \in Seq(Record)
          /\ scope'.selectors = scope.selectors /\ scope'.bindings = scope.bindings
      <3>1. Append(log, Midi(s)) \in Seq(Record)
        BY <2>1, <2>2
      <3>2. /\ Pushed(scope, Midi(s)) \in Capture
            /\ Kept(Pushed(scope, Midi(s)), Append(log, Midi(s)))
            /\ Pushed(scope, Midi(s)).selectors = scope.selectors
            /\ Pushed(scope, Midi(s)).bindings = scope.bindings
        BY <2>1, <2>2, PushKeeps
      <3> QED
        BY <1>1, <1>4, <3>1, <3>2
    <2> QED
      BY <1>1, <1>2, <1>4, <2>3 DEF CaptureInv, PortEntity
  <1> QED
    BY <1>3, <1>4

(* A capture that selects the module goes before the module does.          *)
LEMMA RemoveKeepsCapture ==
  ASSUME CaptureInv, NEW n \in Names, RemoveModule(n)
  PROVE  CaptureInv'
  <1>1. /\ n \in Live /\ loaded' = loaded \ {n} /\ UNCHANGED <<life, completed, copies>>
        /\ pending' \in Cleanup
        /\ IF Selected(n) THEN scope' = None /\ log' = <<>> ELSE UNCHANGED <<scope, log>>
    BY DEF RemoveModule, timeVars, captureVars
  <1>2. loaded # None /\ Live = loaded /\ loaded \in SUBSET Names
    BY <1>1 DEF Live, CaptureInv
  <1>3. loaded' \in SUBSET Names /\ loaded' # None
    BY <1>1, <1>2, ScopeAssumption
  <1>4. Live' = Live \ {n}
    BY <1>1, <1>2, <1>3 DEF Live
  <1>5. pending' = None \/ pending' \in Nat
    BY <1>1 DEF Cleanup, CaptureInv
  <1>6. <<>> \in Seq(Record)
    OBVIOUS
  <1>7. CASE Selected(n)
    BY <1>1, <1>3, <1>5, <1>6, <1>7 DEF CaptureInv
  <1>8. CASE ~ Selected(n)
    <2>1. CASE scope = None
      BY <1>1, <1>3, <1>5, <1>8, <2>1 DEF CaptureInv
    <2>2. CASE scope # None
      <3>1. DOMAIN scope.selectors = 1 .. Len(scope.bindings)
        BY <2>2, BoundFew, SelectionIsSeq DEF CaptureInv
      <3>2. \A i \in 1 .. Len(scope.bindings) : scope.selectors[i][1] \in Live \ {n}
        BY <1>8, <2>2, <3>1 DEF CaptureInv, Selected
      <3> QED
        BY <1>1, <1>3, <1>4, <1>5, <1>8, <3>2 DEF CaptureInv, PortEntity
    <2> QED
      BY <2>1, <2>2
  <1> QED
    BY <1>7, <1>8

LEMMA StepKeepsCapture == CaptureInv /\ [Next]_vars => CaptureInv'
  <1> SUFFICES ASSUME CaptureInv, [Next]_vars PROVE CaptureInv'
    OBVIOUS
  <1>1. CASE \E s \in Selections, c \in Capacities : Configure(s, c)
    BY <1>1, ConfigureKeepsCapture
  <1>2. CASE Clear
    BY <1>2, ClearKeepsCapture
  <1>3. CASE FixedUpdate
    BY <1>3, FixedUpdateKeepsCapture
  <1>4. CASE \E s \in copies : RecordMidi(s)
    BY <1>4, RecordMidiKeepsCapture
  <1>5. CASE \E n \in Names : RemoveModule(n)
    BY <1>5, RemoveKeepsCapture
  <1>6. CASE Replace
    <2>1. <<>> \in Seq(Record)
      OBVIOUS
    <2>2. /\ loaded' = None \/ loaded' \in SUBSET Names
          /\ pending' = None \/ pending' \in Nat
      BY <1>6 DEF Replace, Cleanup, CaptureInv
    <2>3. life' \in 0 .. MaxLives
      BY <1>6, ScopeAssumption DEF Replace, CaptureInv
    <2> QED
      BY <1>6, <2>1, <2>2, <2>3 DEF Replace, CaptureInv
  <1>7. CASE Disable
    <2>1. <<>> \in Seq(Record)
      OBVIOUS
    <2> QED
      BY <1>7, <2>1 DEF Disable, CaptureInv, worldVars, timeVars, midiVars
  <1>8. CASE DrainMidi
    BY <1>8 DEF DrainMidi, CaptureInv, worldVars, timeVars, captureVars, Live, PortEntity
  <1>9. CASE Start \/ Stop \/ UNCHANGED vars
    BY <1>9 DEF Start, Stop, CaptureInv, vars, worldVars, timeVars, midiVars, captureVars, Live,
                PortEntity
  <1> QED
    BY <1>1, <1>2, <1>3, <1>4, <1>5, <1>6, <1>7, <1>8, <1>9 DEF Next

LEMMA CaptureAlways == Spec => []CaptureInv
  BY CaptureInit, StepKeepsCapture, PTL DEF Spec

(* However often a capture is overrun, cleared or configured anew, and     *)
(* whatever its capacity: it holds exactly the newest records, in order,   *)
(* and knows how many it has let go.                                       *)
THEOREM NewestAreKept == Spec => []NewestKept
  <1>1. CaptureInv => NewestKept
    <2> SUFFICES ASSUME CaptureInv, scope # None
                 PROVE  /\ scope.overwritten + Len(scope.records) = Len(log)
                        /\ scope.overwritten > 0 => Len(scope.records) = scope.capacity
                        /\ Len(scope.records) <= scope.capacity
                        /\ scope.records = SubSeq(log, scope.overwritten + 1, Len(log))
      BY DEF NewestKept
    <2> DEFINE o == scope.overwritten  r == scope.records  n == Len(r)  m == Len(log)
               q == SubSeq(log, o + 1, m)
    <2>1. scope \in Capture /\ Kept(scope, log) /\ log \in Seq(Record)
      BY DEF CaptureInv
    <2>2. r \in Seq(Record) /\ o \in Nat
      BY <2>1 DEF Capture
    <2>3. n \in Nat /\ m \in Nat
      BY <2>1, <2>2
    <2>4. o + n = m /\ \A i \in 1 .. n : r[i] = log[o + i]
      BY <2>1 DEF Kept
    <2> HIDE DEF o, r, n, m
    <2>5. \A i \in o + 1 .. m : i \in 1 .. m
      BY <2>2, <2>3
    <2>6. q \in Seq(Record) /\ Len(q) = (IF o + 1 <= m THEN m - (o + 1) + 1 ELSE 0)
          /\ \A i \in 1 .. m - (o + 1) + 1 : q[i] = log[(o + 1) + i - 1]
      BY <2>1, <2>2, <2>3, <2>5, SubSeqProperties DEF m
    <2>7. Len(q) = n
      BY <2>2, <2>3, <2>4, <2>6
    <2>8. ASSUME NEW i \in 1 .. n PROVE r[i] = q[i]
      <3>1. i \in 1 .. m - (o + 1) + 1 /\ (o + 1) + i - 1 = o + i
        BY <2>2, <2>3, <2>4
      <3> QED
        BY <2>4, <2>6, <3>1
    <2> HIDE DEF q
    <2>9. r = q
      BY <2>2, <2>6, <2>7, <2>8, SeqEqual DEF n
    <2> QED
      BY <2>1, <2>9 DEF Kept, q, r, o, m
  <1> QED
    BY <1>1, CaptureAlways, PTL

(* Whatever is removed, loaded or restarted, and in whatever order: Observe *)
(* never finds a bound port gone or taken over by another.                 *)
THEOREM NoPortIsGone == Spec => []NoPortDisappears
  <1>1. CaptureInv => NoPortDisappears
    <2> SUFFICES ASSUME CaptureInv, scope # None, NEW i \in DOMAIN scope.bindings
                 PROVE  /\ Alive(scope.bindings[i])
                        /\ scope.bindings[i][2] = scope.selectors[i]
      BY DEF NoPortDisappears
    <2>1. i \in 1 .. Len(scope.bindings)
      BY BoundFew
    <2> QED
      BY <2>1 DEF CaptureInv, PortEntity, Alive
  <1> QED
    BY <1>1, CaptureAlways, PTL

-----------------------------------------------------------------------------
(* The signals of a sequence of records, for n selections: which come one  *)
(* after the other, which is the last, and what samples they belong to.    *)
IsSignal(L, i) == L[i].record = "signal"
Neighbours(L, i, j) ==
  i < j /\ IsSignal(L, i) /\ IsSignal(L, j) /\ \A k \in i + 1 .. j - 1 : L[k].record = "midi"
LastSignal(L, i) == IsSignal(L, i) /\ \A k \in i + 1 .. Len(L) : L[k].record = "midi"

Follows(r, q, n) ==
  IF q.selection = n
  THEN r.selection = 1 /\ r.sample = q.sample + 1
  ELSE r.selection = q.selection + 1 /\ r.sample = q.sample

InTurn(L, n) == \A i, j \in 1 .. Len(L) : Neighbours(L, i, j) => Follows(L[j], L[i], n)
InRange(L, n) == \A i \in 1 .. Len(L) : IsSignal(L, i) => L[i].selection \in 1 .. n
Ends(L, n, c) == \A i \in 1 .. Len(L) : LastSignal(L, i) => L[i].sample = c - 1 /\ L[i].selection = n
Whole(L, n, c) == InTurn(L, n) /\ InRange(L, n) /\ Ends(L, n, c)

(* A MIDI record comes between signals without parting them.               *)
LEMMA MidiKeepsWhole ==
  ASSUME NEW L \in Seq(Record), NEW n \in Nat, NEW c \in Int, Whole(L, n, c),
         NEW r \in Record, r.record = "midi"
  PROVE  Whole(Append(L, r), n, c)
  <1> DEFINE M == Append(L, r)  m == Len(L)
  <1>1. /\ m \in Nat /\ M \in Seq(Record) /\ Len(M) = m + 1 /\ M[m + 1] = r
        /\ \A i \in 1 .. m : M[i] = L[i]
    OBVIOUS
  <1> HIDE DEF M
  <1>2. ~ IsSignal(M, m + 1) /\ \A i \in 1 .. m : IsSignal(M, i) <=> IsSignal(L, i)
    BY <1>1 DEF IsSignal
  <1>3. \A i \in 1 .. m + 1 : i \in 1 .. m \/ i = m + 1
    BY <1>1
  <1>4. ASSUME NEW i \in 1 .. m + 1, NEW j \in 1 .. m + 1, Neighbours(M, i, j)
        PROVE  Follows(M[j], M[i], n)
    <2>1. i \in 1 .. m /\ j \in 1 .. m
      BY <1>2, <1>3, <1>4 DEF Neighbours
    <2>2. \A k \in i + 1 .. j - 1 : k \in 1 .. m
      BY <1>1, <2>1
    <2>3. Neighbours(L, i, j)
      BY <1>1, <1>2, <1>4, <2>1, <2>2 DEF Neighbours
    <2> QED
      BY <1>1, <2>1, <2>3 DEF Whole, InTurn
  <1>5. ASSUME NEW i \in 1 .. m + 1, IsSignal(M, i) PROVE M[i].selection \in 1 .. n
    BY <1>1, <1>2, <1>3, <1>5 DEF Whole, InRange
  <1>6. ASSUME NEW i \in 1 .. m + 1, LastSignal(M, i)
        PROVE  M[i].sample = c - 1 /\ M[i].selection = n
    <2>1. i \in 1 .. m
      BY <1>2, <1>3, <1>6 DEF LastSignal
    <2>2. \A k \in i + 1 .. m : k \in 1 .. m /\ k \in i + 1 .. Len(M)
      BY <1>1, <2>1
    <2>3. LastSignal(L, i)
      BY <1>1, <1>2, <1>6, <2>1, <2>2 DEF LastSignal
    <2> QED
      BY <1>1, <2>1, <2>3 DEF Whole, Ends
  <1>7. InTurn(M, n) /\ InRange(M, n) /\ Ends(M, n, c)
    BY <1>1, <1>4, <1>5, <1>6 DEF InTurn, InRange, Ends
  <1> QED
    BY <1>7 DEF Whole, M

(* The signals of a sample follow those of the sample before.              *)
LEMMA SampleKeepsWhole ==
  ASSUME NEW L \in Seq(Record), NEW M \in Seq(Record), NEW n \in Nat, NEW c \in Nat,
         Whole(L, n, c), Len(M) = Len(L) + n,
         \A i \in 1 .. Len(L) : M[i] = L[i],
         \A i \in 1 .. n : M[Len(L) + i] = Signal(c, i)
  PROVE  Whole(M, n, c + 1)
  <1> DEFINE m == Len(L)
  <1>1. m \in Nat
    OBVIOUS
  <1> HIDE DEF m
  <1>2. \A i \in 1 .. m : M[i] = L[i] /\ (IsSignal(M, i) <=> IsSignal(L, i))
    BY DEF IsSignal, m
  <1>3. ASSUME NEW i \in m + 1 .. m + n
        PROVE  /\ i - m \in 1 .. n /\ M[i].record = "signal"
               /\ M[i].sample = c /\ M[i].selection = i - m
    <2>1. i - m \in 1 .. n /\ m + (i - m) = i
      BY <1>1
    <2>2. M[m + (i - m)] = Signal(c, i - m)
      BY <2>1 DEF m
    <2> QED
      BY <2>1, <2>2 DEF Signal
  <1>4. Len(M) = m + n /\ \A i \in 1 .. Len(M) : i \in 1 .. m \/ i \in m + 1 .. m + n
    BY <1>1 DEF m
  <1>5. ASSUME NEW i \in 1 .. Len(M), NEW j \in 1 .. Len(M), Neighbours(M, i, j)
        PROVE  Follows(M[j], M[i], n)
    <2>1. i < j
      BY <1>5 DEF Neighbours
    <2>2. CASE j \in 1 .. m
      <3>1. i \in 1 .. m /\ \A k \in i + 1 .. j - 1 : k \in 1 .. m
        BY <1>1, <2>1, <2>2
      <3>2. Neighbours(L, i, j)
        BY <1>2, <1>5, <2>2, <3>1 DEF Neighbours
      <3> QED
        BY <1>2, <2>2, <3>1, <3>2 DEF Whole, InTurn, m
    <2>3. CASE j \in m + 1 .. m + n /\ i \in 1 .. m
      <3>1. j = m + 1
        <4>1. SUFFICES ASSUME j # m + 1 PROVE FALSE
          OBVIOUS
        <4>2. m + 1 \in i + 1 .. j - 1 /\ m + 1 \in m + 1 .. m + n
          BY <1>1, <2>3, <4>1
        <4>3. M[m + 1].record = "midi" /\ M[m + 1].record = "signal"
          BY <1>3, <1>5, <4>2 DEF Neighbours
        <4> QED
          BY <4>3
      <3>2. \A k \in i + 1 .. m : k \in i + 1 .. j - 1 /\ k \in 1 .. m
        BY <1>1, <2>3, <3>1
      <3>3. LastSignal(L, i)
        BY <1>2, <1>5, <2>3, <3>2 DEF LastSignal, Neighbours, m
      <3>4. L[i].sample = c - 1 /\ L[i].selection = n
        BY <2>3, <3>3 DEF Whole, Ends, m
      <3>5. M[i] = L[i] /\ M[j].sample = c /\ M[j].selection = 1
        <4>1. j - m = 1
          BY <1>1, <3>1
        <4> QED
          BY <1>2, <1>3, <2>3, <4>1
      <3>6. (c - 1) + 1 = c
        OBVIOUS
      <3>7. /\ M[i].selection = n /\ M[j].selection = 1 /\ M[j].sample = M[i].sample + 1
        BY <3>4, <3>5, <3>6
      <3> QED
        BY <3>7 DEF Follows
    <2>4. CASE j \in m + 1 .. m + n /\ i \in m + 1 .. m + n
      <3>1. j = i + 1
        <4>1. SUFFICES ASSUME j # i + 1 PROVE FALSE
          OBVIOUS
        <4>2. i + 1 \in i + 1 .. j - 1 /\ i + 1 \in m + 1 .. m + n
          BY <1>1, <2>1, <2>4, <4>1
        <4>3. M[i + 1].record = "midi" /\ M[i + 1].record = "signal"
          BY <1>3, <1>5, <4>2 DEF Neighbours
        <4> QED
          BY <4>3
      <3>2. /\ M[i].sample = c /\ M[i].selection = i - m
            /\ M[j].sample = c /\ M[j].selection = j - m
        BY <1>3, <2>4
      <3>3. i - m # n /\ j - m = (i - m) + 1
        BY <1>1, <2>4, <3>1
      <3> QED
        BY <3>2, <3>3 DEF Follows
    <2> QED
      BY <1>4, <2>2, <2>3, <2>4, <1>1, <2>1
  <1>6. ASSUME NEW i \in 1 .. Len(M), IsSignal(M, i) PROVE M[i].selection \in 1 .. n
    <2>1. CASE i \in 1 .. m
      BY <1>2, <1>6, <2>1 DEF Whole, InRange, m
    <2>2. CASE i \in m + 1 .. m + n
      BY <1>3, <2>2
    <2> QED
      BY <1>4, <2>1, <2>2
  <1>7. ASSUME NEW i \in 1 .. Len(M), LastSignal(M, i)
        PROVE  M[i].sample = (c + 1) - 1 /\ M[i].selection = n
    <2>1. CASE n = 0
      <3>1. i \in 1 .. m
        BY <1>1, <1>4, <2>1
      <3>2. IsSignal(L, i)
        BY <1>2, <1>7, <3>1 DEF LastSignal
      <3>3. L[i].selection \in 1 .. n
        BY <3>1, <3>2 DEF Whole, InRange, m
      <3> QED
        BY <2>1, <3>3
    <2>2. CASE n > 0
      <3>1. i = m + n
        <4>1. SUFFICES ASSUME i # m + n PROVE FALSE
          OBVIOUS
        <4>2. m + n \in i + 1 .. Len(M) /\ m + n \in m + 1 .. m + n
          BY <1>1, <1>4, <2>2, <4>1
        <4>3. M[m + n].record = "midi" /\ M[m + n].record = "signal"
          BY <1>3, <1>7, <4>2 DEF LastSignal
        <4> QED
          BY <4>3
      <3>2. i \in m + 1 .. m + n /\ i - m = n
        BY <1>1, <2>2, <3>1
      <3> QED
        BY <1>3, <3>2
    <2> QED
      BY <2>1, <2>2
  <1> QED
    BY <1>5, <1>6, <1>7 DEF Whole, InTurn, InRange, Ends

(* What a capture has of the samples since it was configured or cleared is *)
(* whole, up to the last completed one.                                    *)
SampleInv ==
  CaptureInv /\ (scope # None => Whole(log, Len(scope.bindings), completed))

LEMMA EmptyIsWhole ==
  ASSUME NEW n, NEW c
  PROVE  Whole(<<>>, n, c)
  <1>1. Len(<<>>) = 0 /\ 1 .. 0 = {}
    OBVIOUS
  <1> QED
    BY <1>1 DEF Whole, InTurn, InRange, Ends

LEMMA FixedUpdateKeepsSamples == SampleInv /\ FixedUpdate => SampleInv'
  <1> SUFFICES ASSUME SampleInv, FixedUpdate PROVE SampleInv'
    OBVIOUS
  <1>1. CaptureInv /\ CaptureInv'
    BY FixedUpdateKeepsCapture DEF SampleInv
  <1>2. completed \in Nat /\ log \in Seq(Record) /\ log' \in Seq(Record)
    BY <1>1 DEF CaptureInv
  <1>3. CASE ~ running
    <2>1. UNCHANGED <<scope, log, completed>>
      BY <1>3 DEF FixedUpdate, Gate, captureVars
    <2> QED
      BY <1>1, <2>1 DEF SampleInv
  <1>4. CASE running
    <2>1. Observe(completed) /\ completed' = completed + 1
      BY <1>4 DEF FixedUpdate, Gate
    <2>2. CASE scope = None
      BY <1>1, <1>2, <2>1, <2>2, ObserveKeepsCapture DEF SampleInv
    <2>3. CASE scope # None
      <3> DEFINE n == Len(scope.bindings)
      <3>1. n \in Nat /\ n <= MaxSelectors
        BY <1>1, <2>3, BoundFew, ScopeTypes
      <3>2. scope'.bindings = scope.bindings /\ log' = LogAfter(n, completed)
        BY <1>1, <1>2, <2>1, <2>3, ObserveKeepsCapture
      <3>3. /\ Len(log') = Len(log) + n
            /\ \A i \in 1 .. Len(log) : log'[i] = log[i]
            /\ \A i \in 1 .. n : log'[Len(log) + i] = Signal(completed, i)
        BY <1>2, <3>1, <3>2, LogGrows
      <3>4. Whole(log, n, completed)
        BY <2>3 DEF SampleInv
      <3> HIDE DEF n
      <3>5. Whole(log', n, completed + 1)
        BY <1>2, <3>1, <3>3, <3>4, SampleKeepsWhole
      <3> QED
        BY <1>1, <2>1, <3>2, <3>5 DEF SampleInv, n
    <2> QED
      BY <2>2, <2>3
  <1> QED
    BY <1>3, <1>4

LEMMA StepKeepsSamples == SampleInv /\ [Next]_vars => SampleInv'
  <1> SUFFICES ASSUME SampleInv, [Next]_vars PROVE SampleInv'
    OBVIOUS
  <1>1. CaptureInv /\ CaptureInv'
    BY StepKeepsCapture DEF SampleInv
  <1>2. CASE FixedUpdate
    BY <1>2, FixedUpdateKeepsSamples
  <1>3. CASE \E s \in copies : RecordMidi(s)
    <2>1. PICK s \in copies : RecordMidi(s)
      BY <1>3
    <2>2. completed' = completed
      BY <2>1 DEF RecordMidi, timeVars
    <2>3. CASE scope = None
      BY <1>1, <2>1, <2>2, <2>3 DEF SampleInv, RecordMidi, captureVars
    <2>4. CASE scope # None
      <3>1. log' = Append(log, Midi(s)) /\ scope'.bindings = scope.bindings
        BY <1>1, <2>1, <2>4, RecordMidiKeepsCapture
      <3>2. Midi(s) \in Record /\ Midi(s).record = "midi" /\ log \in Seq(Record)
            /\ completed \in Int /\ Len(scope.bindings) \in Nat
        <4>1. Midi(s) \in Record /\ Midi(s).record = "midi"
          BY <1>1, ScopeTypes DEF CaptureInv, Midi, Record
        <4>2. Len(scope.bindings) \in Nat
          BY <1>1, <2>4, BoundFew, ScopeTypes
        <4> QED
          BY <1>1, <4>1, <4>2 DEF CaptureInv
      <3>3. Whole(Append(log, Midi(s)), Len(scope.bindings), completed)
        BY <2>4, <3>2, MidiKeepsWhole DEF SampleInv
      <3> QED
        BY <1>1, <2>2, <3>1, <3>3 DEF SampleInv
    <2> QED
      BY <2>3, <2>4
  <1>4. CASE log' = <<>>
    BY <1>1, <1>4, EmptyIsWhole DEF SampleInv
  <1>5. CASE UNCHANGED <<completed, scope, log>>
    BY <1>1, <1>5 DEF SampleInv
  <1>6. (\E s \in Selections, c \in Capacities : Configure(s, c)) \/ Clear \/ Disable \/ Replace
        => log' = <<>>
    BY DEF Configure, Clear, Disable, Replace
  <1>7. (\E n \in Names : RemoveModule(n)) => log' = <<>> \/ UNCHANGED <<completed, scope, log>>
    BY DEF RemoveModule, timeVars, captureVars
  <1>8. DrainMidi \/ Start \/ Stop \/ UNCHANGED vars => UNCHANGED <<completed, scope, log>>
    BY DEF DrainMidi, Start, Stop, vars, timeVars, captureVars
  <1> QED
    BY <1>2, <1>3, <1>4, <1>5, <1>6, <1>7, <1>8 DEF Next

(* However a run is stopped, started and copied from: a capture records    *)
(* every selection of every sample once, in order.                         *)
THEOREM NoSampleIsMissed == Spec => []EverySampleOnce
  <1>1. Init => SampleInv
    BY CaptureInit DEF Init, SampleInv
  <1>2. SampleInv => EverySampleOnce
    <2> SUFFICES ASSUME SampleInv, scope # None, NEW i \in DOMAIN log, NEW j \in DOMAIN log,
                        NextSignal(i, j)
                 PROVE  IF log[i].selection = Len(scope.selectors)
                        THEN log[j].selection = 1 /\ log[j].sample = log[i].sample + 1
                        ELSE /\ log[j].selection = log[i].selection + 1
                             /\ log[j].sample = log[i].sample
      BY DEF EverySampleOnce
    <2>1. /\ log \in Seq(Record) /\ Len(scope.bindings) = Len(scope.selectors)
          /\ InTurn(log, Len(scope.bindings))
      BY DEF SampleInv, CaptureInv, Whole
    <2>2. i \in 1 .. Len(log) /\ j \in 1 .. Len(log) /\ Neighbours(log, i, j)
      BY <2>1 DEF NextSignal, Neighbours, IsSignal
    <2> QED
      BY <2>1, <2>2 DEF InTurn, Follows
  <1> QED
    BY <1>1, <1>2, StepKeepsSamples, PTL DEF Spec

=============================================================================
