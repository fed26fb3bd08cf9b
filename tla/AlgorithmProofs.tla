-------------------------- MODULE AlgorithmProofs --------------------------
(***************************************************************************)
(* What the three computations of a plan return, for every input           *)
(* and every value of the constants: the speeds of the time estimate       *)
(* (TimeSimulation), the samples of the validator's path (PathValidation)  *)
(* and the labels of a planned path (PathSemantics).                       *)
(***************************************************************************)
EXTENDS PathSemantics, TimeSimulation, PathValidation, FiniteSetTheorems, SequenceTheorems,
        WellFoundedInduction, TLAPS

-----------------------------------------------------------------------------
(* Induction, over sets: a set of naturals with 0, and with n + 1 whenever *)
(* it has n, has them all, for the least number outside it would have no   *)
(* predecessor.                                                            *)

LEMMA LeastElement ==
  ASSUME NEW T \in SUBSET Nat, T # {}
  PROVE  \E n \in T : \A m \in T : n <= m
<1>1. IsWellFoundedOn(OpToRel(<, Nat), Nat)
  BY NatLessThanWellFounded, Zenon
<1>2. PICK n \in T : \A m \in T : <<m, n>> \notin OpToRel(<, Nat)
  BY <1>1, WFMin, Zenon
<1>3. \A m \in T : ~(m < n)
  <2> TAKE m \in T
  <2>1. m \in Nat /\ n \in Nat
    OBVIOUS
  <2>2. <<m, n>> \notin OpToRel(<, Nat)
    BY <1>2
  <2> QED BY <2>1, <2>2, Zenon DEF OpToRel
<1> QED BY <1>3

LEMMA SetInduction ==
  ASSUME NEW S, 0 \in S, \A n \in Nat : n \in S => n + 1 \in S
  PROVE  Nat \subseteq S
<1> SUFFICES ASSUME Nat \ S # {} PROVE FALSE
  OBVIOUS
<1>1. PICK n \in Nat \ S : \A m \in Nat \ S : n <= m
  BY LeastElement
<1>2. n # 0 /\ n - 1 \in Nat
  BY <1>1
<1>3. n - 1 \in S
  BY <1>1, <1>2
<1> QED BY <1>1, <1>2, <1>3

\* f begins with base and makes each next value of the one before, by step.
Computes(f, V, base, N, step) ==
  f \in [0..N -> V] /\ f[0] = base /\ \A n \in 1..N : f[n] = step[<<n, f[n - 1]>>]

LEMMA Recursion ==
  ASSUME NEW V, NEW base \in V, NEW N \in Nat, NEW step \in [(1..N) \X V -> V]
  PROVE  \E f : Computes(f, V, base, N, step)
<1> DEFINE Upto(m) == {f \in [0..m -> V] :
                         f[0] = base /\ \A n \in 1..m : f[n] = step[<<n, f[n - 1]>>]}
           S == {m \in Nat : m <= N => Upto(m) # {}}
<1>1. 0 \in S
  <2>1. [n \in 0..0 |-> base] \in Upto(0)
    OBVIOUS
  <2> QED BY <2>1
<1>2. ASSUME NEW m \in Nat, m \in S
      PROVE  m + 1 \in S
  <2> SUFFICES ASSUME m + 1 <= N
               PROVE  Upto(m + 1) # {}
    OBVIOUS
  <2>1. PICK f \in Upto(m) : TRUE
    BY <1>2
  <2> DEFINE g == [n \in 0..m + 1 |-> IF n = m + 1 THEN step[<<n, f[m]>>] ELSE f[n]]
  <2> HIDE DEF Upto
  <2>2. f \in [0..m -> V] /\ f[0] = base /\ \A n \in 1..m : f[n] = step[<<n, f[n - 1]>>]
    BY <2>1 DEF Upto
  <2>3. step[<<m + 1, f[m]>>] \in V
    BY <2>2
  <2>4. g \in [0..m + 1 -> V]
    BY <2>2, <2>3
  <2>5. g[0] = base
    BY <2>2
  <2>6. ASSUME NEW n \in 1..m + 1
        PROVE  g[n] = step[<<n, g[n - 1]>>]
    <3>1. CASE n = m + 1
      BY <3>1
    <3>2. CASE n # m + 1
      <4>1. n \in 1..m /\ n - 1 \in 0..m /\ n - 1 # m + 1
        BY <3>2
      <4> QED BY <4>1, <2>2
    <3> QED BY <3>1, <3>2
  <2>7. g \in Upto(m + 1)
    <3> HIDE DEF g
    <3> QED BY <2>4, <2>5, <2>6 DEF Upto
  <2> QED BY <2>7
<1>3. N \in S
  <2> HIDE DEF S
  <2> QED BY <1>1, <1>2, SetInduction
<1> QED BY <1>3 DEF Computes

-----------------------------------------------------------------------------
(* The estimate of a path's time: the two passes over the speeds at its    *)
(* vertices satisfy their equations, and nothing that satisfies them as    *)
(* inequalities is faster anywhere.                                        *)

LEMMA SegmentTypes ==
  ASSUME NEW s \in Segments
  PROVE  /\ s.distance \in Nat /\ s.turn \in Nat /\ s.reverse \in BOOLEAN
         /\ SpeedLimit(s) \in Nat
BY SimulationAssumption DEF SpeedLimit, Least

LEMMA Gains ==
  ASSUME NEW p \in Seq(Segments), NEW k \in DOMAIN p
  PROVE  Acceleration * p[k].distance \in Nat /\ Deceleration * p[k].distance \in Nat
<1>1. p[k].distance \in Nat
  BY SegmentTypes
<1>2. Acceleration \in Nat /\ Deceleration \in Nat
  BY SimulationAssumption
<1> QED BY <1>1, <1>2

LEMMA AtVertex ==
  ASSUME NEW p \in Seq(Segments), p # <<>>, NEW k \in Vertices(p)
  PROVE  /\ At(p, k) = (IF k = 1 THEN {1} ELSE IF k = Len(p) + 1 THEN {Len(p)} ELSE {k - 1, k})
         /\ k \in {1, Len(p) + 1} => Stands(p, k)
<1>1. Len(p) \in Nat /\ Len(p) >= 1 /\ DOMAIN p = 1..Len(p)
  BY EmptySeq
<1>2. At(p, k) = IF k = 1 THEN {1} ELSE IF k = Len(p) + 1 THEN {Len(p)} ELSE {k - 1, k}
  BY <1>1 DEF At, Vertices
<1>3. k \in {1, Len(p) + 1} => Cardinality(At(p, k)) = 1
  BY <1>1, <1>2, FS_Singleton
<1> QED BY <1>2, <1>3 DEF Stands

LEMMA CapBounds ==
  ASSUME NEW p \in Seq(Segments), p # <<>>
  PROVE  /\ \A k \in Vertices(p) : Cap(p, k) \in Nat
         /\ Cap(p, 1) = 0 /\ Cap(p, Len(p) + 1) = 0
         /\ \A k \in DOMAIN p : Cap(p, k) <= SpeedLimit(p[k]) /\ Cap(p, k + 1) <= SpeedLimit(p[k])
<1>1. Len(p) \in Nat /\ Len(p) >= 1 /\ DOMAIN p = 1..Len(p)
  BY EmptySeq
<1>2. \A k \in DOMAIN p : SpeedLimit(p[k]) \in Nat
  BY SegmentTypes, <1>1
<1>3. Cap(p, 1) = 0 /\ Cap(p, Len(p) + 1) = 0
  BY <1>1, AtVertex DEF Cap, Vertices
<1>4. ASSUME NEW k \in 2..Len(p)
      PROVE  Cap(p, k) \in Nat /\ Cap(p, k) <= SpeedLimit(p[k - 1]) /\ Cap(p, k) <= SpeedLimit(p[k])
  <2>1. k - 1 \in DOMAIN p /\ k \in DOMAIN p
    BY <1>1
  <2> QED BY <2>1, <1>2 DEF Cap, Least
<1>5. ASSUME NEW k \in DOMAIN p
      PROVE  Cap(p, k) <= SpeedLimit(p[k]) /\ Cap(p, k + 1) <= SpeedLimit(p[k])
  <2>1. Cap(p, k) <= SpeedLimit(p[k])
    BY <1>1, <1>2, <1>3, <1>4
  <2>2. Cap(p, k + 1) <= SpeedLimit(p[k])
    <3>1. CASE k = Len(p)
      BY <1>1, <1>2, <1>3, <3>1
    <3>2. CASE k # Len(p)
      <4>1. k + 1 \in 2..Len(p) /\ (k + 1) - 1 = k
        BY <1>1, <3>2
      <4> QED BY <4>1, <1>4
    <3> QED BY <3>1, <3>2
  <2> QED BY <2>1, <2>2
<1>6. \A k \in Vertices(p) : Cap(p, k) \in Nat
  BY <1>1, <1>3, <1>4 DEF Vertices
<1> QED BY <1>3, <1>5, <1>6

\* The two passes satisfy the equations they are written with.
ReachedBy(p, f) ==
  /\ f \in [Vertices(p) -> Nat]
  /\ f[1] = 0
  /\ \A k \in DOMAIN p :
       f[k + 1] = Least(Cap(p, k + 1), f[k] + Acceleration * p[k].distance)

LEMMA ForwardPassReaches ==
  ASSUME NEW p \in Seq(Segments), p # <<>>
  PROVE  ReachedBy(p, ForwardPass(p))
<1> DEFINE N == Len(p)
           Pass(speed) == [k \in Vertices(p) |->
             IF k = 1 THEN 0
             ELSE Least(Cap(p, k), speed[k - 1] + Acceleration * p[k - 1].distance)]
           step == [z \in (1..N) \X Nat |->
                      Least(Cap(p, z[1] + 1), z[2] + Acceleration * p[z[1]].distance)]
<1>1. N \in Nat /\ N >= 1 /\ DOMAIN p = 1..N
  BY EmptySeq
<1>2. \A k \in 1..N : /\ Cap(p, k + 1) \in Nat
                      /\ Acceleration * p[k].distance \in Nat
  <2> TAKE k \in 1..N
  <2>1. p[k].distance \in Nat
    BY <1>1, SegmentTypes
  <2>2. Acceleration \in Nat
    BY SimulationAssumption
  <2>3. k + 1 \in Vertices(p)
    BY <1>1 DEF Vertices
  <2> QED BY <2>1, <2>2, <2>3, CapBounds
<1>3. step \in [(1..N) \X Nat -> Nat]
  <2> SUFFICES ASSUME NEW z \in (1..N) \X Nat
               PROVE  Least(Cap(p, z[1] + 1), z[2] + Acceleration * p[z[1]].distance) \in Nat
    OBVIOUS
  <2> QED BY <1>2 DEF Least
<1>4. PICK f \in [0..N -> Nat] : f[0] = 0 /\ \A n \in 1..N : f[n] = step[<<n, f[n - 1]>>]
  <2>1. 0 \in Nat
    OBVIOUS
  <2>2. N \in Nat
    BY <1>1
  <2>3. \E f : Computes(f, Nat, 0, N, step)
    <3> HIDE DEF step, N
    <3> QED BY <1>3, <2>1, <2>2, Recursion, Zenon
  <2> HIDE DEF step, N
  <2> QED BY <2>3 DEF Computes
<1> DEFINE g == [k \in Vertices(p) |-> f[k - 1]]
<1>5. g = Pass(g)
  <2> SUFFICES ASSUME NEW k \in Vertices(p)
               PROVE  f[k - 1] = Pass(g)[k]
    OBVIOUS
  <2>1. CASE k = 1
    BY <2>1, <1>4
  <2>2. CASE k # 1
    <3>1. k - 1 \in 1..N /\ (k - 1) + 1 = k /\ k - 1 \in Vertices(p)
      BY <2>2, <1>1 DEF Vertices
    <3>2. f[k - 1] = step[<<k - 1, f[(k - 1) - 1]>>] /\ f[(k - 1) - 1] \in Nat
      <4> HIDE DEF step
      <4> QED BY <3>1, <1>4
    <3>3. g[k - 1] = f[(k - 1) - 1]
      BY <3>1
    <3> HIDE DEF g
    <3>4. f[k - 1] = Least(Cap(p, k), f[(k - 1) - 1] + Acceleration * p[k - 1].distance)
      BY <3>1, <3>2
    <3> QED BY <2>2, <3>3, <3>4
  <2> QED BY <2>1, <2>2
<1>6. ForwardPass(p) = Pass(ForwardPass(p))
  <2>1. ForwardPass(p) = CHOOSE speed : speed = Pass(speed)
    BY DEF ForwardPass
  <2> HIDE DEF Pass, g
  <2> QED BY <1>5, <2>1
<1> DEFINE h == ForwardPass(p)
<1>7. DOMAIN h = Vertices(p) /\ h = [k \in Vertices(p) |-> h[k]]
  BY <1>6
<1>8. h[1] = 0
  <2>1. 1 \in Vertices(p)
    BY <1>1 DEF Vertices
  <2> HIDE DEF h
  <2> QED BY <2>1, <1>6 DEF h
<1>9. \A k \in DOMAIN p : h[k + 1] = Least(Cap(p, k + 1), h[k] + Acceleration * p[k].distance)
  <2> TAKE k \in DOMAIN p
  <2>1. k + 1 \in Vertices(p) /\ k + 1 # 1 /\ (k + 1) - 1 = k
    BY <1>1 DEF Vertices
  <2>2. h[k + 1] = Pass(h)[k + 1]
    <3> HIDE DEF Pass
    <3> QED BY <1>6
  <2> HIDE DEF h
  <2> QED BY <2>1, <2>2
<1>10. \A n \in Nat : n \in {m \in Nat : m <= N => h[m + 1] \in Nat}
  <2> DEFINE S == {m \in Nat : m <= N => h[m + 1] \in Nat}
  <2>1. 0 \in S
    BY <1>8
  <2>2. ASSUME NEW m \in Nat, m \in S
        PROVE  m + 1 \in S
    <3> SUFFICES ASSUME m + 1 <= N
                 PROVE  h[m + 2] \in Nat
      OBVIOUS
    <3>1. m + 1 \in DOMAIN p /\ (m + 1) + 1 = m + 2
      BY <1>1
    <3>2. h[m + 2] = Least(Cap(p, m + 2), h[m + 1] + Acceleration * p[m + 1].distance)
      BY <3>1, <1>9
    <3>3. h[m + 1] \in Nat
      BY <2>2, <1>1
    <3> HIDE DEF h
    <3> QED BY <3>1, <3>2, <3>3, <1>1, <1>2 DEF Least
  <2> HIDE DEF S
  <2>3. Nat \subseteq S
    BY <2>1, <2>2, SetInduction
  <2> QED BY <2>3 DEF S
<1>11. \A k \in Vertices(p) : h[k] \in Nat
  <2> TAKE k \in Vertices(p)
  <2>1. k - 1 \in Nat /\ k - 1 <= N /\ (k - 1) + 1 = k
    BY <1>1 DEF Vertices
  <2> HIDE DEF h
  <2> QED BY <2>1, <1>10
<1> HIDE DEF h
<1>12. h \in [Vertices(p) -> Nat]
  BY <1>7, <1>11
<1> QED BY <1>8, <1>9, <1>12 DEF ReachedBy, h

BrakedBy(p, v) ==
  /\ v \in [Vertices(p) -> Nat]
  /\ v[Len(p) + 1] = 0
  /\ \A k \in DOMAIN p :
       v[k] = Least(ForwardPass(p)[k], v[k + 1] + Deceleration * p[k].distance)

LEMMA VertexSpeedsBrake ==
  ASSUME NEW p \in Seq(Segments), p # <<>>
  PROVE  BrakedBy(p, VertexSpeeds(p))
<1> DEFINE N == Len(p)
           reached == ForwardPass(p)
           Pass(speed) == [n \in 0..N |->
             IF n = 0 THEN 0
             ELSE LET k == N + 1 - n
                  IN  Least(reached[k], speed[n - 1] + Deceleration * p[k].distance)]
           step == [z \in (1..N) \X Nat |->
                      Least(reached[N + 1 - z[1]], z[2] + Deceleration * p[N + 1 - z[1]].distance)]
           b == CHOOSE speed : speed = Pass(speed)
<1>1. N \in Nat /\ N >= 1 /\ DOMAIN p = 1..N
  BY EmptySeq
<1>2. \A k \in 1..N : reached[k] \in Nat /\ Deceleration * p[k].distance \in Nat
  <2> TAKE k \in 1..N
  <2>1. p[k].distance \in Nat
    BY <1>1, SegmentTypes
  <2>2. Deceleration \in Nat
    BY SimulationAssumption
  <2>3. k \in Vertices(p)
    BY <1>1 DEF Vertices
  <2>4. reached[k] \in Nat
    BY <2>3, ForwardPassReaches DEF ReachedBy
  <2> HIDE DEF reached
  <2> QED BY <2>1, <2>2, <2>4
<1> HIDE DEF reached
<1>3. step \in [(1..N) \X Nat -> Nat]
  <2> SUFFICES ASSUME NEW n \in 1..N, NEW v \in Nat
               PROVE  Least(reached[N + 1 - n], v + Deceleration * p[N + 1 - n].distance) \in Nat
    OBVIOUS
  <2>1. N + 1 - n \in 1..N
    BY <1>1
  <2> QED BY <1>2, <2>1 DEF Least
<1>4. PICK f : Computes(f, Nat, 0, N, step)
  <2>1. 0 \in Nat
    OBVIOUS
  <2>2. N \in Nat
    BY <1>1
  <2> HIDE DEF step, N
  <2> QED BY <1>3, <2>1, <2>2, Recursion, Zenon
<1>5. f = Pass(f)
  <2>1. f \in [0..N -> Nat] /\ f[0] = 0 /\ \A n \in 1..N : f[n] = step[<<n, f[n - 1]>>]
    <3> HIDE DEF step
    <3> QED BY <1>4 DEF Computes
  <2>2. ASSUME NEW n \in 1..N
        PROVE  f[n] = Least(reached[N + 1 - n], f[n - 1] + Deceleration * p[N + 1 - n].distance)
    <3>1. f[n - 1] \in Nat
      BY <1>1, <2>1
    <3>2. f[n] = step[<<n, f[n - 1]>>]
      <4> HIDE DEF step
      <4> QED BY <2>1
    <3> QED BY <3>1, <3>2
  <2>3. ASSUME NEW n \in 0..N
        PROVE  f[n] = Pass(f)[n]
    BY <2>1, <2>2, <1>1
  <2> QED BY <2>1, <2>3
<1>6. b = Pass(b)
  <2> HIDE DEF Pass
  <2> QED BY <1>5
<1>7. VertexSpeeds(p) = [k \in Vertices(p) |-> b[N + 1 - k]]
  BY DEF VertexSpeeds, reached
<1> HIDE DEF b
<1>8. b[0] = 0
  BY <1>1, <1>6
<1>9. \A n \in 1..N : b[n] = Least(reached[N + 1 - n], b[n - 1] + Deceleration * p[N + 1 - n].distance)
  <2> TAKE n \in 1..N
  <2>1. b[n] = Pass(b)[n]
    <3> HIDE DEF Pass
    <3> QED BY <1>6
  <2>2. Pass(b)[n] = Least(reached[N + 1 - n], b[n - 1] + Deceleration * p[N + 1 - n].distance)
    BY <1>1
  <2> QED BY <2>1, <2>2
<1>10. \A n \in 0..N : b[n] \in Nat
  <2> DEFINE S == {n \in Nat : n <= N => b[n] \in Nat}
  <2>1. 0 \in S
    BY <1>8
  <2>2. ASSUME NEW m \in Nat, m \in S
        PROVE  m + 1 \in S
    <3> SUFFICES ASSUME m + 1 <= N
                 PROVE  b[m + 1] \in Nat
      OBVIOUS
    <3>1. m + 1 \in 1..N /\ (m + 1) - 1 = m /\ N + 1 - (m + 1) \in 1..N
      BY <1>1
    <3>2. b[m] \in Nat
      BY <2>2, <1>1
    <3>3. b[m + 1] = Least(reached[N + 1 - (m + 1)], b[m] + Deceleration * p[N + 1 - (m + 1)].distance)
      BY <3>1, <1>9
    <3> DEFINE k == N + 1 - (m + 1)
    <3>4. k \in 1..N /\ b[m + 1] = Least(reached[k], b[m] + Deceleration * p[k].distance)
      BY <3>1, <3>3
    <3> HIDE DEF k
    <3> QED BY <3>2, <3>4, <1>2 DEF Least
  <2>3. Nat \subseteq S
    <3> HIDE DEF S
    <3> QED BY <2>1, <2>2, SetInduction
  <2> QED BY <2>3, <1>1
<1> DEFINE v == VertexSpeeds(p)
<1>11. v \in [Vertices(p) -> Nat]
  <2> SUFFICES ASSUME NEW k \in Vertices(p)
               PROVE  b[N + 1 - k] \in Nat
    BY <1>7
  <2> QED BY <1>1, <1>10 DEF Vertices
<1>12. v[N + 1] = 0
  <2>1. N + 1 \in Vertices(p) /\ (N + 1) - (N + 1) = 0
    BY <1>1 DEF Vertices
  <2> QED BY <2>1, <1>7, <1>8
<1>13. ASSUME NEW k \in 1..N
       PROVE  v[k] = Least(reached[k], v[k + 1] + Deceleration * p[k].distance)
  <2>1. /\ k \in Vertices(p) /\ k + 1 \in Vertices(p)
        /\ N + 1 - k \in 1..N /\ N + 1 - (N + 1 - k) = k /\ (N + 1 - k) - 1 = N + 1 - (k + 1)
    BY <1>1 DEF Vertices
  <2>2. v[k] = b[N + 1 - k] /\ v[k + 1] = b[N + 1 - (k + 1)]
    BY <2>1, <1>7
  <2> HIDE DEF v
  <2> QED BY <2>1, <2>2, <1>9
<1> HIDE DEF v
<1> QED BY <1>1, <1>11, <1>12, <1>13 DEF BrakedBy, v, reached

LEMMA Monotone ==
  ASSUME NEW a \in Nat, NEW b \in Int, NEW c \in Int, b <= c
  PROVE  a * b <= a * c
OBVIOUS

LEMMA RampsAlwaysFit ==
  ASSUME NEW s \in Segments, NEW start \in Nat, NEW end \in Nat,
         start <= SpeedLimit(s), end <= SpeedLimit(s),
         end <= start + Acceleration * s.distance,
         start <= end + Deceleration * s.distance
  PROVE  RampsFit(s, start, end)
<1> DEFINE a == Acceleration
           d == Deceleration
           x == s.distance
           l == SpeedLimit(s)
           peak == Peak(s, start, end)
           met == a * d * x + d * start + a * end
           most == (a + d) * l
<1>1. a \in Nat /\ d \in Nat /\ x \in Nat /\ l \in Nat
  BY SegmentTypes, SimulationAssumption
<1>2. peak = Least(met, most)
  BY DEF Peak
<1>3. start <= l /\ end <= l /\ end <= start + a * x /\ start <= end + d * x
  OBVIOUS
<1>4. RampsFit(s, start, end) =
        (/\ peak >= (a + d) * start /\ peak >= (a + d) * end
         /\ d * (peak - (a + d) * start) + a * (peak - (a + d) * end) <= a * d * (a + d) * x)
  BY DEF RampsFit
<1> HIDE DEF a, d, x, l, peak
<1>5. a * start <= a * end + a * d * x /\ d * end <= d * start + a * d * x
  <2>1. a * start <= a * (end + d * x) /\ d * end <= d * (start + a * x)
    <3>1. d * x \in Nat /\ a * x \in Nat
      BY <1>1
    <3>2. end + d * x \in Int /\ start + a * x \in Int
      BY <3>1
    <3> QED BY <1>1, <1>3, <3>2, Monotone
  <2>2. a * (end + d * x) = a * end + a * d * x /\ d * (start + a * x) = d * start + a * d * x
    BY <1>1
  <2> QED BY <2>1, <2>2
<1>6. (a + d) * start = a * start + d * start /\ (a + d) * end = a * end + d * end
  BY <1>1
<1>7. (a + d) * start <= most /\ (a + d) * end <= most
  BY <1>1, <1>3, Monotone
<1>8. /\ met \in Int /\ most \in Int /\ a * start \in Int /\ d * start \in Int
      /\ a * end \in Int /\ d * end \in Int /\ a * d * x \in Int
  BY <1>1
<1>9. (a + d) * start <= met /\ (a + d) * end <= met
  BY <1>5, <1>6, <1>8
<1>10. peak \in Int /\ peak <= met /\ (peak = met \/ peak = most)
  BY <1>2, <1>8 DEF Least
<1>11. peak >= (a + d) * start /\ peak >= (a + d) * end
  BY <1>7, <1>9, <1>10
<1>12. d * (peak - (a + d) * start) + a * (peak - (a + d) * end)
         = (a + d) * (peak - d * start - a * end)
  BY <1>1, <1>10
<1>13. (a + d) * (peak - d * start - a * end) <= (a + d) * (a * d * x)
  <2>1. peak - d * start - a * end <= a * d * x
    BY <1>8, <1>10
  <2>2. peak - d * start - a * end \in Int
    BY <1>8, <1>10
  <2> QED BY <1>1, <1>8, <2>1, <2>2, Monotone
<1>14. (a + d) * (a * d * x) = a * d * (a + d) * x
  BY <1>1
<1> QED BY <1>4, <1>11, <1>12, <1>13, <1>14

LEMMA SpeedsAreDrivable ==
  ASSUME NEW p \in Seq(Segments), p # <<>>
  PROVE  Drivable(p, VertexSpeeds(p))
<1> DEFINE N == Len(p)
           r == ForwardPass(p)
           v == VertexSpeeds(p)
<1>1. N \in Nat /\ N >= 1 /\ DOMAIN p = 1..N /\ Vertices(p) = 1..N + 1
  BY EmptySeq DEF Vertices
<1>2. ReachedBy(p, r) /\ BrakedBy(p, v)
  BY ForwardPassReaches, VertexSpeedsBrake
<1> HIDE DEF r, v
<1>3. \A k \in 1..N : /\ Acceleration * p[k].distance \in Nat
                      /\ Deceleration * p[k].distance \in Nat
  BY <1>1, Gains
<1>4. \A k \in 1..N + 1 : r[k] \in Nat /\ v[k] \in Nat /\ Cap(p, k) \in Nat
  BY <1>1, <1>2, CapBounds DEF ReachedBy, BrakedBy
<1>5. r[1] = 0 /\ Cap(p, 1) = 0 /\ v[N + 1] = 0
  BY <1>2, CapBounds DEF ReachedBy, BrakedBy
<1>6. ASSUME NEW k \in 1..N
      PROVE  r[k + 1] <= Cap(p, k + 1) /\ r[k + 1] <= r[k] + Acceleration * p[k].distance
  <2>1. r[k + 1] = Least(Cap(p, k + 1), r[k] + Acceleration * p[k].distance)
    BY <1>1, <1>2 DEF ReachedBy
  <2>2. k + 1 \in 1..N + 1 /\ k \in 1..N + 1
    BY <1>1
  <2> QED BY <2>1, <2>2, <1>3, <1>4 DEF Least
<1>7. ASSUME NEW k \in 1..N
      PROVE  /\ v[k] <= r[k] /\ v[k] <= v[k + 1] + Deceleration * p[k].distance
             /\ v[k] = r[k] \/ v[k] = v[k + 1] + Deceleration * p[k].distance
  <2>1. v[k] = Least(r[k], v[k + 1] + Deceleration * p[k].distance)
    BY <1>1, <1>2 DEF BrakedBy, r
  <2>2. k + 1 \in 1..N + 1 /\ k \in 1..N + 1
    BY <1>1
  <2> QED BY <2>1, <2>2, <1>3, <1>4 DEF Least
<1>8. ASSUME NEW k \in 1..N + 1
      PROVE  v[k] <= r[k]
  <2>1. CASE k = N + 1
    BY <2>1, <1>1, <1>4, <1>5
  <2>2. CASE k # N + 1
    BY <2>2, <1>1, <1>7
  <2> QED BY <2>1, <2>2
<1>9. ASSUME NEW k \in 1..N + 1
      PROVE  r[k] <= Cap(p, k)
  <2>1. CASE k = 1
    BY <2>1, <1>5
  <2>2. CASE k # 1
    <3>1. k - 1 \in 1..N /\ (k - 1) + 1 = k
      BY <1>1, <2>2
    <3> QED BY <3>1, <1>6
  <2> QED BY <2>1, <2>2
<1>10. \A k \in 1..N + 1 : v[k] <= Cap(p, k)
  BY <1>4, <1>8, <1>9
<1>11. ASSUME NEW k \in 1..N
       PROVE  v[k + 1] <= v[k] + Acceleration * p[k].distance
  <2>1. k \in 1..N + 1 /\ k + 1 \in 1..N + 1
    BY <1>1
  <2>2. v[k + 1] <= r[k + 1]
    BY <2>1, <1>8
  <2>3. /\ r[k + 1] \in Nat /\ r[k] \in Nat /\ v[k + 1] \in Nat /\ v[k] \in Nat
        /\ Acceleration * p[k].distance \in Nat /\ Deceleration * p[k].distance \in Nat
    BY <2>1, <1>3, <1>4
  <2>4. r[k + 1] <= r[k] + Acceleration * p[k].distance
    BY <1>6
  <2>5. v[k] = r[k] \/ v[k] = v[k + 1] + Deceleration * p[k].distance
    BY <1>7
  <2> DEFINE up == Acceleration * p[k].distance
             down == Deceleration * p[k].distance
  <2> HIDE DEF up, down
  <2>6. v[k + 1] <= v[k] + up
    BY <2>2, <2>3, <2>4, <2>5 DEF up, down
  <2> QED BY <2>6 DEF up
<1> QED BY <1>1, <1>7, <1>10, <1>11 DEF Drivable, v

LEMMA SpeedsAreFastest ==
  ASSUME NEW p \in Seq(Segments), p # <<>>,
         NEW u \in [Vertices(p) -> Nat], Drivable(p, u)
  PROVE  \A k \in Vertices(p) : u[k] <= VertexSpeeds(p)[k]
<1> DEFINE N == Len(p)
           r == ForwardPass(p)
           v == VertexSpeeds(p)
<1>1. N \in Nat /\ N >= 1 /\ DOMAIN p = 1..N /\ Vertices(p) = 1..N + 1
  BY EmptySeq DEF Vertices
<1>2. ReachedBy(p, r) /\ BrakedBy(p, v)
  BY ForwardPassReaches, VertexSpeedsBrake
<1> HIDE DEF r, v
<1>3. \A k \in 1..N : /\ Acceleration * p[k].distance \in Nat
                      /\ Deceleration * p[k].distance \in Nat
  BY <1>1, Gains
<1>4. \A k \in 1..N + 1 : /\ r[k] \in Nat /\ v[k] \in Nat /\ Cap(p, k) \in Nat /\ u[k] \in Nat
                          /\ u[k] <= Cap(p, k)
  BY <1>1, <1>2, CapBounds DEF ReachedBy, BrakedBy, Drivable
<1>5. r[1] = 0 /\ v[N + 1] = 0 /\ Cap(p, 1) = 0 /\ Cap(p, N + 1) = 0
  BY <1>2, CapBounds DEF ReachedBy, BrakedBy
<1>6. \A k \in 1..N + 1 : u[k] <= r[k]
  <2> DEFINE S == {n \in Nat : n <= N => u[n + 1] <= r[n + 1]}
  <2>1. 0 \in S
    BY <1>1, <1>4, <1>5
  <2>2. ASSUME NEW m \in Nat, m \in S
        PROVE  m + 1 \in S
    <3> SUFFICES ASSUME m + 1 <= N
                 PROVE  u[m + 2] <= r[m + 2]
      OBVIOUS
    <3> DEFINE k == m + 1
    <3>1. k \in 1..N /\ k + 1 = m + 2 /\ k \in 1..N + 1 /\ k + 1 \in 1..N + 1 /\ u[k] <= r[k]
      BY <1>1, <2>2
    <3> HIDE DEF k
    <3>2. r[k + 1] = Least(Cap(p, k + 1), r[k] + Acceleration * p[k].distance)
      BY <1>1, <1>2, <3>1 DEF ReachedBy
    <3>3. u[k + 1] <= u[k] + Acceleration * p[k].distance
      BY <1>1, <3>1 DEF Drivable
    <3>4. /\ r[k] \in Nat /\ u[k] \in Nat /\ u[k + 1] \in Nat /\ Cap(p, k + 1) \in Nat
          /\ u[k + 1] <= Cap(p, k + 1) /\ Acceleration * p[k].distance \in Nat
      BY <3>1, <1>3, <1>4
    <3>5. u[k + 1] <= r[k + 1]
      BY <3>1, <3>2, <3>3, <3>4 DEF Least
    <3> QED BY <3>1, <3>5
  <2>3. Nat \subseteq S
    <3> HIDE DEF S
    <3> QED BY <2>1, <2>2, SetInduction
  <2> TAKE k \in 1..N + 1
  <2>4. k - 1 \in Nat /\ k - 1 <= N /\ (k - 1) + 1 = k
    BY <1>1
  <2> QED BY <2>3, <2>4
<1>7. \A k \in 1..N + 1 : u[k] <= v[k]
  <2> DEFINE S == {n \in Nat : n <= N => u[N + 1 - n] <= v[N + 1 - n]}
  <2>1. 0 \in S
    BY <1>1, <1>4, <1>5
  <2>2. ASSUME NEW m \in Nat, m \in S
        PROVE  m + 1 \in S
    <3> SUFFICES ASSUME m + 1 <= N
                 PROVE  u[N + 1 - (m + 1)] <= v[N + 1 - (m + 1)]
      OBVIOUS
    <3> DEFINE k == N + 1 - (m + 1)
    <3>1. /\ k \in 1..N /\ k + 1 = N + 1 - m /\ k \in 1..N + 1 /\ k + 1 \in 1..N + 1
          /\ u[k + 1] <= v[k + 1]
      BY <1>1, <2>2
    <3> HIDE DEF k
    <3>2. v[k] = Least(r[k], v[k + 1] + Deceleration * p[k].distance)
      BY <1>1, <1>2, <3>1 DEF BrakedBy, r
    <3>3. u[k] <= u[k + 1] + Deceleration * p[k].distance
      BY <1>1, <3>1 DEF Drivable
    <3>4. /\ u[k] \in Nat /\ u[k + 1] \in Nat /\ v[k + 1] \in Nat /\ r[k] \in Nat
          /\ u[k] <= r[k] /\ Deceleration * p[k].distance \in Nat
      BY <3>1, <1>3, <1>4, <1>6
    <3> DEFINE down == Deceleration * p[k].distance
    <3>5. u[k] <= u[k + 1] + down /\ v[k] = Least(r[k], v[k + 1] + down) /\ down \in Nat
      BY <3>2, <3>3, <3>4
    <3> HIDE DEF down
    <3>6. u[k] <= v[k]
      BY <3>1, <3>4, <3>5 DEF Least
    <3> QED BY <3>6 DEF k
  <2>3. Nat \subseteq S
    <3> HIDE DEF S
    <3> QED BY <2>1, <2>2, SetInduction
  <2> TAKE k \in 1..N + 1
  <2> DEFINE n == N + 1 - k
  <2>4. n \in Nat /\ n <= N /\ N + 1 - n = k
    BY <1>1
  <2>5. n \in S
    BY <2>3, <2>4
  <2> HIDE DEF n
  <2>6. u[N + 1 - n] <= v[N + 1 - n]
    BY <2>4, <2>5
  <2> QED BY <2>4, <2>6
<1> QED BY <1>1, <1>7 DEF v

LEMMA FewReversals ==
  ASSUME NEW p \in Seq(Segments), p # <<>>
  PROVE  DirectionChanges(p) < Len(p)
<1> DEFINE T == {k \in 1..Len(p) - 1 :
                   Moves(p[k]) /\ Moves(p[k + 1]) /\ p[k].reverse # p[k + 1].reverse}
<1>1. Len(p) \in Nat /\ Len(p) >= 1
  BY EmptySeq
<1>2. IsFiniteSet(1..Len(p) - 1) /\ Cardinality(1..Len(p) - 1) = Len(p) - 1
  BY <1>1, FS_Interval
<1>3. T \subseteq 1..Len(p) - 1
  OBVIOUS
<1> HIDE DEF T
<1>4. Cardinality(T) \in Nat /\ Cardinality(T) <= Len(p) - 1
  <2>1. IsFiniteSet(T) /\ Cardinality(T) <= Cardinality(1..Len(p) - 1)
    BY <1>2, <1>3, FS_Subset
  <2>2. Cardinality(T) \in Nat
    BY <2>1, FS_CardinalityType
  <2> QED BY <1>2, <2>1, <2>2
<1>5. DirectionChanges(p) = Cardinality(T)
  BY DEF DirectionChanges, T
<1> QED BY <1>1, <1>4, <1>5

SimulationInv ==
  /\ lastPath \in Paths \cup {NoPath}
  /\ simulation.status = "ESTIMATED" =>
       /\ lastPath \in Paths /\ ~NoMotion(lastPath)
       /\ simulation.path = lastPath
       /\ simulation.speeds = VertexSpeeds(lastPath)
       /\ simulation.classified \in BOOLEAN
       /\ simulation.classified <=> document = lastPath
       /\ simulation.reversals = DirectionChanges(lastPath)

LEMMA Estimates ==
  ASSUME NEW p, NEW c \in BOOLEAN,
         Estimate(p, c).status = "ESTIMATED"
  PROVE  /\ ~NoMotion(p)
         /\ Estimate(p, c).path = p
         /\ Estimate(p, c).speeds = VertexSpeeds(p)
         /\ Estimate(p, c).classified = c
         /\ Estimate(p, c).reversals = DirectionChanges(p)
<1>1. CASE NoMotion(p)
  BY <1>1 DEF Estimate, Failed
<1>2. CASE ~NoMotion(p)
  BY <1>2 DEF Estimate
<1> QED BY <1>1, <1>2

LEMMA SimulationInductive == SimulationSpec => []SimulationInv
<1>1. SimulationInit => SimulationInv
  BY DEF SimulationInit, SimulationInv, NothingPublished, Failed
<1>2. SimulationInv /\ [SimulationNext]_simulationVars => SimulationInv'
  <2> SUFFICES ASSUME SimulationInv, [SimulationNext]_simulationVars
               PROVE  SimulationInv'
    OBVIOUS
  <2>1. CASE UNCHANGED simulationVars
    BY <2>1 DEF simulationVars, SimulationInv
  <2>2. ASSUME NEW p \in Paths, PathCallback(p)
        PROVE  SimulationInv'
    <3> DEFINE c == document = p
    <3>1. lastPath' = p /\ document' = document /\ simulation' = Estimate(p, c)
      BY <2>2 DEF PathCallback, Simulate
    <3>2. c \in BOOLEAN
      OBVIOUS
    <3> QED BY <3>1, <3>2, Estimates DEF SimulationInv
  <2>3. ASSUME NEW d \in Paths \cup {NoPath}, SemanticsCallback(d)
        PROVE  SimulationInv'
    <3>1. CASE lastPath = NoPath
      <4>1. NoPath \notin Paths
        BY SimulationAssumption DEF Paths
      <4>2. UNCHANGED <<lastPath, simulation>>
        BY <2>3, <3>1 DEF SemanticsCallback
      <4> QED BY <3>1, <4>1, <4>2 DEF SimulationInv
    <3>2. CASE lastPath # NoPath
      <4> DEFINE c == d = lastPath
      <4>1. lastPath' = lastPath /\ document' = d /\ simulation' = Estimate(lastPath, c)
        BY <2>3, <3>2 DEF SemanticsCallback, Simulate
      <4>2. c \in BOOLEAN
        OBVIOUS
      <4> QED BY <3>2, <4>1, <4>2, Estimates DEF SimulationInv
    <3> QED BY <3>1, <3>2
  <2> QED BY <2>1, <2>2, <2>3 DEF SimulationNext
<1> QED BY <1>1, <1>2, PTL DEF SimulationSpec

LEMMA EstimateOfPath ==
  ASSUME SimulationInv
  PROVE  EstimateIsFastest
<1> SUFFICES ASSUME simulation.status = "ESTIMATED"
             PROVE  LET p == simulation.path
                        v == simulation.speeds
                    IN  /\ p = lastPath
                        /\ simulation.classified <=> document = p
                        /\ Drivable(p, v)
                        /\ \A raised \in (SUBSET Vertices(p)) \ {{}} :
                             ~Drivable(p, [k \in Vertices(p) |->
                                             IF k \in raised THEN v[k] + 1 ELSE v[k]])
                        /\ \A k \in DOMAIN p : Moves(p[k]) => RampsFit(p[k], v[k], v[k + 1])
                        /\ simulation.reversals < Len(p)
  BY DEF EstimateIsFastest
<1> DEFINE p == simulation.path
           v == simulation.speeds
<1>1. /\ p = lastPath /\ v = VertexSpeeds(p) /\ simulation.reversals = DirectionChanges(p)
      /\ simulation.classified <=> document = p
      /\ p \in Paths /\ ~NoMotion(p)
  BY DEF SimulationInv
<1> HIDE DEF p, v
<1>2. p \in Seq(Segments)
  <2>1. PICK n \in 0..MaxLength : p \in [1..n -> Segments]
    BY <1>1 DEF Paths
  <2>2. n \in Nat
    BY SimulationAssumption
  <2> QED BY <2>1, <2>2, SeqDef
<1>3. p # <<>>
  BY <1>1 DEF NoMotion
<1>4. Drivable(p, v)
  BY <1>1, <1>2, <1>3, SpeedsAreDrivable
<1>5. v \in [Vertices(p) -> Nat]
  BY <1>1, <1>2, <1>3, VertexSpeedsBrake DEF BrakedBy
<1>6. ASSUME NEW raised \in (SUBSET Vertices(p)) \ {{}},
             Drivable(p, [k \in Vertices(p) |-> IF k \in raised THEN v[k] + 1 ELSE v[k]])
      PROVE  FALSE
  <2> DEFINE u == [k \in Vertices(p) |-> IF k \in raised THEN v[k] + 1 ELSE v[k]]
  <2>1. u \in [Vertices(p) -> Nat] /\ Drivable(p, u)
    BY <1>5, <1>6
  <2>2. PICK k \in raised : k \in Vertices(p)
    <3>1. raised # {} /\ raised \subseteq Vertices(p)
      OBVIOUS
    <3> QED BY <3>1, Zenon
  <2>3. u[k] = v[k] + 1 /\ v[k] \in Nat
    BY <1>5, <2>2
  <2> HIDE DEF u
  <2>4. u[k] <= v[k]
    BY <1>1, <1>2, <1>3, <2>1, <2>2, SpeedsAreFastest
  <2> QED BY <2>3, <2>4
<1>7. ASSUME NEW k \in DOMAIN p
      PROVE  RampsFit(p[k], v[k], v[k + 1])
  <2>1. k \in Vertices(p) /\ k + 1 \in Vertices(p) /\ p[k] \in Segments
    BY <1>2 DEF Vertices
  <2>2. v[k] \in Nat /\ v[k + 1] \in Nat
    BY <1>5, <2>1
  <2>3. v[k] <= SpeedLimit(p[k]) /\ v[k + 1] <= SpeedLimit(p[k])
    <3>1. /\ v[k] <= Cap(p, k) /\ v[k + 1] <= Cap(p, k + 1)
          /\ Cap(p, k) \in Nat /\ Cap(p, k + 1) \in Nat
          /\ Cap(p, k) <= SpeedLimit(p[k]) /\ Cap(p, k + 1) <= SpeedLimit(p[k])
      BY <1>2, <1>3, <1>4, <2>1, CapBounds DEF Drivable
    <3>2. SpeedLimit(p[k]) \in Nat
      BY <2>1, SegmentTypes
    <3> QED BY <2>2, <3>1, <3>2
  <2>4. /\ v[k + 1] <= v[k] + Acceleration * p[k].distance
        /\ v[k] <= v[k + 1] + Deceleration * p[k].distance
    BY <1>4 DEF Drivable
  <2> QED BY <2>1, <2>2, <2>3, <2>4, RampsAlwaysFit
<1>8. simulation.reversals < Len(p)
  BY <1>1, <1>2, <1>3, FewReversals
<1> QED BY <1>1, <1>4, <1>6, <1>7, <1>8 DEF p, v

\* The published estimate is of the last path and its speeds are the fastest the
\* robot can drive, for paths of any length and any limits.
THEOREM EstimateAlwaysFastest == SimulationSpec => []EstimateIsFastest
BY SimulationInductive, EstimateOfPath, PTL

-----------------------------------------------------------------------------
(* The validation of a path's geometry: two neighbouring samples are so    *)
(* near each other that the footprint at one of them looks at every cell   *)
(* that the robot can touch between them.                                  *)

LEMMA ValidatorTypes ==
  /\ Width \in Nat \ {0} /\ Height \in Nat \ {0} /\ Resolution \in Nat \ {0} /\ Radius \in Nat \ {0}
  /\ AngularStep \in Nat \ {0} /\ MaxSamples \in Nat \ {0} /\ TurningRadius \in Nat
  /\ LinearStep \in Nat \ {0}
  /\ \A p \in Pose : p.x \in Int /\ p.y \in Int /\ p.yaw \in Int
<1>1. /\ Width \in Nat \ {0} /\ Height \in Nat \ {0} /\ Resolution \in Nat \ {0} /\ Radius \in Nat \ {0}
      /\ AngularStep \in Nat \ {0} /\ MaxSamples \in Nat \ {0} /\ TurningRadius \in Nat
      /\ Radius % 4 = 0 /\ Resolution % 20 = 0
  BY GridAssumption
<1>2. LinearStep \in Nat \ {0}
  <2>1. Resolution \div 20 \in Nat \ {0} /\ Resolution \div 2 \in Nat /\ Radius \div 4 \in Nat
    BY <1>1
  <2> QED BY <2>1 DEF LinearStep, GreaterOf, LesserOf
<1>3. \A p \in Pose : p.x \in Int /\ p.y \in Int /\ p.yaw \in Int
  BY GridAssumption DEF Pose
<1> QED BY <1>1, <1>2, <1>3

Enough(n, a, b) == Sq(n * LinearStep) >= DistanceSq(a, b) /\ n * AngularStep >= Turned(a, b)

LEMMA StepCountIs ==
  ASSUME NEW a \in Pose, NEW b \in Pose
  PROVE  /\ StepCount(a, b) \in 1..MaxSamples + 1
         /\ StepCount(a, b) <= MaxSamples => Enough(StepCount(a, b), a, b)
<1> DEFINE LeastOf(n) == /\ Enough(n, a, b) \/ n = MaxSamples + 1
                       /\ \A m \in 1..n - 1 : ~Enough(m, a, b)
           T == {n \in 1..MaxSamples + 1 : Enough(n, a, b) \/ n = MaxSamples + 1}
<1>1. MaxSamples \in Nat
  BY ValidatorTypes
<1>2. PICK n \in T : \A m \in T : n <= m
  <2>1. MaxSamples + 1 \in T
    BY <1>1
  <2>2. T \in SUBSET Nat
    OBVIOUS
  <2> HIDE DEF T
  <2> QED BY <2>1, <2>2, LeastElement
<1>3. n \in 1..MaxSamples + 1 /\ LeastOf(n)
  BY <1>1, <1>2
<1>4. StepCount(a, b) = CHOOSE m \in 1..MaxSamples + 1 : LeastOf(m)
  BY DEF StepCount, Enough
<1> HIDE DEF LeastOf
<1>5. StepCount(a, b) \in 1..MaxSamples + 1 /\ LeastOf(StepCount(a, b))
  BY <1>3, <1>4
<1> QED BY <1>1, <1>5 DEF LeastOf

LEMMA FewSamples ==
  ASSUME NEW path \in Seq(Pose), Len(path) >= 2, ~TooManySamples(path)
  PROVE  \A k \in SegmentsOf(path) :
           /\ StepCount(path[k], path[k + 1]) \in 1..MaxSamples
           /\ Enough(StepCount(path[k], path[k + 1]), path[k], path[k + 1])
<1> DEFINE N == Len(path) - 1
           steps(k) == StepCount(path[k], path[k + 1])
           Sum(count) == [k \in 0..N |-> IF k = 0 THEN 1 ELSE count[k - 1] + steps(k)]
           step == [z \in (1..N) \X Nat |-> z[2] + steps(z[1])]
           c == CHOOSE count : count = Sum(count)
<1>1. N \in Nat /\ N >= 1 /\ MaxSamples \in Nat
  BY ValidatorTypes
<1>2. \A k \in 1..N : /\ path[k] \in Pose /\ path[k + 1] \in Pose
                      /\ steps(k) \in Nat /\ steps(k) >= 1
  <2> SUFFICES ASSUME NEW k \in 1..N
               PROVE  path[k] \in Pose /\ path[k + 1] \in Pose /\ steps(k) \in Nat /\ steps(k) >= 1
    OBVIOUS
  <2>1. k \in 1..Len(path) /\ k + 1 \in 1..Len(path)
    BY <1>1
  <2>2. path[k] \in Pose /\ path[k + 1] \in Pose
    BY <2>1
  <2>3. steps(k) \in 1..MaxSamples + 1
    BY <2>2, StepCountIs
  <2> HIDE DEF steps
  <2> QED BY <2>2, <2>3, <1>1
<1> HIDE DEF steps
<1>3. step \in [(1..N) \X Nat -> Nat]
  BY <1>2
<1>4. PICK f : Computes(f, Nat, 1, N, step)
  <2>1. 1 \in Nat
    OBVIOUS
  <2>2. N \in Nat
    BY <1>1
  <2> HIDE DEF step, N
  <2> QED BY <1>3, <2>1, <2>2, Recursion, Zenon
<1>5. f = Sum(f)
  <2>1. f \in [0..N -> Nat] /\ f[0] = 1 /\ \A n \in 1..N : f[n] = step[<<n, f[n - 1]>>]
    <3> HIDE DEF step
    <3> QED BY <1>4 DEF Computes
  <2>2. ASSUME NEW n \in 1..N
        PROVE  f[n] = f[n - 1] + steps(n)
    <3>1. f[n - 1] \in Nat
      BY <1>1, <2>1
    <3>2. f[n] = step[<<n, f[n - 1]>>]
      <4> HIDE DEF step
      <4> QED BY <2>1
    <3> QED BY <3>1, <3>2
  <2>3. ASSUME NEW n \in 0..N
        PROVE  f[n] = Sum(f)[n]
    BY <2>1, <2>2, <1>1
  <2> QED BY <2>1, <2>3
<1>6. c = Sum(c)
  <2> HIDE DEF Sum
  <2> QED BY <1>5
<1>7. TooManySamples(path) <=> c[N] > MaxSamples
  BY DEF TooManySamples, steps
<1> HIDE DEF c
<1>8. c[0] = 1
  BY <1>1, <1>6
<1>9. ASSUME NEW n \in 1..N
      PROVE  c[n] = c[n - 1] + steps(n)
  <2>1. c[n] = Sum(c)[n]
    <3> HIDE DEF Sum
    <3> QED BY <1>6
  <2> QED BY <1>1, <2>1
<1>10. c[N] \in Nat /\ \A k \in 1..N : steps(k) < c[N]
  <2> DEFINE S == {n \in Nat : n <= N => c[n] \in Nat /\ c[n] >= 1 /\ \A k \in 1..n : steps(k) < c[n]}
  <2>1. 0 \in S
    BY <1>8
  <2>2. ASSUME NEW m \in Nat, m \in S
        PROVE  m + 1 \in S
    <3> SUFFICES ASSUME m + 1 <= N
                 PROVE  /\ c[m + 1] \in Nat /\ c[m + 1] >= 1
                        /\ \A k \in 1..m + 1 : steps(k) < c[m + 1]
      OBVIOUS
    <3>1. m + 1 \in 1..N /\ (m + 1) - 1 = m /\ m <= N
      BY <1>1
    <3>2. c[m + 1] = c[m] + steps(m + 1)
      BY <3>1, <1>9
    <3>3. c[m] \in Nat /\ c[m] >= 1 /\ \A k \in 1..m : steps(k) < c[m]
      BY <2>2, <3>1
    <3>4. steps(m + 1) \in Nat /\ steps(m + 1) >= 1
      BY <3>1, <1>2
    <3>5. ASSUME NEW k \in 1..m + 1
          PROVE  steps(k) < c[m + 1]
      <4>1. CASE k = m + 1
        BY <4>1, <3>2, <3>3, <3>4
      <4>2. CASE k # m + 1
        <5>1. k \in 1..m /\ k \in 1..N
          BY <4>2, <3>1
        <5> QED BY <5>1, <3>2, <3>3, <3>4, <1>2
      <4> QED BY <4>1, <4>2
    <3> QED BY <3>2, <3>3, <3>4, <3>5
  <2>3. Nat \subseteq S
    <3> HIDE DEF S
    <3> QED BY <2>1, <2>2, SetInduction
  <2> QED BY <2>3, <1>1
<1> SUFFICES ASSUME NEW k \in 1..N
             PROVE  steps(k) \in 1..MaxSamples /\ Enough(steps(k), path[k], path[k + 1])
  BY DEF SegmentsOf, steps
<1>11. steps(k) \in Nat /\ steps(k) >= 1 /\ steps(k) <= MaxSamples
  <2>1. ~(c[N] > MaxSamples)
    BY <1>7
  <2>2. steps(k) \in Nat /\ steps(k) >= 1 /\ steps(k) < c[N] /\ c[N] \in Nat
    BY <1>2, <1>10
  <2> QED BY <2>1, <2>2, <1>1
<1>12. Enough(steps(k), path[k], path[k + 1])
  <2>1. path[k] \in Pose /\ path[k + 1] \in Pose /\ StepCount(path[k], path[k + 1]) <= MaxSamples
    BY <1>2, <1>11 DEF steps
  <2> QED BY <2>1, StepCountIs DEF steps
<1> QED BY <1>1, <1>11, <1>12

-----------------------------------------------------------------------------
LEMMA MulMono ==
  ASSUME NEW a \in Nat, NEW b \in Int, NEW c \in Int, b <= c
  PROVE  a * b <= a * c
OBVIOUS

LEMMA SquareOrder ==
  ASSUME NEW a \in Int, NEW b \in Nat
  PROVE  /\ a * a <= b * b => a <= b
         /\ a * a < b * b => a < b
         /\ -b <= a /\ a <= b => a * a <= b * b
         /\ a * a >= 0
<1>1. ASSUME a > b PROVE a * a > b * b
  BY <1>1
<1>2. ASSUME a >= b PROVE a * a >= b * b
  BY <1>2
<1>3. ASSUME -b <= a, a <= b PROVE a * a <= b * b
  <2>1. CASE a >= 0
    <3>1. a * a <= b * a /\ b * a <= b * b
      BY <1>3, <2>1
    <3> QED BY <3>1
  <2>2. CASE a < 0
    <3> DEFINE e == -a
    <3>1. e \in Nat /\ e <= b /\ a * a = e * e
      BY <1>3, <2>2
    <3> HIDE DEF e
    <3>2. e * e <= b * e /\ b * e <= b * b
      BY <3>1
    <3> QED BY <3>1, <3>2
  <2> QED BY <2>1, <2>2
<1>4. a * a >= 0
  OBVIOUS
<1>5. a * a \in Int /\ b * b \in Int
  OBVIOUS
<1> QED BY <1>1, <1>2, <1>3, <1>4, <1>5

LEMMA StrictProduct ==
  ASSUME NEW m \in Nat \ {0}, NEW a \in Int, NEW b \in Int
  PROVE  m * a < m * b <=> a < b
<1>1. ASSUME a < b PROVE m * a < m * b
  BY <1>1
<1>2. ASSUME a >= b PROVE m * a >= m * b
  BY <1>2
<1> QED BY <1>1, <1>2

\* The triangle inequality, for a point less than A / 2 away and another at most
\* B / 2 from it.
LEMMA Triangle ==
  ASSUME NEW P \in Nat, NEW Q \in Nat, NEW U \in Nat, NEW V \in Nat,
         NEW A \in Nat, NEW B \in Nat,
         4 * (P * P + Q * Q) < A * A, 4 * (U * U + V * V) <= B * B
  PROVE  4 * ((P + U) * (P + U) + (Q + V) * (Q + V)) < (A + B) * (A + B)
<1> DEFINE X == P * P + Q * Q
           Y == U * U + V * V
           C == P * U + Q * V
<1>1. C * C <= X * Y
  <2> DEFINE e == P * V - Q * U
  <2>1. e \in Int /\ e * e >= 0
    BY SquareOrder
  <2>2. X * Y = C * C + e * e
    OBVIOUS
  <2>3. C * C \in Int
    OBVIOUS
  <2> HIDE DEF e, C, X, Y
  <2>4. e * e \in Int
    BY <2>1
  <2> QED BY <2>1, <2>2, <2>3, <2>4
<1>2. X \in Nat /\ Y \in Nat /\ C \in Nat
  OBVIOUS
<1>3. 4 * X <= A * A /\ 4 * Y <= B * B
  OBVIOUS
<1>4. (P + U) * (P + U) + (Q + V) * (Q + V) = X + Y + 2 * C
  OBVIOUS
<1>5. 4 * X < A * A
  OBVIOUS
<1> HIDE DEF X, Y, C
<1>6. (4 * X) * (4 * Y) <= (A * A) * (B * B)
  <2>1. /\ 4 * X \in Nat /\ 4 * Y \in Nat /\ A * A \in Nat /\ B * B \in Nat
    BY <1>2
  <2> DEFINE x == 4 * X
             y == 4 * Y
             aa == A * A
             bb == B * B
  <2>2. x \in Nat /\ y \in Nat /\ aa \in Nat /\ bb \in Nat /\ x <= aa /\ y <= bb
    BY <2>1, <1>3
  <2> HIDE DEF x, y, aa, bb
  <2>3. x * y <= x * bb
    BY <2>2, MulMono
  <2>4. x * bb <= aa * bb
    <3>1. bb * x <= bb * aa
      BY <2>2, MulMono
    <3>2. x * bb = bb * x /\ aa * bb = bb * aa
      BY <2>2
    <3> QED BY <3>1, <3>2
  <2>5. x * y \in Int /\ x * bb \in Int /\ aa * bb \in Int
    BY <2>2
  <2>6. x * y <= aa * bb
    BY <2>3, <2>4, <2>5
  <2> QED BY <2>6 DEF x, y, aa, bb
<1>7. (4 * C) * (4 * C) <= (A * B) * (A * B)
  <2>1. (4 * C) * (4 * C) = 16 * (C * C) /\ (4 * X) * (4 * Y) = 16 * (X * Y)
    BY <1>2
  <2>2. (A * A) * (B * B) = (A * B) * (A * B)
    OBVIOUS
  <2>3. C * C \in Int /\ X * Y \in Int /\ (A * B) * (A * B) \in Int
    BY <1>2
  <2> QED BY <2>1, <2>2, <2>3, <1>1, <1>6
<1>8. 4 * C <= A * B
  <2>1. 4 * C \in Int /\ A * B \in Nat
    BY <1>2
  <2> QED BY <2>1, <1>7, SquareOrder
<1>9. (A + B) * (A + B) = A * A + B * B + 2 * (A * B)
  OBVIOUS
<1>10. A * A \in Int /\ B * B \in Int /\ A * B \in Int
  OBVIOUS
<1> QED BY <1>2, <1>3, <1>4, <1>5, <1>8, <1>9, <1>10

LEMMA Division ==
  ASSUME NEW x \in Int, NEW y \in Nat \ {0}
  PROVE  x \div y \in Int /\ y * (x \div y) <= x /\ x < y * (x \div y) + y
OBVIOUS

LEMMA BeyondType ==
  ASSUME NEW v \in Int, NEW a \in Int, NEW b \in Int, a <= b
  PROVE  Beyond(v, a, b) \in Nat
BY DEF Beyond

LEMMA BeyondScale ==
  ASSUME NEW m \in Nat \ {0}, NEW v \in Int, NEW a \in Int, NEW b \in Int, a <= b
  PROVE  Beyond(m * v, m * a, m * b) = m * Beyond(v, a, b)
<1>1. (m * v < m * a <=> v < a) /\ (m * b < m * v <=> b < v)
  BY StrictProduct
<1>2. m * v \in Int /\ m * a \in Int /\ m * b \in Int
  OBVIOUS
<1>3. CASE v < a
  <2>1. Beyond(v, a, b) = a - v /\ Beyond(m * v, m * a, m * b) = m * a - m * v
    BY <1>1, <1>3 DEF Beyond
  <2> QED BY <2>1
<1>4. CASE ~(v < a) /\ v > b
  <2>1. Beyond(v, a, b) = v - b /\ Beyond(m * v, m * a, m * b) = m * v - m * b
    BY <1>1, <1>2, <1>4 DEF Beyond
  <2> QED BY <2>1
<1>5. CASE ~(v < a) /\ ~(v > b)
  <2>1. Beyond(v, a, b) = 0 /\ Beyond(m * v, m * a, m * b) = 0
    BY <1>1, <1>2, <1>5 DEF Beyond
  <2> QED BY <2>1
<1> QED BY <1>3, <1>4, <1>5

LEMMA BeyondNear ==
  ASSUME NEW v \in Int, NEW w \in Int, NEW a \in Int, NEW b \in Int, a <= b,
         NEW e \in Nat, -e <= v - w, v - w <= e
  PROVE  Beyond(v, a, b) <= Beyond(w, a, b) + e
BY DEF Beyond

\* The two distances GapSq is made of.
GapX(s, c) == Beyond(s.x, c[1] * (s.of * Resolution), (c[1] + 1) * (s.of * Resolution))
GapY(s, c) == Beyond(s.y, c[2] * (s.of * Resolution), (c[2] + 1) * (s.of * Resolution))

Sample == [x : Int, y : Int, of : Nat \ {0}]

LEMMA CellTypes ==
  ASSUME NEW c \in Cells
  PROVE  c[1] \in Nat /\ c[2] \in Nat
BY ValidatorTypes DEF Cells

LEMMA SideOrder ==
  ASSUME NEW m \in Nat \ {0}, NEW k \in Nat
  PROVE  /\ m * Resolution \in Nat \ {0}
         /\ k * (m * Resolution) \in Nat /\ (k + 1) * (m * Resolution) \in Nat
         /\ (k + 1) * (m * Resolution) = k * (m * Resolution) + m * Resolution
<1>1. Resolution \in Nat \ {0}
  BY ValidatorTypes
<1>2. m * Resolution \in Nat \ {0}
  <2>1. m * Resolution >= 1 * Resolution
    BY <1>1
  <2> QED BY <1>1, <2>1
<1> DEFINE side == m * Resolution
<1> HIDE DEF side
<1>3. side \in Nat \ {0}
  BY <1>2 DEF side
<1>4. k * side \in Nat /\ (k + 1) * side \in Nat /\ (k + 1) * side = k * side + side
  BY <1>3
<1> QED BY <1>3, <1>4 DEF side

LEMMA GapParts ==
  ASSUME NEW s \in Sample, NEW c \in Cells
  PROVE  /\ GapX(s, c) \in Nat /\ GapY(s, c) \in Nat
         /\ GapSq(s, c) = GapX(s, c) * GapX(s, c) + GapY(s, c) * GapY(s, c)
<1>1. s.x \in Int /\ s.y \in Int /\ s.of \in Nat \ {0} /\ c[1] \in Nat /\ c[2] \in Nat
  BY CellTypes DEF Sample
<1>2. ASSUME NEW v \in Int, NEW k \in Nat
      PROVE  Beyond(v, k * (s.of * Resolution), (k + 1) * (s.of * Resolution)) \in Nat
  <2> DEFINE low == k * (s.of * Resolution)
             high == (k + 1) * (s.of * Resolution)
  <2>1. low \in Int /\ high \in Int /\ low <= high
    <3> DEFINE m == s.of
    <3>1. m \in Nat \ {0}
      BY <1>1
    <3> HIDE DEF m
    <3>2. /\ m * Resolution \in Nat
          /\ k * (m * Resolution) \in Nat /\ (k + 1) * (m * Resolution) \in Nat
          /\ (k + 1) * (m * Resolution) = k * (m * Resolution) + m * Resolution
      BY <3>1, SideOrder
    <3>3. k * (m * Resolution) <= (k + 1) * (m * Resolution)
      BY <3>2
    <3> QED BY <3>2, <3>3 DEF m
  <2> HIDE DEF low, high
  <2>2. Beyond(v, low, high) \in Nat
    BY <2>1, BeyondType
  <2> QED BY <2>2 DEF low, high
<1> QED BY <1>1, <1>2 DEF GapX, GapY, GapSq, Sq

LEMMA GapScale ==
  ASSUME NEW x \in Int, NEW y \in Int, NEW n \in Nat \ {0}, NEW m \in Nat \ {0}, NEW c \in Cells
  PROVE  LET s == [x |-> x, y |-> y, of |-> n]
             t == [x |-> m * x, y |-> m * y, of |-> m * n]
         IN  GapX(t, c) = m * GapX(s, c) /\ GapY(t, c) = m * GapY(s, c)
<1>1. c[1] \in Nat /\ c[2] \in Nat /\ Resolution \in Nat
  BY CellTypes, ValidatorTypes
<1>2. ASSUME NEW v \in Int, NEW k \in Nat
      PROVE  Beyond(m * v, k * ((m * n) * Resolution), (k + 1) * ((m * n) * Resolution))
               = m * Beyond(v, k * (n * Resolution), (k + 1) * (n * Resolution))
  <2> DEFINE low == k * (n * Resolution)
             high == (k + 1) * (n * Resolution)
  <2>1. low \in Int /\ high \in Int /\ low <= high
    BY <1>1, SideOrder
  <2>2. k * ((m * n) * Resolution) = m * low /\ (k + 1) * ((m * n) * Resolution) = m * high
    BY <1>1
  <2> HIDE DEF low, high
  <2>3. Beyond(m * v, m * low, m * high) = m * Beyond(v, low, high)
    BY <2>1, BeyondScale
  <2> QED BY <2>2, <2>3 DEF low, high
<1> QED BY <1>1, <1>2 DEF GapX, GapY

LEMMA GapNear ==
  ASSUME NEW s \in Sample, NEW t \in Sample, s.of = t.of, NEW c \in Cells,
         NEW e \in Nat, NEW f \in Nat,
         -e <= t.x - s.x, t.x - s.x <= e, -f <= t.y - s.y, t.y - s.y <= f
  PROVE  GapX(t, c) <= GapX(s, c) + e /\ GapY(t, c) <= GapY(s, c) + f
<1> DEFINE m == s.of
<1>1. /\ m \in Nat \ {0} /\ t.of = m /\ c[1] \in Nat /\ c[2] \in Nat
      /\ s.x \in Int /\ s.y \in Int /\ t.x \in Int /\ t.y \in Int
  BY CellTypes DEF Sample
<1>2. GapX(t, c) = Beyond(t.x, c[1] * (m * Resolution), (c[1] + 1) * (m * Resolution))
  BY <1>1 DEF GapX
<1>3. GapX(s, c) = Beyond(s.x, c[1] * (m * Resolution), (c[1] + 1) * (m * Resolution))
  BY <1>1 DEF GapX
<1>4. GapY(t, c) = Beyond(t.y, c[2] * (m * Resolution), (c[2] + 1) * (m * Resolution))
  BY <1>1 DEF GapY
<1>5. GapY(s, c) = Beyond(s.y, c[2] * (m * Resolution), (c[2] + 1) * (m * Resolution))
  BY <1>1 DEF GapY
<1> HIDE DEF m
<1>6. ASSUME NEW v \in Int, NEW w \in Int, NEW g \in Nat, -g <= v - w, v - w <= g, NEW k \in Nat
      PROVE  Beyond(v, k * (m * Resolution), (k + 1) * (m * Resolution))
               <= Beyond(w, k * (m * Resolution), (k + 1) * (m * Resolution)) + g
  <2> DEFINE low == k * (m * Resolution)
             high == (k + 1) * (m * Resolution)
  <2>1. m * Resolution \in Nat /\ low \in Nat /\ high \in Nat /\ high = low + m * Resolution
    BY <1>1, SideOrder
  <2> HIDE DEF low, high
  <2>2. low <= high
    BY <2>1
  <2>3. Beyond(v, low, high) <= Beyond(w, low, high) + g
    BY <1>6, <2>1, <2>2, BeyondNear
  <2> QED BY <2>3 DEF low, high
<1>7. GapX(t, c) <= GapX(s, c) + e
  <2>1. Beyond(t.x, c[1] * (m * Resolution), (c[1] + 1) * (m * Resolution))
          <= Beyond(s.x, c[1] * (m * Resolution), (c[1] + 1) * (m * Resolution)) + e
    BY <1>1, <1>6
  <2> QED BY <1>2, <1>3, <2>1
<1>8. GapY(t, c) <= GapY(s, c) + f
  <2>1. Beyond(t.y, c[2] * (m * Resolution), (c[2] + 1) * (m * Resolution))
          <= Beyond(s.y, c[2] * (m * Resolution), (c[2] + 1) * (m * Resolution)) + f
    BY <1>1, <1>6
  <2> QED BY <1>4, <1>5, <2>1
<1> QED BY <1>7, <1>8

\* The nearest of n steps to any point on the way is at most half a step away.
LEMMA NearestStep ==
  ASSUME NEW n \in Nat \ {0}, NEW d \in Nat \ {0}, NEW i \in 0..d
  PROVE  \E j \in 0..n : -d <= 2 * (j * d - i * n) /\ 2 * (j * d - i * n) <= d
<1> DEFINE T == {j \in Nat : 2 * (j * d) + d >= 2 * (i * n)}
<1>1. i * n \in Nat /\ i * n <= n * d
  <2>1. n * i <= n * d
    BY MulMono
  <2> QED BY <2>1
<1>2. PICK j \in T : \A k \in T : j <= k
  <2>1. n \in T
    BY <1>1
  <2>2. T \in SUBSET Nat
    OBVIOUS
  <2> HIDE DEF T
  <2> QED BY <2>1, <2>2, LeastElement
<1>3. j \in Nat /\ j <= n
  BY <1>1, <1>2
<1>4. j * d \in Nat /\ 2 * (j * d) + d >= 2 * (i * n)
  BY <1>2
<1>5. 2 * (j * d) <= 2 * (i * n) + d
  <2>1. CASE j = 0
    BY <2>1, <1>1
  <2>2. CASE j # 0
    <3>1. j - 1 \in Nat /\ j - 1 \notin T
      BY <2>2, <1>2, <1>3
    <3>2. 2 * ((j - 1) * d) + d < 2 * (i * n)
      <4>1. (j - 1) * d \in Nat
        BY <3>1
      <4> QED BY <3>1, <4>1, <1>1
    <3>3. (j - 1) * d = j * d - d
      BY <1>3
    <3> QED BY <3>2, <3>3, <1>1, <1>4
  <2> QED BY <2>1, <2>2
<1> QED BY <1>1, <1>3, <1>4, <1>5

LEMMA Distances ==
  ASSUME NEW a \in Pose, NEW b \in Pose
  PROVE  /\ Size(b.x - a.x) \in Nat /\ Size(b.y - a.y) \in Nat
         /\ DistanceSq(a, b) = Size(b.x - a.x) * Size(b.x - a.x) + Size(b.y - a.y) * Size(b.y - a.y)
<1>1. a.x \in Int /\ a.y \in Int /\ b.x \in Int /\ b.y \in Int
  BY ValidatorTypes
<1>2. \A v \in Int : Size(v) \in Nat /\ Size(v) * Size(v) = v * v
  BY DEF Size
<1> QED BY <1>1, <1>2 DEF DistanceSq, Sq

LEMMA PointTypes ==
  ASSUME NEW a \in Pose, NEW b \in Pose, NEW i \in Int, NEW n \in Nat \ {0}
  PROVE  /\ Point(a, b, i, n) \in Sample /\ Point(a, b, i, n).of = n
         /\ Point(a, b, i, n).x = n * a.x + i * (b.x - a.x)
         /\ Point(a, b, i, n).y = n * a.y + i * (b.y - a.y)
<1>1. a.x \in Int /\ a.y \in Int /\ b.x \in Int /\ b.y \in Int
  BY ValidatorTypes
<1> QED BY <1>1 DEF Point, Sample

\* Two points of a segment, brought to a common scale, are as far apart as their
\* shares of the way.
LEMMA PointsApart ==
  ASSUME NEW a \in Pose, NEW b \in Pose, NEW n \in Nat \ {0}, NEW d \in Nat \ {0},
         NEW i \in Nat, NEW j \in Nat, NEW e \in Nat,
         -e <= j * d - i * n, j * d - i * n <= e, NEW c \in Cells
  PROVE  LET s == Point(a, b, i, d)
             t == Point(a, b, j, n)
         IN  /\ d * GapX(t, c) <= n * GapX(s, c) + e * Size(b.x - a.x)
             /\ d * GapY(t, c) <= n * GapY(s, c) + e * Size(b.y - a.y)
<1> DEFINE s == Point(a, b, i, d)
           t == Point(a, b, j, n)
           S == [x |-> n * s.x, y |-> n * s.y, of |-> n * d]
           T == [x |-> d * t.x, y |-> d * t.y, of |-> d * n]
           q == j * d - i * n
<1>1. a.x \in Int /\ a.y \in Int /\ b.x \in Int /\ b.y \in Int
  BY ValidatorTypes
<1>2. /\ s.x \in Int /\ s.y \in Int /\ s.of = d /\ t.x \in Int /\ t.y \in Int /\ t.of = n
      /\ s = [x |-> s.x, y |-> s.y, of |-> d] /\ t = [x |-> t.x, y |-> t.y, of |-> n]
  BY <1>1 DEF Point
<1>3. /\ s.x = d * a.x + i * (b.x - a.x) /\ s.y = d * a.y + i * (b.y - a.y)
      /\ t.x = n * a.x + j * (b.x - a.x) /\ t.y = n * a.y + j * (b.y - a.y)
  BY PointTypes
<1>4. q \in Int /\ -e <= q /\ q <= e
  OBVIOUS
<1>5. ASSUME NEW u \in Int, NEW v \in Int
      PROVE  d * (n * u + j * (v - u)) - n * (d * u + i * (v - u)) = q * (v - u)
  OBVIOUS
<1>6. d * t.x - n * s.x = q * (b.x - a.x) /\ d * t.y - n * s.y = q * (b.y - a.y)
  BY <1>1, <1>3, <1>5
<1>7. ASSUME NEW v \in Int
      PROVE  /\ e * Size(v) \in Nat /\ -(e * Size(v)) <= q * v /\ q * v <= e * Size(v)
  <2> HIDE DEF q
  <2>1. CASE v >= 0
    <3>1. Size(v) = v
      BY <2>1 DEF Size
    <3>2. v * q <= v * e /\ v * (-e) <= v * q
      BY <2>1, <1>4, MulMono
    <3>3. v * q = q * v /\ v * e = e * v /\ v * (-e) = -(e * v) /\ e * v \in Nat
      BY <2>1, <1>4
    <3> QED BY <3>1, <3>2, <3>3
  <2>2. CASE v < 0
    <3> DEFINE w == -v
    <3>1. Size(v) = w /\ w \in Nat /\ v = -w
      BY <2>2 DEF Size
    <3> HIDE DEF w
    <3>2. w * q <= w * e /\ w * (-e) <= w * q
      BY <3>1, <1>4, MulMono
    <3>3. w * q = -(q * v) /\ w * e = e * w /\ w * (-e) = -(e * w) /\ e * w \in Nat /\ q * v \in Int
      BY <3>1, <1>4
    <3> QED BY <3>1, <3>2, <3>3
  <2> QED BY <2>1, <2>2
<1>8. /\ e * Size(b.x - a.x) \in Nat /\ e * Size(b.y - a.y) \in Nat
      /\ -(e * Size(b.x - a.x)) <= d * t.x - n * s.x /\ d * t.x - n * s.x <= e * Size(b.x - a.x)
      /\ -(e * Size(b.y - a.y)) <= d * t.y - n * s.y /\ d * t.y - n * s.y <= e * Size(b.y - a.y)
  <2>1. b.x - a.x \in Int /\ b.y - a.y \in Int
    BY <1>1
  <2> HIDE DEF q, s, t
  <2> QED BY <2>1, <1>6, <1>7
<1>9. GapX(S, c) = n * GapX(s, c) /\ GapY(S, c) = n * GapY(s, c)
  <2> HIDE DEF s
  <2> QED BY <1>2, GapScale
<1>10. GapX(T, c) = d * GapX(t, c) /\ GapY(T, c) = d * GapY(t, c)
  <2> HIDE DEF t
  <2> QED BY <1>2, GapScale
<1>11. S \in Sample /\ T \in Sample /\ S.of = T.of
  <2>1. n * d \in Nat \ {0} /\ d * n = n * d
    <3>1. n * d >= 1 * d
      OBVIOUS
    <3> QED BY <3>1
  <2>2. n * s.x \in Int /\ n * s.y \in Int /\ d * t.x \in Int /\ d * t.y \in Int
    <3> HIDE DEF s, t
    <3> QED BY <1>2
  <2> HIDE DEF s, t
  <2> QED BY <2>1, <2>2 DEF Sample
<1>12. S.x = n * s.x /\ S.y = n * s.y /\ T.x = d * t.x /\ T.y = d * t.y
  OBVIOUS
<1> HIDE DEF s, t, S, T, q
<1>13. GapX(T, c) <= GapX(S, c) + e * Size(b.x - a.x) /\ GapY(T, c) <= GapY(S, c) + e * Size(b.y - a.y)
  BY <1>8, <1>11, <1>12, GapNear
<1> QED BY <1>9, <1>10, <1>13 DEF s, t

LEMMA SampleReaches ==
  ASSUME NEW a \in Pose, NEW b \in Pose, NEW n \in Nat \ {0}, NEW d \in Nat \ {0}, NEW i \in 0..d,
         Sq(n * LinearStep) >= DistanceSq(a, b),
         NEW c \in Cells, Overlaps(Point(a, b, i, d), 2 * Radius - LinearStep, c)
  PROVE  \E j \in 0..n : GapSq(Point(a, b, j, n), c) < Sq(n * Radius)
<1> DEFINE s == Point(a, b, i, d)
           L == LinearStep
           D == 2 * Radius - L
<1>1. Radius \in Nat \ {0} /\ L \in Nat \ {0} /\ D \in Nat /\ D + L = 2 * Radius
  BY ValidatorTypes DEF Overlaps
<1>2. PICK j \in 0..n : -d <= 2 * (j * d - i * n) /\ 2 * (j * d - i * n) <= d
  BY NearestStep
<1> DEFINE t == Point(a, b, j, n)
           e == IF j * d >= i * n THEN j * d - i * n ELSE i * n - j * d
           dx == Size(b.x - a.x)
           dy == Size(b.y - a.y)
<1>3. e \in Nat /\ -e <= j * d - i * n /\ j * d - i * n <= e /\ 2 * e <= d
  <2>1. j * d \in Nat /\ i * n \in Nat
    OBVIOUS
  <2> QED BY <2>1, <1>2
<1>4. dx \in Nat /\ dy \in Nat /\ DistanceSq(a, b) = dx * dx + dy * dy
  BY Distances
<1>5. s \in Sample /\ s.of = d /\ t \in Sample /\ t.of = n
  BY PointTypes
<1>6. d * GapX(t, c) <= n * GapX(s, c) + e * dx /\ d * GapY(t, c) <= n * GapY(s, c) + e * dy
  <2> HIDE DEF e, dx, dy
  <2> QED BY <1>3, PointsApart DEF dx, dy
<1> DEFINE gx == GapX(s, c)
           gy == GapY(s, c)
           hx == GapX(t, c)
           hy == GapY(t, c)
<1>7. /\ gx \in Nat /\ gy \in Nat /\ GapSq(s, c) = gx * gx + gy * gy
      /\ hx \in Nat /\ hy \in Nat /\ GapSq(t, c) = hx * hx + hy * hy
  BY <1>5, GapParts
<1>8. 4 * (gx * gx + gy * gy) < (d * D) * (d * D)
  BY <1>5, <1>7 DEF Overlaps, Sq
<1>9. dx * dx + dy * dy <= (n * L) * (n * L)
  BY <1>1, <1>4 DEF Sq
<1> HIDE DEF s, t, L, D, e, dx, dy, gx, gy, hx, hy
<1> DEFINE P == n * gx
           Q == n * gy
           U == e * dx
           V == e * dy
           A == n * (d * D)
           B == d * (n * L)
<1>10. P \in Nat /\ Q \in Nat /\ U \in Nat /\ V \in Nat /\ A \in Nat /\ B \in Nat
  BY <1>1, <1>3, <1>4, <1>7
<1>11. 4 * (P * P + Q * Q) < A * A
  <2> DEFINE nn == n * n
             x == 4 * (gx * gx + gy * gy)
             y == (d * D) * (d * D)
  <2>1. nn \in Nat \ {0} /\ x \in Int /\ y \in Int /\ x < y
    <3>1. n * n >= 1 * n
      OBVIOUS
    <3>2. n * n \in Nat \ {0}
      BY <3>1
    <3> QED BY <3>2, <1>1, <1>7, <1>8
  <2>2. 4 * (P * P + Q * Q) = nn * x /\ A * A = nn * y
    BY <1>1, <1>7
  <2> HIDE DEF nn, x, y, P, Q, A
  <2> QED BY <2>1, <2>2, StrictProduct
<1>12. 4 * (U * U + V * V) <= B * B
  <2> DEFINE x == dx * dx + dy * dy
             y == (n * L) * (n * L)
             ee == (2 * e) * (2 * e)
             dd == d * d
  <2>1. x \in Nat /\ y \in Nat /\ ee \in Nat /\ dd \in Nat /\ x <= y
    BY <1>1, <1>3, <1>4, <1>9
  <2>2. ee <= dd
    <3>1. (2 * e) * (2 * e) <= d * (2 * e) /\ d * (2 * e) <= d * d
      BY <1>3
    <3>2. d * (2 * e) \in Int
      BY <1>3
    <3> QED BY <2>1, <3>1, <3>2
  <2>3. 4 * (U * U + V * V) = ee * x /\ B * B = dd * y
    BY <1>1, <1>3, <1>4
  <2> HIDE DEF x, y, ee, dd, U, V, B
  <2>4. ee * x <= ee * y
    BY <2>1, MulMono
  <2>5. y * ee <= y * dd /\ ee * y = y * ee /\ dd * y = y * dd
    BY <2>1, <2>2, MulMono
  <2>6. ee * x \in Int /\ ee * y \in Int /\ dd * y \in Int
    BY <2>1
  <2> QED BY <2>3, <2>4, <2>5, <2>6
<1>13. A + B = 2 * (d * (n * Radius))
  <2>1. A + B = (n * d) * (D + L)
    BY <1>1
  <2>2. (n * d) * (2 * Radius) = 2 * (d * (n * Radius))
    BY <1>1
  <2> QED BY <2>1, <2>2, <1>1
<1>14. d * hx <= P + U /\ d * hy <= Q + V
  BY <1>6 DEF gx, gy, hx, hy
<1> HIDE DEF P, Q, U, V, A, B
<1>15. 4 * ((P + U) * (P + U) + (Q + V) * (Q + V)) < (A + B) * (A + B)
  BY <1>10, <1>11, <1>12, Triangle
<1> DEFINE R == n * Radius
           m == d * hx
           k == d * hy
           pu == P + U
           qv == Q + V
<1>16. /\ m \in Nat /\ k \in Nat /\ pu \in Nat /\ qv \in Nat /\ R \in Nat
       /\ m <= pu /\ k <= qv
  BY <1>1, <1>7, <1>10, <1>14
<1>17. m * m <= pu * pu /\ k * k <= qv * qv
  <2> HIDE DEF m, k, pu, qv
  <2>1. -pu <= m /\ -qv <= k
    BY <1>16
  <2> QED BY <1>16, <2>1, SquareOrder
<1>18. (A + B) * (A + B) = 4 * ((d * R) * (d * R))
  <2>1. A + B = 2 * (d * R)
    BY <1>13
  <2>2. d * R \in Int
    BY <1>16
  <2> HIDE DEF R
  <2> QED BY <2>1, <2>2
<1>19. m * m + k * k < (d * R) * (d * R)
  <2> HIDE DEF m, k, R
  <2>1. m * m \in Int /\ k * k \in Int /\ pu * pu \in Int /\ qv * qv \in Int /\ (d * R) * (d * R) \in Int
    BY <1>16
  <2>2. 4 * (pu * pu + qv * qv) < 4 * ((d * R) * (d * R))
    BY <1>15, <1>18
  <2> HIDE DEF pu, qv
  <2> QED BY <2>1, <2>2, <1>17
<1>20. hx * hx + hy * hy < R * R
  <2> DEFINE dd == d * d
             x == hx * hx + hy * hy
             y == R * R
  <2>1. dd \in Nat \ {0}
    <3>1. d * d >= 1 * d
      OBVIOUS
    <3> QED BY <3>1
  <2>2. x \in Int /\ y \in Int
    BY <1>7, <1>16
  <2>3. m * m + k * k = dd * x /\ (d * R) * (d * R) = dd * y
    <3> HIDE DEF R
    <3> QED BY <1>7, <1>16
  <2> HIDE DEF dd, x, y, m, k, R
  <2>4. x < y
    BY <2>1, <2>2, <2>3, <1>19, StrictProduct
  <2> QED BY <2>4 DEF x, y
<1>21. GapSq(t, c) < Sq(n * Radius)
  BY <1>7, <1>20 DEF Sq
<1> QED BY <1>21 DEF t

\* A cell the disc at a sample reaches into is looked at.
LEMMA CellLookedAt ==
  ASSUME NEW s \in Sample, NEW c \in Cells, GapSq(s, c) < Sq(s.of * Radius)
  PROVE  c \in CellsOf(s)
<1> DEFINE m == s.of
           r == m * Radius
           side == m * Resolution
<1>1. /\ s.x \in Int /\ s.y \in Int /\ m \in Nat \ {0} /\ c[1] \in Nat /\ c[2] \in Nat
      /\ Radius \in Nat \ {0}
  BY CellTypes, ValidatorTypes DEF Sample
<1> HIDE DEF m
<1>2. r \in Nat /\ side \in Nat \ {0}
  <2>1. side \in Nat \ {0}
    BY <1>1, SideOrder, Zenon
  <2>2. r \in Nat
    BY <1>1
  <2> QED BY <2>1, <2>2
<1>3. /\ GapX(s, c) \in Nat /\ GapY(s, c) \in Nat
      /\ GapX(s, c) * GapX(s, c) + GapY(s, c) * GapY(s, c) < r * r
  BY GapParts DEF Sq, m
<1>4. GapX(s, c) < r /\ GapY(s, c) < r
  <2> DEFINE x == GapX(s, c)
             y == GapY(s, c)
  <2>1. x \in Nat /\ y \in Nat /\ x * x + y * y < r * r
    BY <1>3
  <2> HIDE DEF x, y, r
  <2>2. x * x >= 0 /\ y * y >= 0 /\ x * x \in Int /\ y * y \in Int /\ r * r \in Int
    BY <2>1, <1>2, SquareOrder
  <2>3. x * x < r * r /\ y * y < r * r
    BY <2>1, <2>2
  <2>4. x < r /\ y < r
    BY <2>1, <2>3, <1>2, SquareOrder
  <2> QED BY <2>4 DEF x, y
<1>5. ASSUME NEW v \in Int, NEW k \in Nat, Beyond(v, k * side, (k + 1) * side) < r
      PROVE  (v - r) \div side <= k /\ k <= (v + r) \div side
  <2> DEFINE low == k * side
             high == (k + 1) * side
             p == (v - r) \div side
             q == (v + r) \div side
  <2>1. low \in Int /\ high = low + side /\ low = side * k /\ high = side * (k + 1)
    BY <1>2
  <2>2. v - r < high /\ low < v + r
    <3>1. Beyond(v, low, high) < r
      BY <1>5
    <3> HIDE DEF low, high, side
    <3> QED BY <3>1, <2>1, <1>2 DEF Beyond
  <2>3. /\ p \in Int /\ side * p <= v - r
        /\ q \in Int /\ v + r < side * q + side
    <3>1. v - r \in Int /\ v + r \in Int
      BY <1>2
    <3> HIDE DEF side, r
    <3> QED BY <3>1, <1>2, Division
  <2> HIDE DEF p, q, low, high, side, r
  <2>4. side * p < side * (k + 1) /\ side * k < side * (q + 1)
    <3>1. side * (q + 1) = side * q + side
      BY <1>2, <2>3
    <3>2. side * p \in Int /\ side * q \in Int /\ v - r \in Int /\ v + r \in Int
      BY <1>2, <2>3
    <3> QED BY <3>1, <3>2, <2>1, <2>2, <2>3, <1>2
  <2>5. p < k + 1 /\ k < q + 1
    BY <2>3, <2>4, <1>2, StrictProduct
  <2> QED BY <2>3, <2>5 DEF p, q
<1>6. /\ (s.x - r) \div side <= c[1] /\ c[1] <= (s.x + r) \div side
      /\ (s.y - r) \div side <= c[2] /\ c[2] <= (s.y + r) \div side
  <2>1. /\ Beyond(s.x, c[1] * side, (c[1] + 1) * side) < r
        /\ Beyond(s.y, c[2] * side, (c[2] + 1) * side) < r
    BY <1>4 DEF GapX, GapY, m
  <2> HIDE DEF side, r
  <2> QED BY <2>1, <1>1, <1>5
<1>7. c[1] \in (s.x - r) \div side..(s.x + r) \div side /\ c[2] \in (s.y - r) \div side..(s.y + r) \div side
  <2>1. /\ (s.x - r) \div side \in Int /\ (s.x + r) \div side \in Int
        /\ (s.y - r) \div side \in Int /\ (s.y + r) \div side \in Int
    <3>1. s.x - r \in Int /\ s.x + r \in Int /\ s.y - r \in Int /\ s.y + r \in Int
      BY <1>1, <1>2
    <3> HIDE DEF side, r
    <3> QED BY <3>1, <1>2, Division
  <2> HIDE DEF side, r
  <2> QED BY <2>1, <1>1, <1>6
<1>8. GapSq(s, c) <= Sq(s.of * Radius)
  <2>1. GapSq(s, c) \in Int /\ Sq(s.of * Radius) \in Int
    BY <1>1, <1>3, GapParts DEF Sq, m
  <2> QED BY <2>1
<1> QED BY <1>7, <1>8 DEF CellsOf, m

\* The start of a segment is the end of the segment before it.
LEMMA EndsMeet ==
  ASSUME NEW a \in Pose, NEW b \in Pose, NEW z \in Pose, NEW n \in Nat \ {0}, NEW m \in Nat \ {0},
         NEW c \in Cells, GapSq(Point(b, z, 0, n), c) < Sq(n * Radius)
  PROVE  GapSq(Point(a, b, m, m), c) < Sq(m * Radius)
<1> DEFINE p == [x |-> b.x, y |-> b.y, of |-> 1]
           u == GapX(p, c)
           v == GapY(p, c)
           g == u * u + v * v
           rr == Radius * Radius
<1>1. a.x \in Int /\ a.y \in Int /\ b.x \in Int /\ b.y \in Int /\ z.x \in Int /\ z.y \in Int
  BY ValidatorTypes
<1>2. p \in Sample /\ u \in Nat /\ v \in Nat
  <2>1. p \in Sample
    BY <1>1 DEF Sample
  <2> HIDE DEF p
  <2> QED BY <2>1, GapParts
<1>3. ASSUME NEW k \in Nat \ {0}
      PROVE  /\ [x |-> k * b.x, y |-> k * b.y, of |-> k] \in Sample
             /\ GapSq([x |-> k * b.x, y |-> k * b.y, of |-> k], c) = (k * k) * g
             /\ Sq(k * Radius) = (k * k) * rr
  <2> DEFINE s == [x |-> k * b.x, y |-> k * b.y, of |-> k * 1]
  <2>1. s \in Sample
    BY <1>1 DEF Sample
  <2>2. GapX(s, c) = k * u /\ GapY(s, c) = k * v
    BY <1>1, GapScale
  <2>3. GapSq(s, c) = GapX(s, c) * GapX(s, c) + GapY(s, c) * GapY(s, c)
    <3> HIDE DEF s
    <3> QED BY <2>1, GapParts
  <2>4. GapSq(s, c) = (k * u) * (k * u) + (k * v) * (k * v)
    <3> HIDE DEF s, u, v
    <3> QED BY <2>2, <2>3
  <2>5. (k * u) * (k * u) + (k * v) * (k * v) = (k * k) * g
    <3> HIDE DEF u, v
    <3> QED BY <1>2
  <2>6. Radius \in Nat
    BY ValidatorTypes
  <2>7. Sq(k * Radius) = (k * k) * rr
    BY <2>6 DEF Sq
  <2>8. s = [x |-> k * b.x, y |-> k * b.y, of |-> k]
    OBVIOUS
  <2> HIDE DEF g, rr, u, v, s
  <2> QED BY <2>1, <2>4, <2>5, <2>7, <2>8
<1>4. Point(b, z, 0, n) = [x |-> n * b.x, y |-> n * b.y, of |-> n]
  BY <1>1 DEF Point
<1>5. Point(a, b, m, m) = [x |-> m * b.x, y |-> m * b.y, of |-> m]
  BY <1>1 DEF Point
<1>6. g \in Int /\ rr \in Int
  <2>1. Radius \in Nat
    BY ValidatorTypes
  <2> HIDE DEF u, v
  <2> QED BY <1>2, <2>1
<1> HIDE DEF g, rr, p
<1>7. (n * n) * g < (n * n) * rr
  BY <1>3, <1>4
<1>8. ASSUME NEW k \in Nat \ {0} PROVE k * k \in Nat \ {0}
  <2>1. k * k >= 1 * k
    OBVIOUS
  <2> QED BY <2>1
<1>9. g < rr
  BY <1>6, <1>7, <1>8, StrictProduct
<1>10. (m * m) * g < (m * m) * rr
  BY <1>6, <1>8, <1>9, StrictProduct
<1> QED BY <1>3, <1>5, <1>10

ReportInv ==
  /\ request \in Validations
  /\ result.status \in {"valid", "invalid"} =>
       ~TooManySamples(request.path) /\ result.invalid = InvalidSegments(request)

LEMMA ReportInductive == ValidationSpec => []ReportInv
<1>1. ValidationInit => ReportInv
  BY DEF ValidationInit, ReportInv, NoResult
<1>2. ReportInv /\ [ValidatePath]_validationVars => ReportInv'
  <2> SUFFICES ASSUME ReportInv, [ValidatePath]_validationVars
               PROVE  ReportInv'
    OBVIOUS
  <2>1. CASE UNCHANGED validationVars
    BY <2>1 DEF validationVars, ReportInv
  <2>2. CASE ValidatePath
    <3>1. request' = request
      BY <2>2 DEF ValidatePath
    <3>2. CASE TooManySamples(request.path)
      BY <2>2, <3>1, <3>2 DEF ValidatePath, ReportInv
    <3>3. CASE ~TooManySamples(request.path)
      <4>1. result'.invalid = InvalidSegments(request)
        BY <2>2, <3>3 DEF ValidatePath
      <4> QED BY <3>1, <3>3, <4>1 DEF ReportInv
    <3> QED BY <3>2, <3>3
  <2> QED BY <2>1, <2>2
<1> QED BY <1>1, <1>2, PTL DEF ValidationSpec

LEMMA RequestTypes ==
  ASSUME NEW input \in Validations
  PROVE  input.path \in Seq(Pose) /\ Len(input.path) >= 2
<1>1. PICK n \in 2..MaxPoses : input.path \in [1..n -> Pose]
  BY DEF Validations
<1>2. n \in Nat /\ n >= 2
  BY <1>1
<1>3. input.path \in Seq(Pose) /\ Len(input.path) = n
  <2> DEFINE path == input.path
  <2>1. path \in [1..n -> Pose]
    BY <1>1
  <2> HIDE DEF path
  <2>2. path \in Seq(Pose)
    BY <2>1, <1>2, SeqDef
  <2>3. Len(path) = n
    BY <2>1, <2>2, <1>2
  <2> QED BY <2>2, <2>3 DEF path
<1> QED BY <1>2, <1>3

\* Whatever blocked cell reaches that far into the footprint at any point of a
\* segment, at whatever fraction of the way: this segment or the one before it is
\* reported.
LEMMA BlockedIsReported ==
  ASSUME NEW input \in Validations, ~TooManySamples(input.path),
         NEW k \in SegmentsOf(input.path), NEW d \in Nat \ {0}, NEW i \in 0..d,
         NEW c \in Blocked(input),
         Overlaps(Point(input.path[k], input.path[k + 1], i, d), 2 * Radius - LinearStep, c)
  PROVE  {k - 1, k} \cap InvalidSegments(input) # {}
<1> DEFINE path == input.path
           a == path[k]
           b == path[k + 1]
           n == StepCount(a, b)
<1>1. path \in Seq(Pose) /\ Len(path) >= 2
  BY RequestTypes
<1>2. k \in 1..Len(path) - 1 /\ a \in Pose /\ b \in Pose
  BY <1>1 DEF SegmentsOf
<1>3. n \in Nat \ {0} /\ Sq(n * LinearStep) >= DistanceSq(a, b)
  <2>1. n \in 1..MaxSamples /\ Enough(n, a, b)
    BY <1>1, FewSamples
  <2> QED BY <2>1 DEF Enough
<1>4. c \in Cells /\ Blocks(input.grid[c], input.unknownCollides)
  BY DEF Blocked
<1>5. PICK j \in 0..n : GapSq(Point(a, b, j, n), c) < Sq(n * Radius)
  <2> HIDE DEF n, a, b
  <2> QED BY <1>2, <1>3, <1>4, SampleReaches DEF a, b
<1>6. ASSUME NEW s \in Sample, GapSq(s, c) < Sq(s.of * Radius)
      PROVE  Collides(s, input)
  BY <1>4, <1>6, CellLookedAt DEF Collides
<1>7. CASE k = 1 \/ j # 0
  <2>1. Point(a, b, j, n) \in Samples(path, k)
    BY <1>3, <1>7 DEF Samples
  <2>2. Point(a, b, j, n) \in Sample /\ Point(a, b, j, n).of = n
    <3> HIDE DEF n, a, b
    <3>1. j \in Int
      BY <1>3
    <3>2. a \in Pose /\ b \in Pose /\ n \in Nat \ {0}
      BY <1>2, <1>3
    <3>3. Point(a, b, j, n) \in Sample
      BY <3>1, <3>2, PointTypes
    <3>4. Point(a, b, j, n).of = n
      BY <3>1, <3>2, PointTypes
    <3> QED BY <3>3, <3>4
  <2>3. Collides(Point(a, b, j, n), input)
    <3> HIDE DEF n, a, b
    <3> QED BY <1>5, <1>6, <2>2
  <2>4. k \in InvalidSegments(input)
    BY <1>2, <2>1, <2>3 DEF InvalidSegments
  <2> QED BY <2>4
<1>8. CASE k # 1 /\ j = 0
  <2> DEFINE z == path[k - 1]
             m == StepCount(z, path[(k - 1) + 1])
  <2>1. k - 1 \in SegmentsOf(path) /\ (k - 1) + 1 = k /\ z \in Pose
    BY <1>1, <1>2, <1>8 DEF SegmentsOf
  <2>2. m \in 1..MaxSamples
    BY <1>1, <2>1, FewSamples
  <2>3. m \in Nat \ {0} /\ path[(k - 1) + 1] = a
    BY <2>1, <2>2
  <2>4. GapSq(Point(a, b, 0, n), c) < Sq(n * Radius)
    BY <1>5, <1>8
  <2>5. GapSq(Point(z, a, m, m), c) < Sq(m * Radius)
    <3> HIDE DEF a, b, n, z, m
    <3> QED BY <1>2, <1>3, <1>4, <2>1, <2>3, <2>4, EndsMeet
  <2>6. Point(z, a, m, m) \in Sample /\ Point(z, a, m, m).of = m
    <3> HIDE DEF a, b, n, z, m
    <3> QED BY <1>2, <2>1, <2>3, PointTypes
  <2>7. Collides(Point(z, a, m, m), input)
    <3> HIDE DEF a, b, n, z, m
    <3> QED BY <1>6, <2>5, <2>6
  <2>8. Point(z, a, m, m) \in Samples(path, k - 1)
    <3>1. m \in (IF k - 1 = 1 THEN 0 ELSE 1)..m
      BY <2>3
    <3>2. Samples(path, k - 1) = {Point(z, a, l, m) : l \in (IF k - 1 = 1 THEN 0 ELSE 1)..m}
      BY <2>3 DEF Samples
    <3> HIDE DEF m, z, a
    <3> QED BY <3>1, <3>2
  <2>9. k - 1 \in InvalidSegments(input)
    BY <2>1, <2>7, <2>8 DEF InvalidSegments, SegmentsOf
  <2> QED BY <2>9
<1> QED BY <1>7, <1>8

\* Nothing blocked near a segment: none of its samples collides.
LEMMA FreeBoxNoCollision ==
  ASSUME NEW input \in Validations, NEW a \in Pose, NEW b \in Pose, BoxIsFree(a, b, input),
         NEW n \in Nat \ {0}, NEW i \in 0..n
  PROVE  ~Collides(Point(a, b, i, n), input)
<1> DEFINE s == Point(a, b, i, n)
           h == n - i
<1>1. /\ a.x \in Int /\ a.y \in Int /\ b.x \in Int /\ b.y \in Int
      /\ Radius \in Nat \ {0} /\ Resolution \in Nat /\ Width \in Nat /\ Height \in Nat
  BY ValidatorTypes
<1>2. /\ s \in Sample /\ s.of = n /\ s.x \in Int /\ s.y \in Int
      /\ s.x = n * a.x + i * (b.x - a.x) /\ s.y = n * a.y + i * (b.y - a.y)
  BY PointTypes DEF Sample
<1> HIDE DEF s
<1>3. ASSUME NEW u \in Int, NEW v \in Int, NEW low \in Int, low <= u, low <= v
      PROVE  n * low <= n * u + i * (v - u)
  <2>1. h \in Nat /\ n = h + i
    OBVIOUS
  <2>2. h * low <= h * u /\ i * low <= i * v
    BY <2>1, <1>3, MulMono
  <2>3. n * low = h * low + i * low /\ n * u + i * (v - u) = h * u + i * v
    OBVIOUS
  <2>4. h * low \in Int /\ i * low \in Int /\ h * u \in Int /\ i * v \in Int
    OBVIOUS
  <2> HIDE DEF h
  <2> QED BY <2>2, <2>3, <2>4
<1>4. ASSUME NEW u \in Int, NEW v \in Int, NEW high \in Int, u <= high, v <= high
      PROVE  n * u + i * (v - u) <= n * high
  <2>1. h \in Nat /\ n = h + i
    OBVIOUS
  <2>2. h * u <= h * high /\ i * v <= i * high
    BY <2>1, <1>4, MulMono
  <2>3. n * high = h * high + i * high /\ n * u + i * (v - u) = h * u + i * v
    OBVIOUS
  <2>4. h * high \in Int /\ i * high \in Int /\ h * u \in Int /\ i * v \in Int
    OBVIOUS
  <2> HIDE DEF h
  <2> QED BY <2>2, <2>3, <2>4
<1> HIDE DEF h
<1>5. Covered(s, Radius)
  <2> DEFINE right == Width * Resolution - Radius
             top == Height * Resolution - Radius
  <2>1. right \in Int /\ top \in Int
    BY <1>1
  <2>2. /\ Radius <= a.x /\ a.x <= right /\ Radius <= a.y /\ a.y <= top
        /\ Radius <= b.x /\ b.x <= right /\ Radius <= b.y /\ b.y <= top
    <3>1. \A p \in {a, b} : Covered([x |-> p.x, y |-> p.y, of |-> 1], Radius)
      BY DEF BoxIsFree
    <3>2. \A p \in {a, b} : /\ p.x >= 1 * Radius /\ p.x <= 1 * right
                            /\ p.y >= 1 * Radius /\ p.y <= 1 * top
      BY <3>1 DEF Covered
    <3>3. 1 * Radius = Radius /\ 1 * right = right /\ 1 * top = top
      BY <1>1, <2>1
    <3> HIDE DEF right, top
    <3> QED BY <3>2, <3>3, <1>1
  <2>3. n * Radius <= s.x /\ s.x <= n * right /\ n * Radius <= s.y /\ s.y <= n * top
    <3> HIDE DEF right, top
    <3> QED BY <1>1, <1>2, <1>3, <1>4, <2>1, <2>2
  <2>4. Covered(s, Radius) = (/\ s.x >= s.of * Radius /\ s.x <= s.of * right
                              /\ s.y >= s.of * Radius /\ s.y <= s.of * top)
    BY DEF Covered
  <2> HIDE DEF right, top
  <2>5. n * Radius \in Int
    BY <1>1
  <2> QED BY <1>1, <1>2, <2>1, <2>3, <2>4, <2>5
<1>6. ASSUME NEW c \in Blocked(input)
      PROVE  c \notin CellsOf(s)
  <2> DEFINE r == n * Radius
             side == n * Resolution
             x1 == c[1] * side
             x2 == (c[1] + 1) * side
             y1 == c[2] * side
             y2 == (c[2] + 1) * side
  <2>1. c \in Cells /\ c[1] \in Nat /\ c[2] \in Nat
    BY CellTypes DEF Blocked
  <2>2. /\ r \in Nat /\ x1 \in Int /\ x2 \in Int /\ y1 \in Int /\ y2 \in Int
        /\ x1 = n * (c[1] * Resolution) /\ x2 = n * ((c[1] + 1) * Resolution)
        /\ y1 = n * (c[2] * Resolution) /\ y2 = n * ((c[2] + 1) * Resolution)
    BY <1>1, <2>1
  <2>6. x1 <= x2 /\ y1 <= y2
    <3>1. side \in Nat /\ x2 = x1 + side /\ y2 = y1 + side
      BY <2>1, SideOrder
    <3> HIDE DEF side, x1, x2, y1, y2
    <3> QED BY <2>2, <3>1
  <2>3. ASSUME NEW u \in Int, NEW v \in Int, NEW k \in Nat, NEW w \in Int,
               w = n * u + i * (v - u),
               (k + 1) * Resolution < LesserOf(u, v) - Radius \/ k * Resolution > GreaterOf(u, v) + Radius
        PROVE  n * ((k + 1) * Resolution) + r < w \/ w + r < n * (k * Resolution)
    <3> DEFINE up == (k + 1) * Resolution
               dn == k * Resolution
               lo == LesserOf(u, v)
               hi == GreaterOf(u, v)
    <3>1. up \in Int /\ dn \in Int /\ lo \in Int /\ hi \in Int /\ lo <= u /\ lo <= v /\ u <= hi /\ v <= hi
      BY <1>1 DEF LesserOf, GreaterOf
    <3>2. n * lo <= w /\ w <= n * hi
      <4> HIDE DEF lo, hi
      <4> QED BY <2>3, <3>1, <1>3, <1>4
    <3>3. CASE up < lo - Radius
      <4> HIDE DEF up, dn, lo, hi
      <4>1. n * (up + Radius) < n * lo
        BY <3>1, <3>3, <1>1, StrictProduct
      <4>2. n * (up + Radius) = n * up + r /\ n * up \in Int /\ n * lo \in Int
        BY <3>1, <1>1
      <4>3. n * up + r < w
        BY <3>2, <4>1, <4>2, <2>2
      <4> QED BY <4>3 DEF up
    <3>4. CASE dn > hi + Radius
      <4> HIDE DEF up, dn, lo, hi
      <4>1. n * (hi + Radius) < n * dn
        BY <3>1, <3>4, <1>1, StrictProduct
      <4>2. n * (hi + Radius) = n * hi + r /\ n * hi \in Int /\ n * dn \in Int
        BY <3>1, <1>1
      <4>3. w + r < n * dn
        BY <3>2, <4>1, <4>2, <2>2
      <4> QED BY <4>3 DEF dn
    <3> QED BY <2>3, <3>3, <3>4
  <2>4. (x2 + r < s.x \/ s.x + r < x1) \/ (y2 + r < s.y \/ s.y + r < y1)
    <3>1. \/ (c[1] + 1) * Resolution < LesserOf(a.x, b.x) - Radius
          \/ c[1] * Resolution > GreaterOf(a.x, b.x) + Radius
          \/ (c[2] + 1) * Resolution < LesserOf(a.y, b.y) - Radius
          \/ c[2] * Resolution > GreaterOf(a.y, b.y) + Radius
      BY DEF BoxIsFree
    <3> HIDE DEF x1, x2, y1, y2, r
    <3> QED BY <3>1, <1>1, <1>2, <2>1, <2>2, <2>3
  <2>5. ASSUME c \in CellsOf(s)
        PROVE  FALSE
    <3> DEFINE gx == GapX(s, c)
               gy == GapY(s, c)
    <3>1. gx \in Nat /\ gy \in Nat /\ gx * gx + gy * gy <= r * r
      <4>1. GapSq(s, c) <= Sq(s.of * Radius)
        BY <2>5 DEF CellsOf
      <4>2. gx \in Nat /\ gy \in Nat /\ GapSq(s, c) = gx * gx + gy * gy
        BY <1>2, <2>1, GapParts
      <4> QED BY <4>1, <4>2, <1>2 DEF Sq
    <3>2. gx = Beyond(s.x, x1, x2) /\ gy = Beyond(s.y, y1, y2)
      BY <1>2 DEF GapX, GapY
    <3> HIDE DEF gx, gy, x1, x2, y1, y2, r
    <3>3. gx * gx >= 0 /\ gy * gy >= 0 /\ gx * gx \in Int /\ gy * gy \in Int /\ r * r \in Int
      BY <3>1, <2>2, SquareOrder
    <3>4. gx * gx <= r * r /\ gy * gy <= r * r
      BY <3>1, <3>3
    <3>5. gx <= r /\ gy <= r
      BY <3>1, <3>4, <2>2, SquareOrder
    <3>6. CASE x2 + r < s.x \/ s.x + r < x1
      <4>1. gx > r
        BY <3>2, <3>6, <2>2, <2>6, <1>2 DEF Beyond
      <4> QED BY <3>1, <3>5, <4>1, <2>2
    <3>7. CASE y2 + r < s.y \/ s.y + r < y1
      <4>1. gy > r
        BY <3>2, <3>7, <2>2, <2>6, <1>2 DEF Beyond
      <4> QED BY <3>1, <3>5, <4>1, <2>2
    <3> QED BY <2>4, <3>6, <3>7
  <2> QED BY <2>5
<1>7. ASSUME NEW c \in CellsOf(s)
      PROVE  ~Blocks(input.grid[c], input.unknownCollides)
  <2>1. c \in Cells
    BY DEF CellsOf
  <2> QED BY <2>1, <1>6 DEF Blocked
<1> QED BY <1>5, <1>7 DEF Collides, s

LEMMA ReportVouches ==
  ASSUME ReportInv
  PROVE  SamplesAreEnough
<1> SUFFICES ASSUME result.status \in {"valid", "invalid"}, NEW k \in SegmentsOf(request.path)
             PROVE  /\ {k - 1, k} \cap result.invalid = {} =>
                         \A s \in PointsOf(request.path, k), c \in Blocked(request) :
                           ~Overlaps(s, 2 * Radius - LinearStep, c)
                    /\ k \in result.invalid /\ BoxIsFree(request.path[k], request.path[k + 1], request) =>
                         TooTight(request.path[k], request.path[k + 1])
  BY DEF SamplesAreEnough
<1>1. /\ request \in Validations /\ ~TooManySamples(request.path)
      /\ result.invalid = InvalidSegments(request)
  BY DEF ReportInv
<1>2. ASSUME {k - 1, k} \cap result.invalid = {},
             NEW s \in PointsOf(request.path, k), NEW c \in Blocked(request)
      PROVE  ~Overlaps(s, 2 * Radius - LinearStep, c)
  <2>1. PICK i \in 0..24 : s = Point(request.path[k], request.path[k + 1], i, 24)
    BY DEF PointsOf
  <2>2. 24 \in Nat \ {0}
    OBVIOUS
  <2> QED BY <1>1, <1>2, <2>1, <2>2, BlockedIsReported
<1>3. ASSUME k \in result.invalid, BoxIsFree(request.path[k], request.path[k + 1], request)
      PROVE  TooTight(request.path[k], request.path[k + 1])
  <2> DEFINE a == request.path[k]
             b == request.path[k + 1]
             n == StepCount(a, b)
  <2>1. request.path \in Seq(Pose) /\ Len(request.path) >= 2
    BY <1>1, RequestTypes
  <2>2. a \in Pose /\ b \in Pose
    BY <2>1 DEF SegmentsOf
  <2>3. n \in Nat \ {0}
    <3>1. n \in 1..MaxSamples + 1 /\ MaxSamples \in Nat
      BY <2>2, StepCountIs, ValidatorTypes
    <3> QED BY <3>1
  <2>4. ASSUME NEW s \in Samples(request.path, k)
        PROVE  ~Collides(s, request)
    <3>1. PICK i \in (IF k = 1 THEN 0 ELSE 1)..n : s = Point(a, b, i, n)
      BY DEF Samples
    <3>2. i \in 0..n
      BY <2>3, <3>1
    <3> HIDE DEF a, b, n
    <3> QED BY <1>1, <1>3, <2>2, <2>3, <3>1, <3>2, FreeBoxNoCollision DEF a, b
  <2> QED BY <1>1, <1>3, <2>4 DEF InvalidSegments
<1> QED BY <1>2, <1>3

\* The report of a path vouches for what lies between its samples, and reports
\* nothing that is free, on any costmap and at every point the check looks at.
THEOREM SamplesAlwaysEnough == ValidationSpec => []SamplesAreEnough
BY ReportInductive, ReportVouches, PTL

\* The same for every point of a segment, at any fraction i / d of the way: the 24
\* parts of SamplesAreEnough are a bound of the check, not of the claim.
THEOREM ClearBetweenSamples ==
  ValidationSpec =>
    [](result.status \in {"valid", "invalid"} =>
         \A k \in SegmentsOf(request.path) :
           {k - 1, k} \cap result.invalid = {} =>
             \A d \in Nat \ {0} : \A i \in 0..d : \A c \in Blocked(request) :
               ~Overlaps(Point(request.path[k], request.path[k + 1], i, d),
                         2 * Radius - LinearStep, c))
<1> DEFINE Clear == result.status \in {"valid", "invalid"} =>
         \A k \in SegmentsOf(request.path) :
           {k - 1, k} \cap result.invalid = {} =>
             \A d \in Nat \ {0} : \A i \in 0..d : \A c \in Blocked(request) :
               ~Overlaps(Point(request.path[k], request.path[k + 1], i, d),
                         2 * Radius - LinearStep, c)
<1>1. ReportInv => Clear
  BY BlockedIsReported DEF ReportInv
<1> QED BY <1>1, ReportInductive, PTL

-----------------------------------------------------------------------------
(* The labels of a planned path.  The components drawn one after the other *)
(* and the path made of them differ only by points that are doubled, which *)
(* have no length: so both have the same cumulative lengths, and an        *)
(* interval's middle lies in the interval it was made of.                  *)

LEMMA SumsCompute ==
  ASSUME NEW f \in Seq(Nat)
  PROVE  /\ Sums(f) \in [0 .. Len(f) -> Nat]
         /\ Sums(f)[0] = 0
         /\ \A k \in 1 .. Len(f) : Sums(f)[k] = Sums(f)[k - 1] + f[k]
<1> DEFINE N == Len(f)
           step == [x \in (1 .. N) \X Nat |-> x[2] + f[x[1]]]
           eq(g) == g = [k \in 0 .. N |-> IF k = 0 THEN 0 ELSE g[k - 1] + f[k]]
<1>1. N \in Nat /\ 0 \in Nat
  OBVIOUS
<1>2. step \in [(1 .. N) \X Nat -> Nat]
  <2> SUFFICES ASSUME NEW x \in (1 .. N) \X Nat
               PROVE  x[2] + f[x[1]] \in Nat
    OBVIOUS
  <2>1. x[1] \in 1 .. N /\ x[2] \in Nat
    OBVIOUS
  <2>2. f[x[1]] \in Nat
    BY <2>1
  <2> QED BY <2>1, <2>2
<1>3. \E g : Computes(g, Nat, 0, N, step)
  <2> HIDE DEF N, step
  <2> QED BY <1>1, <1>2, Recursion, Zenon
<1>4. PICK g : Computes(g, Nat, 0, N, step)
  BY <1>3
<1>5. g \in [0 .. N -> Nat] /\ g[0] = 0 /\ \A k \in 1 .. N : g[k] = g[k - 1] + f[k]
  <2>1. g \in [0 .. N -> Nat] /\ g[0] = 0 /\ \A k \in 1 .. N : g[k] = step[<<k, g[k - 1]>>]
    BY <1>4 DEF Computes
  <2>2. ASSUME NEW k \in 1 .. N
        PROVE  g[k] = g[k - 1] + f[k]
    <3>1. k - 1 \in 0 .. N
      OBVIOUS
    <3>2. g[k - 1] \in Nat
      BY <2>1, <3>1
    <3>3. step[<<k, g[k - 1]>>] = g[k - 1] + f[k]
      BY <3>2
    <3> QED BY <3>3, <2>1
  <2> QED BY <2>1, <2>2
<1>6. eq(g)
  <2>1. ASSUME NEW k \in 0 .. N
        PROVE  g[k] = IF k = 0 THEN 0 ELSE g[k - 1] + f[k]
    BY <1>5
  <2> QED BY <1>5, <2>1
<1>7. eq(Sums(f))
  <2>1. Sums(f) = CHOOSE h : eq(h)
    BY Zenon DEF Sums
  <2> HIDE DEF eq
  <2> QED BY <1>6, <2>1, Zenon
<1>8. ASSUME NEW h, eq(h)
      PROVE  \A k \in 0 .. N : h[k] = g[k]
  <2> DEFINE S == {k \in Nat : k \in 0 .. N => h[k] = g[k]}
  <2>0. \A k \in 0 .. N : h[k] = IF k = 0 THEN 0 ELSE h[k - 1] + f[k]
    BY <1>8
  <2>1. 0 \in S
    BY <1>5, <2>0
  <2>2. ASSUME NEW k \in Nat, k \in S PROVE k + 1 \in S
    <3> SUFFICES ASSUME k + 1 \in 0 .. N PROVE h[k + 1] = g[k + 1]
      OBVIOUS
    <3>1. k \in 0 .. N /\ k + 1 \in 1 .. N /\ (k + 1) - 1 = k
      OBVIOUS
    <3>2. h[k] = g[k]
      BY <2>2, <3>1
    <3>3. h[k + 1] = h[k] + f[k + 1]
      BY <2>0, <3>1
    <3>4. g[k + 1] = g[k] + f[k + 1]
      BY <1>5, <3>1
    <3> QED BY <3>2, <3>3, <3>4, Zenon
  <2>3. Nat \subseteq S
    <3> HIDE DEF S
    <3> QED BY <2>1, <2>2, SetInduction
  <2> QED BY <2>3
<1>9. Sums(f) = g
  <2>1. \A k \in 0 .. N : Sums(f)[k] = g[k]
    <3> HIDE DEF eq
    <3> QED BY <1>7, <1>8
  <2>2. Sums(f) = [k \in 0 .. N |-> Sums(f)[k]]
    <3>1. ASSUME NEW h, eq(h) PROVE h = [k \in 0 .. N |-> h[k]]
      BY <3>1
    <3> HIDE DEF eq
    <3> QED BY <1>7, <3>1
  <2> QED BY <2>1, <2>2, <1>5
<1> QED BY <1>5, <1>9

LEMMA SumsMonotone ==
  ASSUME NEW f \in Seq(Nat), NEW j \in 0 .. Len(f), NEW k \in j .. Len(f)
  PROVE  Sums(f)[j] <= Sums(f)[k]
<1> DEFINE s == Sums(f)
           S == {m \in Nat : j + m <= Len(f) => s[j] <= s[j + m]}
<1>1. s \in [0 .. Len(f) -> Nat] /\ \A i \in 1 .. Len(f) : s[i] = s[i - 1] + f[i]
  BY SumsCompute
<1> HIDE DEF s
<1>2. 0 \in S
  <2>1. j + 0 = j /\ s[j] \in Nat
    BY <1>1
  <2> QED BY <2>1
<1>3. ASSUME NEW m \in Nat, m \in S PROVE m + 1 \in S
  <2> SUFFICES ASSUME j + (m + 1) <= Len(f) PROVE s[j] <= s[j + (m + 1)]
    OBVIOUS
  <2>1. j + (m + 1) \in 1 .. Len(f) /\ (j + (m + 1)) - 1 = j + m /\ j + m \in 0 .. Len(f)
    OBVIOUS
  <2>2. s[j + (m + 1)] = s[j + m] + f[j + (m + 1)]
    BY <1>1, <2>1
  <2>3. f[j + (m + 1)] \in Nat /\ s[j + m] \in Nat /\ s[j] \in Nat
    <3>1. f[j + (m + 1)] \in Nat
      BY <2>1, ElementOfSeq
    <3> QED BY <3>1, <1>1, <2>1
  <2>4. s[j] <= s[j + m]
    BY <1>3, <2>1
  <2> QED BY <2>2, <2>3, <2>4
<1>4. Nat \subseteq S
  <2> HIDE DEF S
  <2> QED BY <1>2, <1>3, SetInduction
<1>5. k - j \in Nat /\ j + (k - j) = k
  OBVIOUS
<1> QED BY <1>4, <1>5 DEF s

LEMMA SumsConcat ==
  ASSUME NEW f \in Seq(Nat), NEW g \in Seq(Nat)
  PROVE  /\ \A k \in 0 .. Len(f) : Sums(f \o g)[k] = Sums(f)[k]
         /\ \A m \in 0 .. Len(g) : Sums(f \o g)[Len(f) + m] = Sums(f)[Len(f)] + Sums(g)[m]
<1> DEFINE h == f \o g
           s == Sums(f)
           t == Sums(g)
           u == Sums(h)
           S == {k \in Nat : k <= Len(f) => u[k] = s[k]}
           T == {m \in Nat : m <= Len(g) => u[Len(f) + m] = s[Len(f)] + t[m]}
<1>1. h \in Seq(Nat) /\ Len(h) = Len(f) + Len(g)
      /\ (\A k \in 1 .. Len(f) : h[k] = f[k]) /\ \A m \in 1 .. Len(g) : h[Len(f) + m] = g[m]
  OBVIOUS
<1> HIDE DEF h
<1>2. /\ s \in [0 .. Len(f) -> Nat] /\ s[0] = 0 /\ \A i \in 1 .. Len(f) : s[i] = s[i - 1] + f[i]
      /\ t \in [0 .. Len(g) -> Nat] /\ t[0] = 0 /\ \A i \in 1 .. Len(g) : t[i] = t[i - 1] + g[i]
      /\ u \in [0 .. Len(h) -> Nat] /\ u[0] = 0 /\ \A i \in 1 .. Len(h) : u[i] = u[i - 1] + h[i]
  BY <1>1, SumsCompute
<1> HIDE DEF s, t, u
<1>3. 0 \in S
  BY <1>2
<1>4. ASSUME NEW k \in Nat, k \in S PROVE k + 1 \in S
  <2> SUFFICES ASSUME k + 1 <= Len(f) PROVE u[k + 1] = s[k + 1]
    OBVIOUS
  <2>1. k + 1 \in 1 .. Len(f) /\ k + 1 \in 1 .. Len(h) /\ (k + 1) - 1 = k
    BY <1>1
  <2>2. u[k + 1] = u[k] + h[k + 1] /\ s[k + 1] = s[k] + f[k + 1]
    BY <1>2, <2>1
  <2>3. h[k + 1] = f[k + 1] /\ u[k] = s[k]
    BY <1>1, <1>4, <2>1
  <2> QED BY <2>2, <2>3
<1>5. Nat \subseteq S
  <2> HIDE DEF S
  <2> QED BY <1>3, <1>4, SetInduction
<1>6. 0 \in T
  <2>1. Len(f) + 0 = Len(f) /\ Len(f) \in Nat /\ s[Len(f)] \in Nat
    <3>1. Len(f) \in Nat
      OBVIOUS
    <3>2. Len(f) \in 0 .. Len(f) /\ Len(f) + 0 = Len(f)
      BY <3>1
    <3> QED BY <3>1, <3>2, <1>2
  <2>2. u[Len(f)] = s[Len(f)]
    BY <2>1, <1>5
  <2> QED BY <1>2, <2>1, <2>2
<1>7. ASSUME NEW m \in Nat, m \in T PROVE m + 1 \in T
  <2> SUFFICES ASSUME m + 1 <= Len(g) PROVE u[Len(f) + (m + 1)] = s[Len(f)] + t[m + 1]
    OBVIOUS
  <2>1. m + 1 \in 1 .. Len(g) /\ Len(f) + (m + 1) \in 1 .. Len(h) /\ (m + 1) - 1 = m
        /\ (Len(f) + (m + 1)) - 1 = Len(f) + m
    BY <1>1
  <2>2. u[Len(f) + (m + 1)] = u[Len(f) + m] + h[Len(f) + (m + 1)] /\ t[m + 1] = t[m] + g[m + 1]
    BY <1>2, <2>1
  <2>3. h[Len(f) + (m + 1)] = g[m + 1] /\ u[Len(f) + m] = s[Len(f)] + t[m]
    <3>1. m <= Len(g)
      BY <1>1, <2>1
    <3>2. u[Len(f) + m] = s[Len(f)] + t[m]
      BY <1>7, <3>1
    <3>3. h[Len(f) + (m + 1)] = g[m + 1]
      BY <1>1, <2>1
    <3> QED BY <3>2, <3>3
  <2>4. s[Len(f)] \in Nat /\ t[m] \in Nat /\ g[m + 1] \in Nat
    <3>1. g[m + 1] \in Nat
      BY <2>1, ElementOfSeq
    <3>2. Len(f) \in Nat /\ Len(g) \in Nat
      OBVIOUS
    <3>3. Len(f) \in 0 .. Len(f) /\ m \in 0 .. Len(g)
      BY <3>2
    <3> QED BY <3>1, <3>3, <1>2
  <2> QED BY <2>2, <2>3, <2>4
<1>8. Nat \subseteq T
  <2> HIDE DEF T
  <2> QED BY <1>6, <1>7, SetInduction
<1> QED BY <1>5, <1>8 DEF s, t, u, h

LEMMA DistanceNat ==
  ASSUME NEW p \in Int, NEW q \in Int
  PROVE  Distance(p, q) \in Nat /\ (Distance(p, q) = 0 <=> p = q)
BY DEF Distance

LEMMA StepsConcat ==
  ASSUME NEW s \in Seq(Int), s # <<>>, NEW t \in Seq(Int), t # <<>>
  PROVE  /\ Steps(s) \in Seq(Nat) /\ Len(Steps(s)) = Len(s) - 1
         /\ Steps(s \o t) = (Steps(s) \o <<Distance(s[Len(s)], t[1])>>) \o Steps(t)
<1>1. \A r \in Seq(Int) : r # <<>> =>
         Len(r) \in Nat \ {0} /\ Steps(r) \in Seq(Nat) /\ Len(Steps(r)) = Len(r) - 1
         /\ \A i \in 1 .. Len(r) - 1 : Steps(r)[i] = Distance(r[i], r[i + 1])
  <2> TAKE r \in Seq(Int)
  <2> HAVE r # <<>>
  <2>1. Len(r) \in Nat \ {0}
    BY EmptySeq
  <2>2. \A i \in 1 .. Len(r) - 1 : Distance(r[i], r[i + 1]) \in Nat
    <3> TAKE i \in 1 .. Len(r) - 1
    <3>1. r[i] \in Int /\ r[i + 1] \in Int
      BY <2>1, ElementOfSeq
    <3> QED BY <3>1, DistanceNat
  <2> QED BY <2>1, <2>2 DEF Steps
<1> DEFINE d == Distance(s[Len(s)], t[1])
           a == Steps(s \o t)
           b == (Steps(s) \o <<d>>) \o Steps(t)
<1>2. s \o t \in Seq(Int) /\ s \o t # <<>> /\ Len(s \o t) = Len(s) + Len(t)
  <2>1. Len(s \o t) # 0
    BY <1>1
  <2> QED BY <2>1
<1>3. d \in Nat
  <2>1. Len(s) \in 1 .. Len(s) /\ 1 \in 1 .. Len(t)
    BY <1>1
  <2>2. s[Len(s)] \in Int /\ t[1] \in Int
    BY <2>1, ElementOfSeq
  <2> QED BY <2>2, DistanceNat
<1>4. Steps(s) \in Seq(Nat) /\ Steps(t) \in Seq(Nat) /\ a \in Seq(Nat)
      /\ Len(Steps(s)) = Len(s) - 1 /\ Len(Steps(t)) = Len(t) - 1 /\ Len(a) = Len(s) + Len(t) - 1
      /\ Len(s) \in Nat \ {0} /\ Len(t) \in Nat \ {0}
  <2> HIDE DEF a
  <2>1. Len(a) = Len(s \o t) - 1 /\ a \in Seq(Nat)
    BY <1>1, <1>2 DEF a
  <2> QED BY <1>1, <1>2, <2>1
<1> DEFINE A == Steps(s)
           B == Steps(t)
           E == A \o <<d>>
<1>5. A \in Seq(Nat) /\ Len(A) = Len(s) - 1 /\ B \in Seq(Nat) /\ Len(B) = Len(t) - 1 /\ b = E \o B
  BY <1>4
<1>a. \A i \in 1 .. Len(s) + Len(t) : (s \o t)[i] = IF i <= Len(s) THEN s[i] ELSE t[i - Len(s)]
  BY ConcatProperties, Zenon
<1>b. /\ a \in Seq(Nat) /\ \A i \in 1 .. Len(a) : a[i] = Distance((s \o t)[i], (s \o t)[i + 1])
      /\ \A i \in 1 .. Len(s) - 1 : A[i] = Distance(s[i], s[i + 1])
      /\ \A i \in 1 .. Len(t) - 1 : B[i] = Distance(t[i], t[i + 1])
  BY <1>1, <1>2, <1>4
<1> HIDE DEF a, b, d, A, B
<1>c. E \in Seq(Nat) /\ Len(E) = Len(s)
      /\ \A i \in 1 .. Len(s) : E[i] = IF i < Len(s) THEN A[i] ELSE d
  <2>1. <<d>> \in Seq(Nat) /\ Len(<<d>>) = 1 /\ <<d>>[1] = d
    BY <1>3
  <2>2. E \in Seq(Nat) /\ Len(E) = Len(A) + 1
        /\ \A i \in 1 .. Len(A) + 1 : E[i] = IF i <= Len(A) THEN A[i] ELSE <<d>>[i - Len(A)]
    BY <2>1, <1>5, ConcatProperties
  <2> HIDE DEF E
  <2>3. ASSUME NEW i \in 1 .. Len(s) PROVE E[i] = IF i < Len(s) THEN A[i] ELSE d
    <3>1. CASE i < Len(s)
      <4>1. i \in 1 .. Len(A) + 1 /\ i <= Len(A)
        BY <3>1, <1>4, <1>5
      <4> QED BY <4>1, <2>2, <3>1
    <3>2. CASE i = Len(s)
      <4>1. i \in 1 .. Len(A) + 1 /\ ~(i <= Len(A)) /\ i - Len(A) = 1
        BY <3>2, <1>4, <1>5
      <4> QED BY <4>1, <2>1, <2>2, <3>2
    <3> QED BY <3>1, <3>2, <1>4
  <2> QED BY <2>2, <2>3, <1>4, <1>5
<1> HIDE DEF E
<1>d. b \in Seq(Nat) /\ Len(b) = Len(s) + Len(t) - 1
      /\ \A i \in 1 .. Len(b) : b[i] = IF i <= Len(s) THEN E[i] ELSE B[i - Len(s)]
  <2>1. E \o B \in Seq(Nat) /\ Len(E \o B) = Len(E) + Len(B)
        /\ \A i \in 1 .. Len(E) + Len(B) : (E \o B)[i] = IF i <= Len(E) THEN E[i] ELSE B[i - Len(E)]
    <3>1. E \in Seq(Nat) /\ B \in Seq(Nat)
      BY <1>5, <1>c
    <3> QED BY <3>1, ConcatProperties
  <2>2. Len(E) + Len(B) = Len(s) + Len(t) - 1
    BY <1>4, <1>5, <1>c
  <2> QED BY <2>1, <2>2, <1>5, <1>c
<1>6. ASSUME NEW i \in 1 .. Len(a) PROVE a[i] = b[i]
  <2>n. Len(s) \in Nat /\ Len(t) \in Nat
    OBVIOUS
  <2>0. i \in 1 .. Len(b) /\ i \in 1 .. Len(s) + Len(t) - 1 /\ i \in 1 .. Len(s) + Len(t)
        /\ i + 1 \in 1 .. Len(s) + Len(t)
    BY <1>4, <1>d
  <2>1. a[i] = Distance((s \o t)[i], (s \o t)[i + 1])
    BY <1>b
  <2>2. CASE i < Len(s)
    <3>0. i \in 1 .. Len(s) - 1 /\ i \in 1 .. Len(s) /\ i <= Len(s) /\ i + 1 <= Len(s)
      BY <2>2, <2>0, <2>n
    <3>1. b[i] = A[i]
      BY <3>0, <2>0, <2>2, <1>c, <1>d
    <3>2. A[i] = Distance(s[i], s[i + 1])
      BY <1>b, <3>0
    <3>3. (s \o t)[i] = s[i] /\ (s \o t)[i + 1] = s[i + 1]
      BY <1>a, <2>0, <3>0
    <3> QED BY <2>1, <3>1, <3>2, <3>3
  <2>3. CASE i = Len(s)
    <3>0. i <= Len(s) /\ ~(i + 1 <= Len(s)) /\ ~(i < Len(s)) /\ (i + 1) - Len(s) = 1 /\ i \in 1 .. Len(s)
      <4> DEFINE m == Len(s)
      <4>1. m \in Nat \ {0}
        BY <1>4
      <4>2. i = m
        BY <2>3
      <4> HIDE DEF m
      <4>3. i <= m /\ ~(i + 1 <= m) /\ ~(i < m) /\ (i + 1) - m = 1 /\ i \in 1 .. m
        BY <4>1, <4>2
      <4> QED BY <4>3 DEF m
    <3>1. b[i] = d
      BY <3>0, <2>0, <1>c, <1>d
    <3>2. (s \o t)[i] = s[Len(s)] /\ (s \o t)[i + 1] = t[1]
      BY <1>a, <2>0, <3>0, <2>3
    <3> QED BY <2>1, <3>1, <3>2 DEF d
  <2>4. CASE i > Len(s)
    <3>0. /\ i - Len(s) \in 1 .. Len(t) - 1 /\ ~(i <= Len(s)) /\ ~(i + 1 <= Len(s))
          /\ (i + 1) - Len(s) = (i - Len(s)) + 1
      BY <2>4, <2>0, <2>n
    <3>1. b[i] = B[i - Len(s)]
      BY <3>0, <2>0, <1>d
    <3>2. B[i - Len(s)] = Distance(t[i - Len(s)], t[(i - Len(s)) + 1])
      BY <1>b, <3>0
    <3>3. (s \o t)[i] = t[i - Len(s)] /\ (s \o t)[i + 1] = t[(i - Len(s)) + 1]
      BY <1>a, <2>0, <3>0
    <3>4. a[i] = Distance(t[i - Len(s)], t[(i - Len(s)) + 1])
      BY <2>1, <3>3
    <3> HIDE DEF a, b, B, d
    <3> QED BY <3>1, <3>2, <3>4, Zenon
  <2>5. i < Len(s) \/ i = Len(s) \/ i > Len(s)
    <3>1. i \in Int
      BY <2>0, <2>n
    <3> DEFINE m == Len(s)
    <3>2. m \in Int
      BY <2>n
    <3> HIDE DEF m
    <3>3. i < m \/ i = m \/ i > m
      BY <3>1, <3>2
    <3> QED BY <3>3 DEF m
  <2> QED BY <2>2, <2>3, <2>4, <2>5, Zenon
<1>7. a = b
  <2>1. Len(a) = Len(b)
    BY <1>4, <1>d
  <2> QED BY <1>b, <1>d, <1>6, <2>1, SeqEqual
<1> QED BY <1>4, <1>7 DEF a, b, d

\* A point at a joint that is left out takes no length away.
LEMMA StepsOnce ==
  ASSUME NEW s \in Seq(Int), s # <<>>, NEW t \in Seq(Int), t # <<>>, s[Len(s)] = t[1]
  PROVE  Steps(s \o Tail(t)) = Steps(s) \o Steps(t)
<1> DEFINE u == s \o Tail(t)
           a == Steps(u)
           A == Steps(s)
           B == Steps(t)
           b == A \o B
<1>n. Len(s) \in Nat \ {0} /\ Len(t) \in Nat \ {0}
  BY EmptySeq
<1>t. Tail(t) \in Seq(Int) /\ Len(Tail(t)) = Len(t) - 1 /\ \A i \in 1 .. Len(t) - 1 : Tail(t)[i] = t[i + 1]
  BY <1>n, HeadTailProperties
<1>u. u \in Seq(Int) /\ Len(u) = Len(s) + Len(t) - 1
      /\ \A i \in 1 .. Len(s) + Len(t) - 1 : u[i] = IF i <= Len(s) THEN s[i] ELSE t[(i - Len(s)) + 1]
  <2>1. u \in Seq(Int) /\ Len(u) = Len(s) + Len(Tail(t))
        /\ \A i \in 1 .. Len(s) + Len(Tail(t)) : u[i] = IF i <= Len(s) THEN s[i] ELSE Tail(t)[i - Len(s)]
    <3>1. s \in Seq(Int) /\ Tail(t) \in Seq(Int)
      BY <1>t
    <3> QED BY <3>1, ConcatProperties
  <2> HIDE DEF u
  <2>2. Len(s) + Len(Tail(t)) = Len(s) + Len(t) - 1
    BY <1>n, <1>t
  <2>3. ASSUME NEW i \in 1 .. Len(s) + Len(t) - 1, ~(i <= Len(s))
        PROVE  Tail(t)[i - Len(s)] = t[(i - Len(s)) + 1]
    <3>1. i - Len(s) \in 1 .. Len(t) - 1
      BY <1>n, <2>3
    <3> QED BY <3>1, <1>t
  <2> QED BY <2>1, <2>2, <2>3
<1>e. u # <<>>
  <2>1. Len(u) # 0
    <3> HIDE DEF u
    <3> QED BY <1>u, <1>n
  <2> QED BY <2>1
<1>1. \A r \in Seq(Int) : r # <<>> =>
        Steps(r) \in Seq(Nat) /\ Len(Steps(r)) = Len(r) - 1
        /\ \A i \in 1 .. Len(r) - 1 : Steps(r)[i] = Distance(r[i], r[i + 1])
  <2> TAKE r \in Seq(Int)
  <2> HAVE r # <<>>
  <2>1. Len(r) \in Nat \ {0}
    BY EmptySeq
  <2>2. Steps(r) \in Seq(Nat) /\ Len(Steps(r)) = Len(r) - 1
    BY StepsConcat
  <2> QED BY <2>1, <2>2 DEF Steps
<1>a. /\ a \in Seq(Nat) /\ Len(a) = Len(s) + Len(t) - 2
      /\ \A i \in 1 .. Len(s) + Len(t) - 2 : a[i] = Distance(u[i], u[i + 1])
  <2> HIDE DEF u
  <2>1. a \in Seq(Nat) /\ Len(a) = Len(u) - 1 /\ \A i \in 1 .. Len(u) - 1 : a[i] = Distance(u[i], u[i + 1])
    BY <1>1, <1>e, <1>u
  <2>2. Len(u) - 1 = Len(s) + Len(t) - 2
    BY <1>u, <1>n
  <2> QED BY <2>1, <2>2
<1>A. /\ A \in Seq(Nat) /\ Len(A) = Len(s) - 1 /\ \A i \in 1 .. Len(s) - 1 : A[i] = Distance(s[i], s[i + 1])
      /\ B \in Seq(Nat) /\ Len(B) = Len(t) - 1 /\ \A i \in 1 .. Len(t) - 1 : B[i] = Distance(t[i], t[i + 1])
  BY <1>1
<1> HIDE DEF a, A, B, u
<1>b. /\ b \in Seq(Nat) /\ Len(b) = Len(s) + Len(t) - 2
      /\ \A i \in 1 .. Len(s) + Len(t) - 2 : b[i] = IF i < Len(s) THEN A[i] ELSE B[(i - Len(s)) + 1]
  <2>1. b \in Seq(Nat) /\ Len(b) = Len(A) + Len(B)
        /\ \A i \in 1 .. Len(A) + Len(B) : b[i] = IF i <= Len(A) THEN A[i] ELSE B[i - Len(A)]
    <3>1. A \in Seq(Nat) /\ B \in Seq(Nat)
      BY <1>A
    <3> QED BY <3>1, ConcatProperties
  <2> HIDE DEF b
  <2>2. Len(A) + Len(B) = Len(s) + Len(t) - 2
    BY <1>n, <1>A
  <2>3. ASSUME NEW i \in 1 .. Len(s) + Len(t) - 2
        PROVE  (i <= Len(A) <=> i < Len(s)) /\ i - Len(A) = (i - Len(s)) + 1
    BY <1>n, <1>A
  <2> QED BY <2>1, <2>2, <2>3
<1> HIDE DEF b
<1>6. ASSUME NEW i \in 1 .. Len(s) + Len(t) - 2 PROVE a[i] = b[i]
  <2>0. i \in 1 .. Len(s) + Len(t) - 1 /\ i + 1 \in 1 .. Len(s) + Len(t) - 1
    BY <1>n
  <2>1. a[i] = Distance(u[i], u[i + 1])
    BY <1>a
  <2>2. CASE i < Len(s)
    <3>0. i \in 1 .. Len(s) - 1 /\ i <= Len(s) /\ i + 1 <= Len(s)
      BY <2>2, <1>n
    <3>1. b[i] = A[i] /\ A[i] = Distance(s[i], s[i + 1])
      BY <3>0, <2>2, <1>b, <1>A
    <3>2. u[i] = s[i] /\ u[i + 1] = s[i + 1]
      BY <1>u, <2>0, <3>0
    <3> QED BY <2>1, <3>1, <3>2
  <2>3. CASE i >= Len(s)
    <3>0. (i - Len(s)) + 1 \in 1 .. Len(t) - 1 /\ ~(i < Len(s)) /\ ~(i + 1 <= Len(s))
          /\ (i + 1) - Len(s) = (i - Len(s)) + 1
      BY <2>3, <1>n
    <3>1. b[i] = B[(i - Len(s)) + 1] /\ B[(i - Len(s)) + 1] = Distance(t[(i - Len(s)) + 1], t[((i - Len(s)) + 1) + 1])
      BY <3>0, <1>b, <1>A
    <3>2. u[i + 1] = t[((i - Len(s)) + 1) + 1]
      BY <1>u, <2>0, <3>0
    <3>3. u[i] = t[(i - Len(s)) + 1]
      <4>1. CASE i = Len(s)
        <5>1. i <= Len(s) /\ (i - Len(s)) + 1 = 1
          BY <4>1, <1>n
        <5>2. u[i] = s[Len(s)]
          BY <5>1, <4>1, <1>u, <2>0
        <5> QED BY <5>1, <5>2
      <4>2. CASE i > Len(s)
        <5>1. ~(i <= Len(s))
          BY <4>2, <1>n
        <5> QED BY <5>1, <1>u, <2>0
      <4> QED BY <4>1, <4>2, <2>3, <1>n
    <3> QED BY <2>1, <3>1, <3>2, <3>3
  <2> QED BY <2>2, <2>3, <1>n
<1>7. a = b
  <2>1. Len(a) = Len(b) /\ \A i \in 1 .. Len(a) : a[i] = b[i]
    BY <1>a, <1>b, <1>6
  <2> QED BY <1>a, <1>b, <2>1, SeqEqual
<1> QED BY <1>7 DEF a, b, A, B, u

----------------------------------------------------------------------------
Parts == [kind : {"SWATH", "CONNECTION"}, id : Nat, points : Seq(Int) \ {<<>>}]
Labels == [kind : {"SWATH", "CONNECTION"}, id : Nat] \cup {<<>>}
Flats == [points : Seq(Int), labels : Seq(Labels), last : Labels]

Fits(x) == x \in Flats /\ x.points # <<>> /\ Len(x.labels) = Len(x.points) - 1

LEMMA PartTypes ==
  ASSUME NEW c \in Parts
  PROVE  /\ c.points \in Seq(Int) /\ c.points # <<>> /\ Label(c) \in Labels
         /\ Len(c.points) \in Nat \ {0}
         /\ [i \in 1 .. Len(c.points) - 1 |-> Label(c)] \in Seq(Labels)
         /\ Len([i \in 1 .. Len(c.points) - 1 |-> Label(c)]) = Len(c.points) - 1
<1>1. c.points \in Seq(Int) /\ c.points # <<>> /\ Label(c) \in Labels
  BY DEF Parts, Labels, Label
<1>2. Len(c.points) \in Nat \ {0}
  BY <1>1, EmptySeq
<1>3. Len(c.points) - 1 \in Nat
  BY <1>2
<1> QED BY <1>1, <1>2, <1>3

LEMMA JoinedFirst ==
  ASSUME NEW c \in Parts, NEW once \in BOOLEAN
  PROVE  LET y == Joined(NoFlat, c, once)
         IN  y.points = c.points /\ y.last = Label(c) /\ Fits(y)
             /\ \A i \in DOMAIN y.labels : y.labels[i] = Label(c)
<1> DEFINE y == Joined(NoFlat, c, once)
<1>1. y = [points |-> c.points, labels |-> [i \in 1 .. Len(c.points) - 1 |-> Label(c)], last |-> Label(c)]
  BY DEF Joined, NoFlat
<1> HIDE DEF y
<1>2. y \in Flats
  BY <1>1, PartTypes DEF Flats
<1>3. Len(y.labels) = Len(y.points) - 1
  BY <1>1, PartTypes
<1>4. \A i \in DOMAIN y.labels : y.labels[i] = Label(c)
  BY <1>1
<1> QED BY <1>1, <1>2, <1>3, <1>4, PartTypes DEF Fits, y

Measure(x) == Sums(Steps(x.points))

\* y is x, then a step of the length g unless b leaves none, then the component c.
Continues(x, c, y, b, g) ==
  /\ Fits(y) /\ y.last = Label(c)
  /\ y.points[1] = x.points[1] /\ y.points[Len(y.points)] = c.points[Len(c.points)]
  /\ Len(y.labels) = b + Len(c.points) - 1
  /\ \A k \in 1 .. Len(x.labels) : y.labels[k] = x.labels[k]
  /\ \A k \in 0 .. Len(x.labels) : Measure(y)[k] = Measure(x)[k]
  /\ \A m \in 0 .. Len(c.points) - 1 :
       Measure(y)[b + m] = (Measure(x)[Len(x.labels)] + g) + Measure(c)[m]
  /\ \A m \in 1 .. Len(c.points) - 1 : y.labels[b + m] = Label(c)

LEMMA MeasureTypes ==
  ASSUME NEW s \in Seq(Int), s # <<>>
  PROVE  /\ Steps(s) \in Seq(Nat) /\ Len(Steps(s)) = Len(s) - 1 /\ Len(s) \in Nat \ {0}
         /\ Sums(Steps(s)) \in [0 .. Len(s) - 1 -> Nat] /\ Sums(Steps(s))[0] = 0
         /\ \A k \in 1 .. Len(s) - 1 : Sums(Steps(s))[k] = Sums(Steps(s))[k - 1] + Distance(s[k], s[k + 1])
<1>1. Steps(s) \in Seq(Nat) /\ Len(Steps(s)) = Len(s) - 1
  BY StepsConcat
<1>2. Len(s) \in Nat \ {0}
  BY EmptySeq
<1>3. \A k \in 1 .. Len(s) - 1 : Steps(s)[k] = Distance(s[k], s[k + 1])
  BY DEF Steps
<1> QED BY <1>1, <1>2, <1>3, SumsCompute

\* A component that begins where the flat path ends goes on from there.
LEMMA JoinedOnce ==
  ASSUME NEW x, Fits(x), NEW c \in Parts, NEW once \in BOOLEAN,
         once, x.points[Len(x.points)] = c.points[1]
  PROVE  Continues(x, c, Joined(x, c, once), Len(x.labels), 0)
<1> DEFINE y == Joined(x, c, once)
           inside == [i \in 1 .. Len(c.points) - 1 |-> Label(c)]
<1>x. /\ x.points \in Seq(Int) /\ x.points # <<>> /\ x.labels \in Seq(Labels) /\ x.last \in Labels
      /\ Len(x.labels) = Len(x.points) - 1 /\ Len(x.points) \in Nat \ {0} /\ Len(x.labels) \in Nat
  <2>1. x.points \in Seq(Int) /\ x.points # <<>> /\ x.labels \in Seq(Labels) /\ x.last \in Labels
        /\ Len(x.labels) = Len(x.points) - 1
    BY DEF Fits, Flats
  <2> QED BY <2>1, EmptySeq
<1>c. c.points \in Seq(Int) /\ c.points # <<>> /\ Label(c) \in Labels /\ Len(c.points) \in Nat \ {0}
      /\ inside \in Seq(Labels) /\ Len(inside) = Len(c.points) - 1
  BY PartTypes
<1>n. /\ Len(x.points) \in Nat /\ Len(x.points) >= 1 /\ Len(c.points) \in Nat /\ Len(c.points) >= 1
      /\ Len(x.labels) \in Nat /\ Len(inside) \in Nat
      /\ Len(x.points) = Len(x.labels) + 1 /\ Len(c.points) = Len(inside) + 1
  BY <1>x, <1>c
<1>y. /\ y.points = x.points \o Tail(c.points) /\ y.labels = x.labels \o inside /\ y.last = Label(c)
      /\ y = [points |-> x.points \o Tail(c.points), labels |-> x.labels \o inside, last |-> Label(c)]
  BY <1>x DEF Joined, Last
<1>t. Tail(c.points) \in Seq(Int) /\ Len(Tail(c.points)) = Len(c.points) - 1
      /\ \A i \in 1 .. Len(c.points) - 1 : Tail(c.points)[i] = c.points[i + 1]
  BY <1>c, HeadTailProperties
<1>p. /\ y.points \in Seq(Int) /\ Len(y.points) = Len(x.points) + Len(c.points) - 1
      /\ \A i \in 1 .. Len(x.points) + Len(c.points) - 1 :
           y.points[i] = IF i <= Len(x.points) THEN x.points[i] ELSE Tail(c.points)[i - Len(x.points)]
  <2> DEFINE u == x.points \o Tail(c.points)
  <2>1. u \in Seq(Int) /\ Len(u) = Len(x.points) + Len(Tail(c.points))
        /\ \A i \in 1 .. Len(x.points) + Len(Tail(c.points)) :
             u[i] = IF i <= Len(x.points) THEN x.points[i] ELSE Tail(c.points)[i - Len(x.points)]
    <3>1. x.points \in Seq(Int) /\ Tail(c.points) \in Seq(Int)
      BY <1>t, <1>x
    <3> QED BY <3>1, ConcatProperties
  <2>2. y.points = u
    BY <1>y
  <2> HIDE DEF u, y
  <2>3. Len(x.points) + Len(Tail(c.points)) = Len(x.points) + Len(c.points) - 1
    BY <1>t, <1>x, <1>c
  <2> QED BY <2>1, <2>2, <2>3
<1>l. /\ y.labels \in Seq(Labels) /\ Len(y.labels) = Len(x.labels) + Len(c.points) - 1
      /\ \A i \in 1 .. Len(x.labels) : y.labels[i] = x.labels[i]
      /\ \A m \in 1 .. Len(c.points) - 1 : y.labels[Len(x.labels) + m] = Label(c)
  <2> DEFINE u == x.labels \o inside
  <2>0. \A m \in 1 .. Len(c.points) - 1 : inside[m] = Label(c)
    OBVIOUS
  <2>1. u \in Seq(Labels) /\ Len(u) = Len(x.labels) + Len(inside)
        /\ \A i \in 1 .. Len(x.labels) + Len(inside) :
             u[i] = IF i <= Len(x.labels) THEN x.labels[i] ELSE inside[i - Len(x.labels)]
    <3> HIDE DEF inside
    <3>1. x.labels \in Seq(Labels) /\ inside \in Seq(Labels)
      BY <1>c, <1>x
    <3> QED BY <3>1, ConcatProperties
  <2>2. y.labels = u
    BY <1>y
  <2> HIDE DEF u, y, inside
  <2>3. ASSUME NEW i \in 1 .. Len(x.labels) PROVE u[i] = x.labels[i]
    <3>1. i \in 1 .. Len(x.labels) + Len(inside) /\ i <= Len(x.labels)
      BY <1>n
    <3> QED BY <3>1, <2>1
  <2>4. ASSUME NEW m \in 1 .. Len(c.points) - 1 PROVE u[Len(x.labels) + m] = Label(c)
    <3>1. Len(x.labels) + m \in 1 .. Len(x.labels) + Len(inside) /\ ~(Len(x.labels) + m <= Len(x.labels))
          /\ (Len(x.labels) + m) - Len(x.labels) = m
      BY <1>n
    <3> QED BY <3>1, <2>1, <2>0
  <2>5. Len(x.labels) + Len(inside) = Len(x.labels) + Len(c.points) - 1
    BY <1>x, <1>c
  <2> QED BY <2>1, <2>2, <2>3, <2>4, <2>5
<1>s. /\ Steps(y.points) = Steps(x.points) \o Steps(c.points)
      /\ Steps(x.points) \in Seq(Nat) /\ Steps(c.points) \in Seq(Nat)
      /\ Len(Steps(x.points)) = Len(x.labels) /\ Len(Steps(c.points)) = Len(c.points) - 1
  BY <1>x, <1>c, <1>y, StepsOnce, MeasureTypes
<1>m. /\ \A k \in 0 .. Len(x.labels) : Measure(y)[k] = Measure(x)[k]
      /\ \A m \in 0 .. Len(c.points) - 1 :
           Measure(y)[Len(x.labels) + m] = Measure(x)[Len(x.labels)] + Measure(c)[m]
  <2> DEFINE a == Steps(x.points)
             d == Steps(c.points)
  <2>1. a \in Seq(Nat) /\ d \in Seq(Nat) /\ Len(a) = Len(x.labels) /\ Len(d) = Len(c.points) - 1
        /\ Measure(y) = Sums(a \o d) /\ Measure(x) = Sums(a) /\ Measure(c) = Sums(d)
    BY <1>s DEF Measure
  <2> HIDE DEF y, a, d
  <2>2. /\ \A k \in 0 .. Len(a) : Sums(a \o d)[k] = Sums(a)[k]
        /\ \A m \in 0 .. Len(d) : Sums(a \o d)[Len(a) + m] = Sums(a)[Len(a)] + Sums(d)[m]
    BY <2>1, SumsConcat
  <2> QED BY <2>1, <2>2
<1>z. Measure(x)[Len(x.labels)] + 0 = Measure(x)[Len(x.labels)]
  <2>1. Measure(x) \in [0 .. Len(x.points) - 1 -> Nat]
    BY <1>x, MeasureTypes DEF Measure
  <2>2. Len(x.labels) \in 0 .. Len(x.points) - 1
    BY <1>x
  <2> QED BY <2>1, <2>2
<1>f. Fits(y)
  <2> HIDE DEF inside
  <2>1. y \in Flats
    <3>1. x.points \o Tail(c.points) \in Seq(Int) /\ x.labels \o inside \in Seq(Labels)
      BY <1>p, <1>l, <1>y
    <3> QED BY <1>y, <1>c, <3>1 DEF Flats
  <2> HIDE DEF y
  <2>2. Len(y.points) # 0 /\ Len(y.labels) = Len(y.points) - 1
    <3>1. Len(y.points) = Len(x.points) + Len(c.points) - 1
      BY <1>p
    <3>2. Len(y.labels) = Len(x.labels) + Len(c.points) - 1
      BY <1>l
    <3> QED BY <3>1, <3>2, <1>n
  <2> QED BY <2>1, <2>2 DEF Fits
<1>e. y.points[1] = x.points[1] /\ y.points[Len(y.points)] = c.points[Len(c.points)]
  <2> HIDE DEF y, inside
  <2>1. 1 \in 1 .. Len(x.points) + Len(c.points) - 1 /\ 1 <= Len(x.points)
    BY <1>n
  <2>2. CASE Len(c.points) = 1
    <3>1. Len(y.points) = Len(x.points)
          /\ Len(x.points) \in 1 .. Len(x.points) + Len(c.points) - 1 /\ Len(x.points) <= Len(x.points)
      BY <2>2, <1>p, <1>x
    <3>2. y.points[Len(y.points)] = x.points[Len(x.points)]
      BY <3>1, <1>p
    <3> QED BY <3>2, <2>1, <1>p, <2>2
  <2>3. CASE Len(c.points) > 1
    <3>1. /\ Len(x.points) + Len(c.points) - 1 \in 1 .. Len(x.points) + Len(c.points) - 1
          /\ ~(Len(x.points) + Len(c.points) - 1 <= Len(x.points))
          /\ (Len(x.points) + Len(c.points) - 1) - Len(x.points) = Len(c.points) - 1
          /\ Len(c.points) - 1 \in 1 .. Len(c.points) - 1 /\ (Len(c.points) - 1) + 1 = Len(c.points)
      BY <2>3, <1>n
    <3>2. y.points[Len(y.points)] = Tail(c.points)[Len(c.points) - 1]
      BY <3>1, <1>p
    <3>3. Tail(c.points)[Len(c.points) - 1] = c.points[Len(c.points)]
      BY <3>1, <1>t
    <3>4. y.points[1] = x.points[1]
      BY <2>1, <1>p
    <3> QED BY <3>2, <3>3, <3>4, Zenon
  <2>4. Len(c.points) \in Nat /\ Len(c.points) >= 1
    BY <1>n
  <2>5. Len(c.points) = 1 \/ Len(c.points) > 1
    <3> DEFINE C == Len(c.points)
    <3>1. C \in Nat /\ C >= 1
      BY <2>4
    <3> HIDE DEF C
    <3>2. C = 1 \/ C > 1
      BY <3>1
    <3> QED BY <3>2 DEF C
  <2> QED BY <2>2, <2>3, <2>5, Zenon
<1> QED
  <2> HIDE DEF inside
  <2>1. y.last = Label(c)
    BY <1>y
  <2> HIDE DEF y
  <2>2. Continues(x, c, y, Len(x.labels), 0)
    BY <1>f, <2>1, <1>e, <1>l, <1>m, <1>z DEF Continues
  <2> QED BY <2>2 DEF y

\* Otherwise a bridge comes first, with the label of the connection beside it.
LEMMA JoinedBridge ==
  ASSUME NEW x, Fits(x), NEW c \in Parts, NEW once \in BOOLEAN,
         ~(once /\ x.points[Len(x.points)] = c.points[1])
  PROVE  LET y == Joined(x, c, once)
         IN  /\ Continues(x, c, y, Len(x.labels) + 1,
                          Distance(x.points[Len(x.points)], c.points[1]))
             /\ y.labels[Len(x.labels) + 1] = IF c.kind = "CONNECTION" THEN Label(c) ELSE x.last
<1> DEFINE y == Joined(x, c, once)
           g == Distance(x.points[Len(x.points)], c.points[1])
           bridge == IF c.kind = "CONNECTION" THEN Label(c) ELSE x.last
           inside == [i \in 1 .. Len(c.points) - 1 |-> Label(c)]
           front == x.labels \o <<bridge>>
<1>x. /\ x.points \in Seq(Int) /\ x.points # <<>> /\ x.labels \in Seq(Labels) /\ x.last \in Labels
      /\ Len(x.labels) = Len(x.points) - 1 /\ Len(x.points) \in Nat \ {0} /\ Len(x.labels) \in Nat
  <2>1. x.points \in Seq(Int) /\ x.points # <<>> /\ x.labels \in Seq(Labels) /\ x.last \in Labels
        /\ Len(x.labels) = Len(x.points) - 1
    BY DEF Fits, Flats
  <2> QED BY <2>1, EmptySeq
<1>c. c.points \in Seq(Int) /\ c.points # <<>> /\ Label(c) \in Labels /\ Len(c.points) \in Nat \ {0}
      /\ inside \in Seq(Labels) /\ Len(inside) = Len(c.points) - 1
  BY PartTypes
<1>n. /\ Len(x.points) \in Nat /\ Len(x.points) >= 1 /\ Len(c.points) \in Nat /\ Len(c.points) >= 1
      /\ Len(x.labels) \in Nat /\ Len(inside) \in Nat
      /\ Len(x.points) = Len(x.labels) + 1 /\ Len(c.points) = Len(inside) + 1
  BY <1>x, <1>c
<1>k. Len(x.points) \in Nat /\ Len(x.points) >= 1 /\ Len(c.points) \in Nat /\ Len(c.points) >= 1
  BY <1>n
<1>y. /\ y.points = x.points \o c.points /\ y.labels = front \o inside /\ y.last = Label(c)
      /\ y = [points |-> x.points \o c.points, labels |-> front \o inside, last |-> Label(c)]
  BY <1>x DEF Joined, Last
<1>p. /\ y.points \in Seq(Int) /\ Len(y.points) = Len(x.points) + Len(c.points)
      /\ \A i \in 1 .. Len(x.points) + Len(c.points) :
           y.points[i] = IF i <= Len(x.points) THEN x.points[i] ELSE c.points[i - Len(x.points)]
  <2> DEFINE u == x.points \o c.points
  <2>1. u \in Seq(Int) /\ Len(u) = Len(x.points) + Len(c.points)
        /\ \A i \in 1 .. Len(x.points) + Len(c.points) :
             u[i] = IF i <= Len(x.points) THEN x.points[i] ELSE c.points[i - Len(x.points)]
    <3>1. x.points \in Seq(Int) /\ c.points \in Seq(Int)
      BY <1>c, <1>x
    <3> QED BY <3>1, ConcatProperties
  <2>2. y.points = u
    BY <1>y
  <2> HIDE DEF u, y
  <2> QED BY <2>1, <2>2
<1>b. bridge \in Labels
  BY <1>x, <1>c
<1> HIDE DEF bridge, inside
<1>f. /\ front \in Seq(Labels) /\ Len(front) = Len(x.labels) + 1
      /\ (\A i \in 1 .. Len(x.labels) : front[i] = x.labels[i]) /\ front[Len(x.labels) + 1] = bridge
  <2>1. <<bridge>> \in Seq(Labels) /\ Len(<<bridge>>) = 1 /\ <<bridge>>[1] = bridge
    BY <1>b
  <2>2. front \in Seq(Labels) /\ Len(front) = Len(x.labels) + 1
        /\ \A i \in 1 .. Len(x.labels) + 1 :
             front[i] = IF i <= Len(x.labels) THEN x.labels[i] ELSE <<bridge>>[i - Len(x.labels)]
    <3>1. x.labels \in Seq(Labels)
      BY <1>x
    <3> QED BY <3>1, <2>1, ConcatProperties
  <2> HIDE DEF front
  <2>3. ASSUME NEW i \in 1 .. Len(x.labels) PROVE front[i] = x.labels[i]
    <3>1. i \in 1 .. Len(x.labels) + 1 /\ i <= Len(x.labels)
      BY <1>n
    <3> QED BY <3>1, <2>2
  <2>4. front[Len(x.labels) + 1] = bridge
    <3>1. Len(x.labels) + 1 \in 1 .. Len(x.labels) + 1 /\ ~(Len(x.labels) + 1 <= Len(x.labels))
          /\ (Len(x.labels) + 1) - Len(x.labels) = 1
      BY <1>n
    <3> QED BY <3>1, <2>1, <2>2
  <2> QED BY <2>2, <2>3, <2>4
<1> HIDE DEF front
<1>l. /\ y.labels \in Seq(Labels) /\ Len(y.labels) = (Len(x.labels) + 1) + Len(c.points) - 1
      /\ \A i \in 1 .. Len(x.labels) : y.labels[i] = x.labels[i]
      /\ y.labels[Len(x.labels) + 1] = bridge
      /\ \A m \in 1 .. Len(c.points) - 1 : y.labels[(Len(x.labels) + 1) + m] = Label(c)
  <2> DEFINE u == front \o inside
  <2>0. \A m \in 1 .. Len(c.points) - 1 : inside[m] = Label(c)
    BY DEF inside
  <2>1. u \in Seq(Labels) /\ Len(u) = Len(front) + Len(inside)
        /\ \A i \in 1 .. Len(front) + Len(inside) :
             u[i] = IF i <= Len(front) THEN front[i] ELSE inside[i - Len(front)]
    <3>1. front \in Seq(Labels) /\ inside \in Seq(Labels)
      BY <1>c, <1>f
    <3> QED BY <3>1, ConcatProperties
  <2>2. y.labels = u
    BY <1>y
  <2> HIDE DEF u, y
  <2>e. Len(front) = Len(x.labels) + 1
    BY <1>f
  <2>3. ASSUME NEW i \in 1 .. Len(x.labels) + 1 PROVE u[i] = front[i]
    <3>1. i \in 1 .. Len(front) + Len(inside) /\ i <= Len(front)
      BY <1>n, <2>e
    <3> QED BY <3>1, <2>1
  <2>4. ASSUME NEW m \in 1 .. Len(c.points) - 1 PROVE u[(Len(x.labels) + 1) + m] = Label(c)
    <3>1. (Len(x.labels) + 1) + m \in 1 .. Len(front) + Len(inside)
          /\ ~((Len(x.labels) + 1) + m <= Len(front))
          /\ ((Len(x.labels) + 1) + m) - Len(front) = m
      BY <1>n, <2>e
    <3> QED BY <3>1, <2>1, <2>0
  <2>5. Len(front) + Len(inside) = (Len(x.labels) + 1) + Len(c.points) - 1
    BY <1>n, <2>e
  <2>6. Len(x.labels) + 1 \in 1 .. Len(x.labels) + 1
        /\ \A i \in 1 .. Len(x.labels) : i \in 1 .. Len(x.labels) + 1
    BY <1>n
  <2> QED BY <2>1, <2>2, <2>3, <2>4, <2>5, <2>6, <1>f
<1>g. g \in Nat
  <2>1. Len(x.points) \in 1 .. Len(x.points) /\ 1 \in 1 .. Len(c.points)
    BY <1>n
  <2>2. x.points[Len(x.points)] \in Int /\ c.points[1] \in Int
    BY <2>1, <1>x, <1>c, ElementOfSeq
  <2> QED BY <2>2, DistanceNat
<1>s. /\ Steps(y.points) = (Steps(x.points) \o <<g>>) \o Steps(c.points)
      /\ Steps(x.points) \in Seq(Nat) /\ Steps(c.points) \in Seq(Nat)
      /\ Len(Steps(x.points)) = Len(x.labels) /\ Len(Steps(c.points)) = Len(c.points) - 1
  BY <1>x, <1>c, <1>y, StepsConcat, MeasureTypes
<1> HIDE DEF g
<1>m. /\ \A k \in 0 .. Len(x.labels) : Measure(y)[k] = Measure(x)[k]
      /\ \A m \in 0 .. Len(c.points) - 1 :
           Measure(y)[(Len(x.labels) + 1) + m] = (Measure(x)[Len(x.labels)] + g) + Measure(c)[m]
  <2> DEFINE a == Steps(x.points)
             d == Steps(c.points)
             e == a \o <<g>>
  <2>1. a \in Seq(Nat) /\ d \in Seq(Nat) /\ Len(a) = Len(x.labels) /\ Len(d) = Len(c.points) - 1
        /\ Measure(y) = Sums(e \o d) /\ Measure(x) = Sums(a) /\ Measure(c) = Sums(d)
    BY <1>s DEF Measure
  <2> HIDE DEF y, a, d
  <2>2. <<g>> \in Seq(Nat) /\ Len(<<g>>) = 1 /\ <<g>>[1] = g
    BY <1>g
  <2>3. e \in Seq(Nat) /\ Len(e) = Len(a) + 1
    BY <2>1, <2>2
  <2>4. Sums(<<g>>)[1] = g
    <3>1. Sums(<<g>>)[0] = 0 /\ \A k \in 1 .. 1 : Sums(<<g>>)[k] = Sums(<<g>>)[k - 1] + <<g>>[k]
      BY <2>2, SumsCompute
    <3>2. Sums(<<g>>)[1] = Sums(<<g>>)[1 - 1] + <<g>>[1]
      BY <3>1
    <3> QED BY <3>1, <3>2, <2>2, <1>g
  <2>5. /\ \A k \in 0 .. Len(a) : Sums(e)[k] = Sums(a)[k]
        /\ \A k \in 0 .. 1 : Sums(e)[Len(a) + k] = Sums(a)[Len(a)] + Sums(<<g>>)[k]
    BY <2>1, <2>2, SumsConcat
  <2> HIDE DEF e
  <2>6. /\ \A k \in 0 .. Len(e) : Sums(e \o d)[k] = Sums(e)[k]
        /\ \A m \in 0 .. Len(d) : Sums(e \o d)[Len(e) + m] = Sums(e)[Len(e)] + Sums(d)[m]
    BY <2>1, <2>3, SumsConcat
  <2>7. Sums(e)[Len(a) + 1] = Sums(a)[Len(a)] + g
    BY <2>4, <2>5
  <2>8. \A k \in 0 .. Len(a) : k \in 0 .. Len(e)
    BY <2>1, <2>3, <1>n
  <2> QED BY <2>1, <2>3, <2>5, <2>6, <2>7, <2>8
<1>F. Fits(y)
  <2>1. y \in Flats
    <3>1. x.points \o c.points \in Seq(Int) /\ front \o inside \in Seq(Labels)
      BY <1>p, <1>l, <1>y
    <3> QED BY <1>y, <1>c, <3>1 DEF Flats
  <2> HIDE DEF y
  <2>2. Len(y.points) # 0 /\ Len(y.labels) = Len(y.points) - 1
    <3>1. Len(y.points) = Len(x.points) + Len(c.points)
      BY <1>p
    <3>2. Len(y.labels) = (Len(x.labels) + 1) + Len(c.points) - 1
      BY <1>l
    <3>3. Len(x.labels) = Len(x.points) - 1
      BY <1>x
    <3> DEFINE P == Len(x.points)
               C == Len(c.points)
               l == Len(x.labels)
               p == Len(y.points)
               q == Len(y.labels)
    <3>4. P \in Nat /\ P >= 1 /\ C \in Nat /\ C >= 1 /\ l = P - 1 /\ p = P + C /\ q = (l + 1) + C - 1
      BY <1>k, <3>1, <3>2, <3>3, Zenon
    <3>5. p # 0 /\ q = p - 1
      <4> HIDE DEF P, C, l, p, q
      <4> QED BY <3>4
    <3> QED BY <3>5
  <2> QED BY <2>1, <2>2 DEF Fits
<1>e. y.points[1] = x.points[1] /\ y.points[Len(y.points)] = c.points[Len(c.points)]
  <2> HIDE DEF y
  <2> DEFINE P == Len(x.points)
             C == Len(c.points)
  <2>0. P \in Nat /\ P >= 1 /\ C \in Nat /\ C >= 1
    BY <1>k
  <2>1. 1 \in 1 .. P + C /\ 1 <= P /\ P + C \in 1 .. P + C /\ ~(P + C <= P) /\ (P + C) - P = C
    <3> HIDE DEF P, C
    <3> QED BY <2>0
  <2>2. /\ Len(x.points) + Len(c.points) \in 1 .. Len(x.points) + Len(c.points)
        /\ ~(Len(x.points) + Len(c.points) <= Len(x.points))
        /\ (Len(x.points) + Len(c.points)) - Len(x.points) = Len(c.points)
    BY <2>1, Zenon
  <2>3. y.points[Len(y.points)] = c.points[Len(c.points)]
    BY <2>2, <1>p
  <2>4. y.points[1] = x.points[1]
    BY <2>1, <1>p
  <2> QED BY <2>3, <2>4
<1> QED
  <2>1. y.last = Label(c)
    BY <1>y
  <2> HIDE DEF y
  <2>2. Continues(x, c, y, Len(x.labels) + 1, g) /\ y.labels[Len(x.labels) + 1] = bridge
    BY <1>F, <2>1, <1>e, <1>l, <1>m DEF Continues
  <2> QED BY <2>2 DEF y, g, bridge

LEMMA JoinedType ==
  ASSUME NEW x \in Flats, x = NoFlat \/ Fits(x), NEW c \in Parts, NEW once \in BOOLEAN
  PROVE  Fits(Joined(x, c, once)) /\ Joined(x, c, once).last = Label(c)
<1>1. CASE x = NoFlat
  BY <1>1, JoinedFirst
<1>2. CASE Fits(x)
  <2>1. CASE once /\ x.points[Len(x.points)] = c.points[1]
    BY <1>2, <2>1, JoinedOnce DEF Continues
  <2>2. CASE ~(once /\ x.points[Len(x.points)] = c.points[1])
    BY <1>2, <2>2, JoinedBridge DEF Continues
  <2> QED BY <2>1, <2>2
<1> QED BY <1>1, <1>2

\* The recursive function of Flattened exists, and its value is the last of the steps.
LEMMA FlattenedBySteps ==
  ASSUME NEW cs \in Seq(Parts), NEW once \in BOOLEAN
  PROVE  \E j : /\ j[0] = NoFlat
                /\ \A k \in 1 .. Len(cs) : j[k] = Joined(j[k - 1], cs[k], once)
                /\ Flattened(cs, once) = j[Len(cs)]
<1> DEFINE N == Len(cs)
           V == {x \in Flats : x = NoFlat \/ Fits(x)}
           step == [y \in (1 .. N) \X V |-> Joined(y[2], cs[y[1]], once)]
           eq(g) == g = [k \in 0 .. N |-> IF k = 0 THEN NoFlat ELSE Joined(g[k - 1], cs[k], once)]
<1>1. N \in Nat /\ NoFlat \in V
  BY DEF NoFlat, Flats, Labels
<1>2. step \in [(1 .. N) \X V -> V]
  <2> SUFFICES ASSUME NEW y \in (1 .. N) \X V
               PROVE  Joined(y[2], cs[y[1]], once) \in V
    BY Zenon
  <2>1. y[1] \in 1 .. N /\ y[2] \in V
    OBVIOUS
  <2>2. cs[y[1]] \in Parts
    BY <2>1, ElementOfSeq
  <2>3. Fits(Joined(y[2], cs[y[1]], once))
    BY <2>1, <2>2, JoinedType
  <2> QED BY <2>3 DEF Fits
<1>3. PICK g : Computes(g, V, NoFlat, N, step)
  <2> HIDE DEF N, step, V
  <2> QED BY <1>1, <1>2, Recursion, Zenon
<1>4. g \in [0 .. N -> V] /\ g[0] = NoFlat /\ \A k \in 1 .. N : g[k] = step[<<k, g[k - 1]>>]
  BY <1>3, Zenon DEF Computes
<1>5. ASSUME NEW k \in 1 .. N
      PROVE  g[k] = Joined(g[k - 1], cs[k], once)
  <2> HIDE DEF V
  <2>1. k - 1 \in 0 .. N
    BY <1>1
  <2>2. <<k, g[k - 1]>> \in (1 .. N) \X V
    BY <1>4, <2>1
  <2>3. step[<<k, g[k - 1]>>] = Joined(<<k, g[k - 1]>>[2], cs[<<k, g[k - 1]>>[1]], once)
    BY <2>2, Zenon
  <2>4. <<k, g[k - 1]>>[2] = g[k - 1] /\ <<k, g[k - 1]>>[1] = k
    OBVIOUS
  <2>5. g[k] = step[<<k, g[k - 1]>>]
    BY <1>4, Zenon
  <2> HIDE DEF step
  <2> QED BY <2>3, <2>4, <2>5
<1>6. eq(g)
  <2> HIDE DEF V, step
  <2>1. ASSUME NEW k \in 0 .. N
        PROVE  g[k] = IF k = 0 THEN NoFlat ELSE Joined(g[k - 1], cs[k], once)
    <3>1. k = 0 \/ k \in 1 .. N
      BY <1>1
    <3> QED BY <3>1, <1>4, <1>5, Zenon
  <2>2. g = [k \in 0 .. N |-> g[k]]
    BY <1>4, Zenon
  <2> QED BY <2>1, <2>2, Zenon
<1>7. PICK h : eq(h) /\ Flattened(cs, once) = h[N]
  <2>1. Flattened(cs, once) = (CHOOSE h : eq(h))[N]
    BY Zenon DEF Flattened
  <2> HIDE DEF eq
  <2> QED BY <1>6, <2>1, Zenon
<1>8. \A k \in 0 .. N : h[k] = IF k = 0 THEN NoFlat ELSE Joined(h[k - 1], cs[k], once)
  BY <1>7, Zenon
<1>9. h[0] = NoFlat
  <2>1. 0 \in 0 .. N
    BY <1>1
  <2> QED BY <2>1, <1>8, Zenon
<1>10. ASSUME NEW k \in 1 .. Len(cs)
       PROVE  h[k] = Joined(h[k - 1], cs[k], once)
  <2>1. k \in 0 .. N /\ k # 0
    BY <1>1
  <2> QED BY <2>1, <1>8, Zenon
<1> QED BY <1>7, <1>9, <1>10, Zenon

\* Each interval of d that has a length lies where one of a lies that has its label.
Carries(a, d) ==
  /\ Fits(a) /\ Fits(d)
  /\ a.points[1] = d.points[1] /\ a.points[Len(a.points)] = d.points[Len(d.points)]
  /\ a.last = d.last
  /\ Measure(a)[Len(a.labels)] = Measure(d)[Len(d.labels)]
  /\ \A i \in 1 .. Len(d.labels) : Measure(d)[i - 1] # Measure(d)[i] =>
       \E j \in 1 .. Len(a.labels) :
         /\ Measure(a)[j - 1] = Measure(d)[i - 1] /\ Measure(a)[j] = Measure(d)[i]
         /\ a.labels[j] = d.labels[i]

LEMMA FitsTypes ==
  ASSUME NEW x, Fits(x)
  PROVE  /\ x.points \in Seq(Int) /\ x.points # <<>> /\ x.labels \in Seq(Labels) /\ x.last \in Labels
         /\ Len(x.points) \in Nat /\ Len(x.points) >= 1 /\ Len(x.points) = Len(x.labels) + 1
         /\ Len(x.labels) \in Nat /\ x.points[1] \in Int /\ x.points[Len(x.points)] \in Int
         /\ Measure(x) \in [0 .. Len(x.labels) -> Nat] /\ Measure(x)[0] = 0
<1>1. x.points \in Seq(Int) /\ x.points # <<>> /\ x.labels \in Seq(Labels) /\ x.last \in Labels
      /\ Len(x.labels) = Len(x.points) - 1
  BY DEF Fits, Flats
<1>2. Len(x.points) \in Nat \ {0} /\ Measure(x) \in [0 .. Len(x.points) - 1 -> Nat] /\ Measure(x)[0] = 0
  BY <1>1, MeasureTypes DEF Measure
<1>3. 1 \in 1 .. Len(x.points) /\ Len(x.points) \in 1 .. Len(x.points)
  BY <1>2
<1>4. x.points[1] \in Int /\ x.points[Len(x.points)] \in Int
  BY <1>1, <1>3, ElementOfSeq
<1> QED BY <1>1, <1>2, <1>4

LEMMA JoinedNext ==
  ASSUME NEW x, Fits(x), NEW c \in Parts, NEW once \in BOOLEAN
  PROVE  LET y == Joined(x, c, once)
             g == Distance(x.points[Len(x.points)], c.points[1])
         IN  /\ g \in Nat
             /\ \E b : /\ Continues(x, c, y, b, g)
                       /\ \/ b = Len(x.labels) /\ g = 0
                          \/ /\ b = Len(x.labels) + 1
                             /\ y.labels[b] = IF c.kind = "CONNECTION" THEN Label(c) ELSE x.last
<1> DEFINE y == Joined(x, c, once)
           g == Distance(x.points[Len(x.points)], c.points[1])
<1>1. g \in Nat /\ (g = 0 <=> x.points[Len(x.points)] = c.points[1])
  <2>1. c.points \in Seq(Int) /\ 1 \in 1 .. Len(c.points)
    BY PartTypes
  <2>2. c.points[1] \in Int /\ x.points[Len(x.points)] \in Int
    BY <2>1, FitsTypes, ElementOfSeq
  <2> QED BY <2>2, DistanceNat
<1>2. CASE once /\ x.points[Len(x.points)] = c.points[1]
  <2>1. Continues(x, c, y, Len(x.labels), 0)
    BY <1>2, JoinedOnce
  <2>2. g = 0
    BY <1>1, <1>2
  <2> HIDE DEF y, g
  <2>3. Continues(x, c, y, Len(x.labels), g)
    BY <2>1, <2>2
  <2> QED BY <1>1, <2>2, <2>3 DEF y, g
<1>3. CASE ~(once /\ x.points[Len(x.points)] = c.points[1])
  <2>1. Continues(x, c, y, Len(x.labels) + 1, g)
        /\ y.labels[Len(x.labels) + 1] = IF c.kind = "CONNECTION" THEN Label(c) ELSE x.last
    BY <1>3, JoinedBridge
  <2> QED BY <2>1, <1>1
<1> QED BY <1>2, <1>3

\* Leaving out a doubled point keeps the lengths and the labels of all others.
LEMMA JoinedCarries ==
  ASSUME NEW a, NEW d, Carries(a, d), NEW c \in Parts, NEW once \in BOOLEAN
  PROVE  Carries(Joined(a, c, TRUE), Joined(d, c, once))
<1> DEFINE A == Joined(a, c, TRUE)
           D == Joined(d, c, once)
           g == Distance(a.points[Len(a.points)], c.points[1])
           C == Len(c.points)
           p == Len(a.labels)
           q == Len(d.labels)
           bridge == IF c.kind = "CONNECTION" THEN Label(c) ELSE a.last
<1>0. Fits(a) /\ Fits(d) /\ a.points[1] = d.points[1] /\ a.last = d.last
      /\ a.points[Len(a.points)] = d.points[Len(d.points)] /\ Measure(a)[p] = Measure(d)[q]
  BY DEF Carries
<1>1. PICK r : Continues(a, c, A, r, g) /\ ((r = p /\ g = 0) \/ (r = p + 1 /\ A.labels[r] = bridge))
  BY <1>0, JoinedNext
<1>2. PICK s : Continues(d, c, D, s, g) /\ ((s = q /\ g = 0) \/ (s = q + 1 /\ D.labels[s] = bridge))
  BY <1>0, JoinedNext
<1>3. g \in Nat
  BY <1>0, JoinedNext
<1>4. C \in Nat /\ C >= 1 /\ p \in Nat /\ q \in Nat /\ r \in Nat /\ s \in Nat
  <2>1. C \in Nat \ {0}
    BY PartTypes
  <2>2. p \in Nat /\ q \in Nat
    BY <1>0, FitsTypes
  <2> HIDE DEF C, p, q, A, D, g, bridge
  <2> QED BY <2>1, <2>2, <1>1, <1>2
<1>5. Measure(c) \in [0 .. C - 1 -> Nat] /\ Measure(c)[0] = 0
  BY PartTypes, MeasureTypes DEF Measure
<1>6. Measure(a) \in [0 .. p -> Nat] /\ Measure(d) \in [0 .. q -> Nat]
  BY <1>0, FitsTypes
<1>7. ASSUME NEW i \in 1 .. q, Measure(d)[i - 1] # Measure(d)[i]
      PROVE  \E j \in 1 .. p : /\ Measure(a)[j - 1] = Measure(d)[i - 1] /\ Measure(a)[j] = Measure(d)[i]
                               /\ a.labels[j] = d.labels[i]
  BY <1>7 DEF Carries
<1>8. /\ Fits(A) /\ Fits(D) /\ A.last = Label(c) /\ D.last = Label(c)
      /\ A.points[1] = a.points[1] /\ D.points[1] = d.points[1]
      /\ A.points[Len(A.points)] = c.points[C] /\ D.points[Len(D.points)] = c.points[C]
      /\ Len(A.labels) = r + C - 1 /\ Len(D.labels) = s + C - 1
  BY <1>1, <1>2 DEF Continues
<1>9. /\ \A k \in 1 .. p : A.labels[k] = a.labels[k]
      /\ \A k \in 0 .. p : Measure(A)[k] = Measure(a)[k]
      /\ \A m \in 0 .. C - 1 : Measure(A)[r + m] = (Measure(a)[p] + g) + Measure(c)[m]
      /\ \A m \in 1 .. C - 1 : A.labels[r + m] = Label(c)
  BY <1>1 DEF Continues
<1>10. /\ \A k \in 1 .. q : D.labels[k] = d.labels[k]
       /\ \A k \in 0 .. q : Measure(D)[k] = Measure(d)[k]
       /\ \A m \in 0 .. C - 1 : Measure(D)[s + m] = (Measure(d)[q] + g) + Measure(c)[m]
       /\ \A m \in 1 .. C - 1 : D.labels[s + m] = Label(c)
  BY <1>2 DEF Continues
<1> HIDE DEF A, D, g, C, p, q, bridge
<1>11. Measure(A)[Len(A.labels)] = Measure(D)[Len(D.labels)]
  <2>1. C - 1 \in 0 .. C - 1 /\ r + C - 1 = r + (C - 1) /\ s + C - 1 = s + (C - 1)
    BY <1>4
  <2>2. Measure(A)[r + (C - 1)] = (Measure(a)[p] + g) + Measure(c)[C - 1]
    BY <1>9, <2>1
  <2>3. Measure(D)[s + (C - 1)] = (Measure(d)[q] + g) + Measure(c)[C - 1]
    BY <1>10, <2>1
  <2> QED BY <2>1, <2>2, <2>3, <1>0, <1>8
<1>12. ASSUME NEW i \in 1 .. Len(D.labels), Measure(D)[i - 1] # Measure(D)[i]
       PROVE  \E j \in 1 .. Len(A.labels) :
                /\ Measure(A)[j - 1] = Measure(D)[i - 1] /\ Measure(A)[j] = Measure(D)[i]
                /\ A.labels[j] = D.labels[i]
  <2>0. i \in 1 .. s + C - 1 /\ i \in Nat
    BY <1>8, <1>12
  <2>l. Len(A.labels) = r + C - 1
    BY <1>8
  <2>1. CASE i <= q
    <3>1. i \in 1 .. q /\ i - 1 \in 0 .. q /\ i \in 0 .. q
      BY <2>1, <2>0, <1>4
    <3>2. Measure(D)[i - 1] = Measure(d)[i - 1] /\ Measure(D)[i] = Measure(d)[i] /\ D.labels[i] = d.labels[i]
      BY <3>1, <1>10
    <3>3. PICK j \in 1 .. p : /\ Measure(a)[j - 1] = Measure(d)[i - 1] /\ Measure(a)[j] = Measure(d)[i]
                              /\ a.labels[j] = d.labels[i]
      BY <3>1, <3>2, <1>7, <1>12
    <3>4. j \in 1 .. r + C - 1 /\ j - 1 \in 0 .. p /\ j \in 0 .. p
      BY <1>1, <1>4, <3>3
    <3>5. Measure(A)[j - 1] = Measure(a)[j - 1] /\ Measure(A)[j] = Measure(a)[j] /\ A.labels[j] = a.labels[j]
      BY <3>4, <1>9
    <3>6. j \in 1 .. Len(A.labels)
      BY <3>4, <2>l
    <3> QED BY <3>2, <3>3, <3>5, <3>6
  <2>2. CASE i > q /\ i <= s
    <3>1. s = q + 1 /\ i = s /\ D.labels[s] = bridge /\ i - 1 = q
      BY <2>2, <2>0, <1>2, <1>4
    <3>2. q \in 0 .. q /\ 0 \in 0 .. C - 1 /\ s + 0 = s /\ r + 0 = r /\ p \in 0 .. p
      BY <1>4
    <3>3. Measure(D)[i - 1] = Measure(d)[q] /\ Measure(D)[i] = (Measure(d)[q] + g) + 0
      BY <3>1, <3>2, <1>5, <1>10
    <3>4. Measure(d)[q] \in Nat /\ Measure(a)[p] \in Nat
      BY <3>2, <1>6
    <3>5. g # 0
      BY <3>3, <3>4, <1>12, <1>3
    <3>6. r = p + 1 /\ A.labels[r] = bridge /\ r - 1 = p
      BY <3>5, <1>1, <1>4
    <3>7. Measure(A)[r - 1] = Measure(a)[p] /\ Measure(A)[r] = (Measure(a)[p] + g) + 0
      BY <3>6, <3>2, <1>5, <1>9
    <3>8. r \in 1 .. r + C - 1
      BY <3>6, <1>4
    <3>9. r \in 1 .. Len(A.labels)
      BY <3>8, <2>l
    <3> QED BY <3>1, <3>3, <3>6, <3>7, <3>9, <1>0
  <2>3. CASE i > s
    <3> DEFINE m == i - s
    <3>1. m \in 1 .. C - 1 /\ m \in 0 .. C - 1 /\ m - 1 \in 0 .. C - 1 /\ i = s + m /\ i - 1 = s + (m - 1)
          /\ r + m \in 1 .. r + C - 1 /\ (r + m) - 1 = r + (m - 1)
      BY <2>3, <2>0, <1>4
    <3> HIDE DEF m
    <3>2. Measure(D)[i - 1] = (Measure(d)[q] + g) + Measure(c)[m - 1]
          /\ Measure(D)[i] = (Measure(d)[q] + g) + Measure(c)[m] /\ D.labels[i] = Label(c)
      BY <3>1, <1>10
    <3>3. Measure(A)[(r + m) - 1] = (Measure(a)[p] + g) + Measure(c)[m - 1]
          /\ Measure(A)[r + m] = (Measure(a)[p] + g) + Measure(c)[m] /\ A.labels[r + m] = Label(c)
      BY <3>1, <1>9
    <3>4. r + m \in 1 .. Len(A.labels)
      BY <3>1, <2>l
    <3> QED BY <3>2, <3>3, <3>4, <1>0
  <2> QED BY <2>1, <2>2, <2>3, <2>0, <1>4
<1> QED
  <2>1. Carries(A, D)
    BY <1>0, <1>8, <1>11, <1>12 DEF Carries
  <2> QED BY <2>1 DEF A, D

LEMMA CarriesFirst ==
  ASSUME NEW c \in Parts, NEW once \in BOOLEAN
  PROVE  Carries(Joined(NoFlat, c, TRUE), Joined(NoFlat, c, once))
<1> DEFINE a == Joined(NoFlat, c, TRUE)
           d == Joined(NoFlat, c, once)
<1>1. a = d
  BY DEF Joined, NoFlat
<1>2. Fits(d)
  BY JoinedFirst
<1> HIDE DEF a, d
<1>3. Carries(d, d)
  BY <1>2 DEF Carries
<1> QED BY <1>1, <1>3 DEF a, d

\* The components with each joint once carry the labels of the path that was made of them.
LEMMA FlattenedCarries ==
  ASSUME NEW cs \in Seq(Parts), cs # <<>>, NEW once \in BOOLEAN
  PROVE  LET flat == Flattened(cs, TRUE)
             last == cs[Len(cs)].points
         IN  /\ Carries(flat, Flattened(cs, once))
             /\ flat.points[1] = cs[1].points[1]
             /\ flat.points[Len(flat.points)] = last[Len(last)]
<1> DEFINE N == Len(cs)
           Tip(s) == s[Len(s)]
<1>1. N \in Nat /\ N >= 1
  BY EmptySeq
<1>2. PICK f : /\ f[0] = NoFlat /\ \A k \in 1 .. N : f[k] = Joined(f[k - 1], cs[k], TRUE)
               /\ Flattened(cs, TRUE) = f[N]
  BY FlattenedBySteps
<1>3. PICK g : /\ g[0] = NoFlat /\ \A k \in 1 .. N : g[k] = Joined(g[k - 1], cs[k], once)
               /\ Flattened(cs, once) = g[N]
  BY FlattenedBySteps
<1>4. \A k \in 1 .. N : cs[k] \in Parts
  BY ElementOfSeq
<1> DEFINE Good(k) == /\ Carries(f[k], g[k])
                      /\ f[k].points[1] = cs[1].points[1]
                      /\ Tip(f[k].points) = Tip(cs[k].points)
           S == {k \in Nat : k + 1 <= N => Good(k + 1)}
<1>5. 0 \in S
  <2>1. 1 \in 1 .. N /\ 1 - 1 = 0 /\ 0 + 1 = 1
    BY <1>1
  <2>2. f[1] = Joined(NoFlat, cs[1], TRUE) /\ g[1] = Joined(NoFlat, cs[1], once) /\ cs[1] \in Parts
    BY <2>1, <1>2, <1>3, <1>4
  <2>3. Carries(f[1], g[1])
    BY <2>2, CarriesFirst
  <2>4. f[1].points = cs[1].points
    BY <2>2, JoinedFirst
  <2>5. Good(1)
    BY <2>3, <2>4
  <2> HIDE DEF Good
  <2> QED BY <2>5, <2>1
<1>6. ASSUME NEW k \in Nat, k \in S PROVE k + 1 \in S
  <2> SUFFICES ASSUME (k + 1) + 1 <= N PROVE Good((k + 1) + 1)
    <3> HIDE DEF Good
    <3> QED OBVIOUS
  <2> DEFINE n == (k + 1) + 1
  <2>1. n \in 1 .. N /\ n - 1 = k + 1 /\ k + 1 <= N
    BY <1>1
  <2>2. Good(k + 1)
    <3> HIDE DEF Good
    <3> QED BY <2>1, <1>6
  <2> DEFINE m == k + 1
  <2>3. Carries(f[m], g[m]) /\ f[m].points[1] = cs[1].points[1]
    BY <2>2
  <2> HIDE DEF n, m
  <2>4. f[n] = Joined(f[m], cs[n], TRUE) /\ g[n] = Joined(g[m], cs[n], once) /\ cs[n] \in Parts
    BY <2>1, <1>2, <1>3, <1>4 DEF m
  <2>5. Carries(f[n], g[n])
    BY <2>3, <2>4, JoinedCarries
  <2>6. PICK b, e : Continues(f[m], cs[n], f[n], b, e)
    <3>1. Fits(f[m])
      BY <2>3 DEF Carries
    <3> QED BY <3>1, <2>4, JoinedNext
  <2>7. f[n].points[1] = cs[1].points[1] /\ Tip(f[n].points) = Tip(cs[n].points)
    BY <2>3, <2>6 DEF Continues
  <2>8. Good(n)
    BY <2>5, <2>7
  <2> QED BY <2>8 DEF n
<1>7. Nat \subseteq S
  <2> HIDE DEF S
  <2> QED BY <1>5, <1>6, SetInduction
<1>8. Good(N)
  <2> HIDE DEF Good
  <2>1. N - 1 \in Nat /\ (N - 1) + 1 = N /\ N <= N
    BY <1>1
  <2> QED BY <2>1, <1>7
<1> QED BY <1>8, <1>2, <1>3

LEMMA SameOrder ==
  ASSUME NEW a \in Nat, NEW b \in Nat, NEW m \in Nat, m > 0
  PROVE  a * m < b * m <=> a < b
<1>1. ASSUME a < b PROVE a * m < b * m
  BY <1>1
<1>2. ASSUME b <= a PROVE b * m <= a * m
  BY <1>2
<1> QED BY <1>1, <1>2

\* The middle of an interval that has a length is in exactly the interval it was made of.
LEMMA RawLabelsOrigin ==
  ASSUME NEW flat, NEW made, Carries(flat, made)
  PROVE  LET labels == RawLabels(made.points, flat)
         IN  /\ labels = [i \in 1 .. Len(made.labels) |-> labels[i]]
             /\ \A i \in 1 .. Len(made.labels) :
                  made.points[i] # made.points[i + 1] => labels[i] = made.labels[i]
<1> DEFINE raw == Measure(made)
           cumulative == Measure(flat)
           n == Len(made.labels)
           l == Len(flat.labels)
           T == raw[n]
           In(i) == {k \in 1 .. l : 2 * cumulative[k] * T < (raw[i - 1] + raw[i]) * T}
           labels == RawLabels(made.points, flat)
<1>1. Fits(flat) /\ Fits(made) /\ cumulative[l] = T
  BY DEF Carries
<1>2. /\ raw \in [0 .. n -> Nat] /\ cumulative \in [0 .. l -> Nat] /\ n \in Nat /\ l \in Nat
      /\ DOMAIN flat.labels = 1 .. l /\ Len(made.points) - 1 = n
  BY <1>1, FitsTypes
<1>3. /\ made.points \in Seq(Int) /\ made.points # <<>> /\ flat.points \in Seq(Int) /\ flat.points # <<>>
      /\ Len(flat.points) - 1 = l
  BY <1>1, FitsTypes
<1>4. /\ Steps(made.points) \in Seq(Nat) /\ Len(Steps(made.points)) = n
      /\ Steps(flat.points) \in Seq(Nat) /\ Len(Steps(flat.points)) = l
  BY <1>2, <1>3, MeasureTypes
<1>5. Total(Steps(made.points)) = T /\ Total(Steps(flat.points)) = T
  BY <1>1, <1>4 DEF Total, Measure
<1>6. labels = [i \in 1 .. n |->
                  flat.labels[IF Cardinality(In(i)) < l THEN Cardinality(In(i)) + 1 ELSE Cardinality(In(i))]]
  BY <1>2, <1>5 DEF RawLabels, Measure
<1>7. ASSUME NEW i \in 1 .. n, made.points[i] # made.points[i + 1]
      PROVE  labels[i] = made.labels[i]
  <2>1. raw[i] = raw[i - 1] + Distance(made.points[i], made.points[i + 1])
    BY <1>2, <1>3, MeasureTypes DEF Measure
  <2>2. i - 1 \in 0 .. n /\ i \in 0 .. n /\ n \in 0 .. n
    BY <1>2
  <2>3. raw[i - 1] \in Nat /\ raw[i] \in Nat /\ T \in Nat
    BY <1>2, <2>2
  <2>4. Distance(made.points[i], made.points[i + 1]) \in Nat \ {0}
    <3>1. i \in 1 .. Len(made.points) /\ i + 1 \in 1 .. Len(made.points)
      BY <1>1, FitsTypes
    <3>2. made.points[i] \in Int /\ made.points[i + 1] \in Int
      BY <3>1, <1>3, ElementOfSeq
    <3> QED BY <3>2, <1>7, DistanceNat
  <2>5. raw[i - 1] < raw[i]
    BY <2>1, <2>3, <2>4
  <2>6. raw[i] <= T
    BY <1>2, <1>4, SumsMonotone DEF Measure
  <2>7. T > 0
    BY <2>3, <2>5, <2>6
  <2>8. PICK j \in 1 .. l : /\ cumulative[j - 1] = raw[i - 1] /\ cumulative[j] = raw[i]
                            /\ flat.labels[j] = made.labels[i]
    BY <2>3, <2>5 DEF Carries
  <2>9. In(i) = 1 .. j - 1
    <3> SUFFICES ASSUME NEW k \in 1 .. l
                 PROVE  (2 * cumulative[k] * T < (raw[i - 1] + raw[i]) * T) <=> k <= j - 1
      <4> QED BY <2>8, <1>2
    <3>1. cumulative[k] \in Nat
      <4> HIDE DEF cumulative, l
      <4>1. k \in 0 .. l
        BY <1>2
      <4> QED BY <4>1, <1>2
    <3>2. (2 * cumulative[k] * T < (raw[i - 1] + raw[i]) * T) <=> 2 * cumulative[k] < raw[i - 1] + raw[i]
      <4>1. 2 * cumulative[k] \in Nat /\ raw[i - 1] + raw[i] \in Nat
        BY <3>1, <2>3
      <4> QED BY <4>1, <2>3, <2>7, SameOrder
    <3>3. CASE k <= j - 1
      <4>1. k \in 0 .. Len(Steps(flat.points)) /\ j - 1 \in k .. Len(Steps(flat.points))
        BY <3>3, <1>2, <1>4
      <4>2. cumulative[k] <= cumulative[j - 1]
        BY <4>1, <1>4, SumsMonotone DEF Measure
      <4> QED BY <4>2, <3>1, <3>2, <3>3, <2>3, <2>5, <2>8
    <3>4. CASE ~(k <= j - 1)
      <4>1. j \in 0 .. Len(Steps(flat.points)) /\ k \in j .. Len(Steps(flat.points))
        BY <3>4, <1>2, <1>4
      <4>2. cumulative[j] <= cumulative[k]
        BY <4>1, <1>4, SumsMonotone DEF Measure
      <4> QED BY <4>2, <3>1, <3>2, <3>4, <2>3, <2>5, <2>8
    <3> QED BY <3>3, <3>4
  <2>10. Cardinality(In(i)) = j - 1
    <3> HIDE DEF In
    <3>1. Cardinality(1 .. j - 1) = j - 1
      <4>1. 1 \in Int /\ j - 1 \in Int /\ j - 1 >= 0
        OBVIOUS
      <4>2. Cardinality(1 .. j - 1) = IF 1 > j - 1 THEN 0 ELSE (j - 1) - 1 + 1
        BY <4>1, FS_Interval
      <4> QED BY <4>1, <4>2
    <3> QED BY <3>1, <2>9
  <2>11. j - 1 < l /\ (j - 1) + 1 = j
    BY <2>8, <1>2
  <2> HIDE DEF In
  <2> QED BY <1>6, <2>8, <2>10, <2>11
<1> QED
  <2> HIDE DEF labels
  <2>1. labels = [i \in 1 .. n |-> labels[i]]
    <3> HIDE DEF In
    <3> QED BY <1>6
  <2> QED BY <2>1, <1>7 DEF labels

----------------------------------------------------------------------------
StretchesOf(L) == [start : Nat, end : Nat, label : L]

LEMMA ExtendedCases ==
  ASSUME NEW L, NEW labels \in Seq(L), NEW z \in Seq(StretchesOf(L)), NEW i \in 1 .. Len(labels)
  PROVE  LET y == Extended(z, i, labels)
             n == Len(z)
         IN  /\ y \in Seq(StretchesOf(L))
             /\ \/ /\ n >= 1 /\ z[n].label = labels[i] /\ Len(y) = n
                   /\ \A k \in 1 .. n - 1 : y[k] = z[k]
                   /\ y[n].start = z[n].start /\ y[n].end = i /\ y[n].label = z[n].label
                \/ /\ Len(y) = n + 1
                   /\ \A k \in 1 .. n : y[k] = z[k]
                   /\ y[n + 1].start = i /\ y[n + 1].end = i /\ y[n + 1].label = labels[i]
<1> DEFINE R == StretchesOf(L)
           n == Len(z)
           r == [start |-> i, end |-> i, label |-> labels[i]]
<1>1. n \in Nat /\ i \in Nat /\ labels[i] \in L
  BY ElementOfSeq
<1>2. CASE z # <<>> /\ z[n].label = labels[i]
  <2> DEFINE y == [z EXCEPT ![n].end = i]
  <2>1. n >= 1 /\ n \in 1 .. n
    BY <1>2, EmptySeq
  <2>2. z[n] \in R
    BY <2>1, ElementOfSeq
  <2>3. z \in [1 .. n -> R]
    OBVIOUS
  <2>4. y = [z EXCEPT ![n] = [z[n] EXCEPT !.end = i]]
    OBVIOUS
  <2>5. [z[n] EXCEPT !.end = i] \in R
        /\ [z[n] EXCEPT !.end = i].start = z[n].start /\ [z[n] EXCEPT !.end = i].end = i
        /\ [z[n] EXCEPT !.end = i].label = z[n].label
    BY <1>1, <2>2 DEF StretchesOf
  <2>6. y \in [1 .. n -> R] /\ y[n] = [z[n] EXCEPT !.end = i] /\ \A k \in 1 .. n - 1 : y[k] = z[k]
    <3> HIDE DEF R
    <3> QED BY <2>1, <2>3, <2>4, <2>5, <1>1
  <2>7. Extended(z, i, labels) = y
    BY <1>2 DEF Extended, Last
  <2> HIDE DEF y, R
  <2>8. y \in Seq(R) /\ Len(y) = n
    BY <2>6, <1>1
  <2> QED BY <2>1, <2>5, <2>6, <2>7, <2>8, <1>2 DEF R
<1>3. CASE ~(z # <<>> /\ z[n].label = labels[i])
  <2> DEFINE y == Append(z, r)
  <2>1. r \in R
    BY <1>1 DEF StretchesOf
  <2>2. Extended(z, i, labels) = y
    BY <1>3 DEF Extended, Last
  <2> HIDE DEF r, R
  <2>3. z \in Seq(R)
    BY DEF R
  <2>4. y \in Seq(R) /\ Len(y) = n + 1 /\ (\A k \in 1 .. n : y[k] = z[k]) /\ y[n + 1] = r
    BY <2>1, <2>3
  <2>5. r.start = i /\ r.end = i /\ r.label = labels[i]
    BY DEF r
  <2> HIDE DEF y
  <2> QED BY <2>2, <2>4, <2>5 DEF R
<1> QED BY <1>2, <1>3

\* The stretches z cover the first i intervals in order, each with the label it has.
Split(z, i, labels) ==
  /\ \A k \in 1 .. Len(z) : /\ 1 <= z[k].start /\ z[k].start <= z[k].end /\ z[k].end <= i
                            /\ \A j \in z[k].start .. z[k].end : labels[j] = z[k].label
  /\ \A j \in 1 .. i : \E k \in 1 .. Len(z) : z[k].start <= j /\ j <= z[k].end
  /\ \A k, m \in 1 .. Len(z) : k < m => z[k].end < z[m].start
  /\ Len(z) >= 1 => z[Len(z)].end = i

\* One more label is taken in by the last stretch, or begins one.
LEMMA ExtendedSplits ==
  ASSUME NEW L, NEW labels \in Seq(L), NEW z \in Seq(StretchesOf(L)), NEW i \in 1 .. Len(labels),
         Split(z, i - 1, labels)
  PROVE  Split(Extended(z, i, labels), i, labels)
<1> DEFINE y == Extended(z, i, labels)
           n == Len(z)
<1>1. n \in Nat /\ i \in Nat /\ i >= 1 /\ y \in Seq(StretchesOf(L))
  BY ExtendedCases
<1>2. /\ \A k \in 1 .. n : z[k].start \in Nat /\ z[k].end \in Nat
      /\ \A k \in 1 .. Len(y) : y[k].start \in Nat /\ y[k].end \in Nat
  <2>1. \A s \in StretchesOf(L) : s.start \in Nat /\ s.end \in Nat
    BY DEF StretchesOf
  <2>2. \A k \in 1 .. n : z[k] \in StretchesOf(L)
    BY ElementOfSeq
  <2>3. \A k \in 1 .. Len(y) : y[k] \in StretchesOf(L)
    BY <1>1, ElementOfSeq
  <2> QED BY <2>1, <2>2, <2>3
<1>3. /\ \A k \in 1 .. n : /\ 1 <= z[k].start /\ z[k].start <= z[k].end /\ z[k].end <= i - 1
                           /\ \A j \in z[k].start .. z[k].end : labels[j] = z[k].label
      /\ \A j \in 1 .. i - 1 : \E k \in 1 .. n : z[k].start <= j /\ j <= z[k].end
      /\ \A k, m \in 1 .. n : k < m => z[k].end < z[m].start
      /\ n >= 1 => z[n].end = i - 1
  BY DEF Split
<1>4. CASE /\ n >= 1 /\ z[n].label = labels[i] /\ Len(y) = n
           /\ \A k \in 1 .. n - 1 : y[k] = z[k]
           /\ y[n].start = z[n].start /\ y[n].end = i /\ y[n].label = z[n].label
  <2> HIDE DEF y, n
  <2>0. n \in 1 .. n /\ z[n].end = i - 1 /\ \A k \in 1 .. n : k = n \/ (k \in 1 .. n - 1 /\ k < n)
    BY <1>1, <1>3, <1>4
  <2>1. ASSUME NEW k \in 1 .. n
        PROVE  /\ 1 <= y[k].start /\ y[k].start <= y[k].end /\ y[k].end <= i
               /\ \A j \in y[k].start .. y[k].end : labels[j] = y[k].label
    <3>1. CASE k \in 1 .. n - 1
      <4>1. y[k] = z[k]
        BY <3>1, <1>4
      <4>2. z[k].end <= i - 1 /\ z[k].end \in Nat
        BY <1>2, <1>3
      <4>3. z[k].end <= i
        BY <4>2, <1>1
      <4> QED BY <4>1, <4>3, <1>3
    <3>2. CASE k = n
      <4>1. 1 <= z[n].start /\ z[n].start <= i - 1 /\ z[n].start \in Nat
        BY <2>0, <1>2, <1>3
      <4>2. ASSUME NEW j \in z[n].start .. i PROVE labels[j] = z[n].label
        <5>1. j = i \/ j \in z[n].start .. z[n].end
          BY <4>1, <2>0, <1>1
        <5> QED BY <5>1, <2>0, <1>3, <1>4
      <4> QED BY <4>1, <4>2, <3>2, <1>4, <1>1
    <3> QED BY <3>1, <3>2, <2>0
  <2>2. ASSUME NEW j \in 1 .. i
        PROVE  \E k \in 1 .. n : y[k].start <= j /\ j <= y[k].end
    <3>1. CASE j = i
      <4>1. z[n].start <= i - 1 /\ z[n].start \in Nat
        BY <2>0, <1>2, <1>3
      <4> QED BY <4>1, <3>1, <2>0, <1>4, <1>1
    <3>2. CASE j # i
      <4>1. j \in 1 .. i - 1
        BY <3>2, <1>1
      <4>2. PICK k \in 1 .. n : z[k].start <= j /\ j <= z[k].end
        BY <4>1, <1>3
      <4>3. CASE k \in 1 .. n - 1
        BY <4>2, <4>3, <1>4
      <4>4. CASE k = n
        BY <4>1, <4>2, <4>4, <2>0, <1>4, <1>1
      <4> QED BY <4>3, <4>4, <2>0
    <3> QED BY <3>1, <3>2
  <2>3. ASSUME NEW k \in 1 .. n, NEW m \in 1 .. n, k < m
        PROVE  y[k].end < y[m].start
    <3>1. k \in 1 .. n - 1
      BY <2>3, <1>1
    <3>2. y[k] = z[k] /\ y[m].start = z[m].start
      BY <3>1, <2>0, <1>4
    <3> QED BY <3>2, <2>3, <1>3
  <2>4. Len(y) = n /\ y[n].end = i
    BY <1>4
  <2> QED BY <2>1, <2>2, <2>3, <2>4 DEF Split, y
<1>5. CASE /\ Len(y) = n + 1
           /\ \A k \in 1 .. n : y[k] = z[k]
           /\ y[n + 1].start = i /\ y[n + 1].end = i /\ y[n + 1].label = labels[i]
  <2> HIDE DEF y, n
  <2>0. n + 1 \in 1 .. n + 1 /\ \A k \in 1 .. n + 1 : k = n + 1 \/ k \in 1 .. n
    BY <1>1
  <2>1. ASSUME NEW k \in 1 .. n + 1
        PROVE  /\ 1 <= y[k].start /\ y[k].start <= y[k].end /\ y[k].end <= i
               /\ \A j \in y[k].start .. y[k].end : labels[j] = y[k].label
    <3>1. CASE k \in 1 .. n
      <4>1. y[k] = z[k]
        BY <3>1, <1>5
      <4>2. z[k].end <= i - 1 /\ z[k].end \in Nat
        BY <3>1, <1>2, <1>3
      <4>3. z[k].end <= i
        BY <4>2, <1>1
      <4> QED BY <4>1, <4>3, <3>1, <1>3
    <3>2. CASE k = n + 1
      <4>1. \A j \in i .. i : j = i
        BY <1>1
      <4> QED BY <4>1, <3>2, <1>5, <1>1
    <3> QED BY <3>1, <3>2, <2>0
  <2>2. ASSUME NEW j \in 1 .. i
        PROVE  \E k \in 1 .. n + 1 : y[k].start <= j /\ j <= y[k].end
    <3>1. CASE j = i
      BY <3>1, <2>0, <1>5, <1>1
    <3>2. CASE j # i
      <4>1. j \in 1 .. i - 1
        BY <3>2, <1>1
      <4>2. PICK k \in 1 .. n : z[k].start <= j /\ j <= z[k].end
        BY <4>1, <1>3
      <4>3. k \in 1 .. n + 1 /\ y[k] = z[k]
        BY <4>2, <1>1, <1>5
      <4> QED BY <4>2, <4>3
    <3> QED BY <3>1, <3>2
  <2>3. ASSUME NEW k \in 1 .. n + 1, NEW m \in 1 .. n + 1, k < m
        PROVE  y[k].end < y[m].start
    <3>1. k \in 1 .. n
      BY <2>3, <1>1
    <3>2. y[k] = z[k]
      BY <3>1, <1>5
    <3>3. CASE m \in 1 .. n
      BY <3>1, <3>2, <3>3, <2>3, <1>3, <1>5
    <3>4. CASE m = n + 1
      <4>1. z[k].end <= i - 1 /\ z[k].end \in Nat
        BY <3>1, <1>2, <1>3
      <4> QED BY <4>1, <3>2, <3>4, <1>1, <1>5
    <3> QED BY <3>3, <3>4, <2>0
  <2>4. Len(y) = n + 1 /\ y[n + 1].end = i
    BY <1>5
  <2> QED BY <2>1, <2>2, <2>3, <2>4 DEF Split, y
<1> QED BY <1>4, <1>5, ExtendedCases

\* The stretches of a document split the path.
LEMMA StretchesSplit ==
  ASSUME NEW L, NEW labels \in Seq(L)
  PROVE  Stretches(labels) \in Seq(StretchesOf(L)) /\ Split(Stretches(labels), Len(labels), labels)
<1> DEFINE N == Len(labels)
           V == Seq(StretchesOf(L))
           step == [x \in (1 .. N) \X V |-> Extended(x[2], x[1], labels)]
           eq(g) == g = [i \in 0 .. N |-> IF i = 0 THEN <<>> ELSE Extended(g[i - 1], i, labels)]
<1>1. N \in Nat /\ <<>> \in V
  OBVIOUS
<1>2. step \in [(1 .. N) \X V -> V]
  <2> HIDE DEF V
  <2> SUFFICES ASSUME NEW x \in (1 .. N) \X V
               PROVE  Extended(x[2], x[1], labels) \in V
    BY Zenon
  <2>1. x[1] \in 1 .. N /\ x[2] \in V
    OBVIOUS
  <2> QED BY <2>1, ExtendedCases DEF V
<1>3. PICK g : Computes(g, V, <<>>, N, step)
  <2> HIDE DEF N, step, V
  <2> QED BY <1>1, <1>2, Recursion, Zenon
<1>4. g \in [0 .. N -> V] /\ g[0] = <<>> /\ \A i \in 1 .. N : g[i] = step[<<i, g[i - 1]>>]
  BY <1>3, Zenon DEF Computes
<1>5. ASSUME NEW i \in 1 .. N
      PROVE  g[i] = Extended(g[i - 1], i, labels)
  <2> HIDE DEF V
  <2>1. i - 1 \in 0 .. N
    BY <1>1
  <2>2. <<i, g[i - 1]>> \in (1 .. N) \X V
    BY <1>4, <2>1
  <2>3. step[<<i, g[i - 1]>>] = Extended(<<i, g[i - 1]>>[2], <<i, g[i - 1]>>[1], labels)
    BY <2>2, Zenon
  <2>4. <<i, g[i - 1]>>[2] = g[i - 1] /\ <<i, g[i - 1]>>[1] = i
    OBVIOUS
  <2>5. g[i] = step[<<i, g[i - 1]>>]
    BY <1>4, Zenon
  <2> HIDE DEF step
  <2> QED BY <2>3, <2>4, <2>5
<1>6. eq(g)
  <2> HIDE DEF V, step
  <2>1. ASSUME NEW i \in 0 .. N
        PROVE  g[i] = IF i = 0 THEN <<>> ELSE Extended(g[i - 1], i, labels)
    <3>1. i = 0 \/ i \in 1 .. N
      BY <1>1
    <3> QED BY <3>1, <1>4, <1>5, Zenon
  <2>2. g = [i \in 0 .. N |-> g[i]]
    BY <1>4, Zenon
  <2> QED BY <2>1, <2>2, Zenon
<1>7. PICK h : eq(h) /\ Stretches(labels) = h[N]
  <2>1. Stretches(labels) = (CHOOSE h : eq(h))[N]
    BY Zenon DEF Stretches
  <2> HIDE DEF eq
  <2> QED BY <1>6, <2>1, Zenon
<1>8. \A i \in 0 .. N : h[i] = IF i = 0 THEN <<>> ELSE Extended(h[i - 1], i, labels)
  BY <1>7, Zenon
<1> DEFINE S == {i \in Nat : i <= N => h[i] \in V /\ Split(h[i], i, labels)}
<1>9. 0 \in S
  <2>1. 0 \in 0 .. N
    BY <1>1
  <2>2. h[0] = <<>>
    BY <2>1, <1>8, Zenon
  <2>3. Split(<<>>, 0, labels)
    BY DEF Split
  <2> QED BY <2>2, <2>3, <1>1
<1>10. ASSUME NEW i \in Nat, i \in S PROVE i + 1 \in S
  <2> SUFFICES ASSUME i + 1 <= N PROVE h[i + 1] \in V /\ Split(h[i + 1], i + 1, labels)
    OBVIOUS
  <2>1. i + 1 \in 1 .. N /\ i + 1 \in 0 .. N /\ i + 1 # 0 /\ (i + 1) - 1 = i /\ i <= N
    BY <1>1
  <2>2. h[i + 1] = Extended(h[i], i + 1, labels)
    BY <2>1, <1>8
  <2>3. h[i] \in V /\ Split(h[i], (i + 1) - 1, labels)
    BY <2>1, <1>10
  <2>4. Extended(h[i], i + 1, labels) \in V
    BY <2>1, <2>3, ExtendedCases
  <2>5. Split(Extended(h[i], i + 1, labels), i + 1, labels)
    BY <2>1, <2>3, ExtendedSplits
  <2> QED BY <2>2, <2>4, <2>5
<1>11. Nat \subseteq S
  <2> HIDE DEF S
  <2> QED BY <1>9, <1>10, SetInduction
<1> QED BY <1>1, <1>7, <1>11

\* Who reads the document has the labels it was written from, whatever they are.
LEMMA ParsedAgain ==
  ASSUME NEW L, NEW labels \in Seq(L)
  PROVE  Parsed(Stretches(labels), Len(labels)) = labels
<1> DEFINE z == Stretches(labels)
           n == Len(labels)
           Over(i) == {s \in ToSet(z) : s.start <= i /\ i <= s.end}
<1>1. z \in Seq(StretchesOf(L)) /\ Split(z, n, labels) /\ n \in Nat
  BY StretchesSplit
<1> HIDE DEF z
<1>2. /\ \A k \in 1 .. Len(z) : /\ 1 <= z[k].start /\ z[k].start <= z[k].end /\ z[k].end <= n
                                /\ \A j \in z[k].start .. z[k].end : labels[j] = z[k].label
      /\ \A j \in 1 .. n : \E k \in 1 .. Len(z) : z[k].start <= j /\ j <= z[k].end
      /\ \A k, m \in 1 .. Len(z) : k < m => z[k].end < z[m].start
  BY <1>1 DEF Split
<1>3. ToSet(z) = {z[k] : k \in 1 .. Len(z)}
  BY <1>1 DEF ToSet
<1>4. \A k \in 1 .. Len(z) : z[k].start \in Nat /\ z[k].end \in Nat
  <2>1. \A s \in StretchesOf(L) : s.start \in Nat /\ s.end \in Nat
    BY DEF StretchesOf
  <2> QED BY <2>1, <1>1, ElementOfSeq
<1>5. ASSUME NEW i \in 1 .. n
      PROVE  \E k \in 1 .. Len(z) : Over(i) = {z[k]} /\ z[k].label = labels[i]
  <2>1. PICK k \in 1 .. Len(z) : z[k].start <= i /\ i <= z[k].end
    BY <1>2
  <2>2. ASSUME NEW m \in 1 .. Len(z), z[m].start <= i, i <= z[m].end
        PROVE  m = k
    <3>1. m < k \/ k < m \/ m = k
      OBVIOUS
    <3>2. CASE m < k
      BY <3>2, <2>1, <2>2, <1>2, <1>4
    <3>3. CASE k < m
      BY <3>3, <2>1, <2>2, <1>2, <1>4
    <3> QED BY <3>1, <3>2, <3>3
  <2>3. Over(i) = {z[k]}
    BY <2>1, <2>2, <1>3
  <2>4. i \in z[k].start .. z[k].end
    BY <2>1, <1>4
  <2> QED BY <2>3, <2>4, <1>2
<1>6. \A s \in ToSet(z) : 1 <= s.start /\ s.start <= s.end /\ s.end <= n
  BY <1>2, <1>3
<1>7. \A i \in 1 .. n : Cardinality(Over(i)) = 1
  <2> HIDE DEF Over
  <2> QED BY <1>5, FS_Singleton
<1>8. Parsed(z, n) = [i \in 1 .. n |-> (CHOOSE s \in Over(i) : TRUE).label]
  BY <1>6, <1>7, Zenon DEF Parsed
<1>9. \A i \in 1 .. n : (CHOOSE s \in Over(i) : TRUE).label = labels[i]
  <2> HIDE DEF Over
  <2> TAKE i \in 1 .. n
  <2>1. PICK k \in 1 .. Len(z) : Over(i) = {z[k]} /\ z[k].label = labels[i]
    BY <1>5
  <2>2. (CHOOSE s \in Over(i) : TRUE) = z[k]
    BY <2>1
  <2> QED BY <2>1, <2>2
<1>10. labels = [i \in 1 .. n |-> labels[i]]
  OBVIOUS
<1> HIDE DEF Over
<1> QED BY <1>8, <1>9, <1>10 DEF z

----------------------------------------------------------------------------
LEMMA TotalBounds ==
  ASSUME NEW f \in Seq(Nat)
  PROVE  /\ Total(f) \in Nat
         /\ \A k \in 1 .. Len(f) : f[k] <= Total(f)
         /\ (\A k \in 1 .. Len(f) : f[k] = 0) => Total(f) = 0
<1> DEFINE s == Sums(f)
           N == Len(f)
<1>1. s \in [0 .. N -> Nat] /\ s[0] = 0 /\ (\A k \in 1 .. N : s[k] = s[k - 1] + f[k])
      /\ N \in Nat /\ Total(f) = s[N]
  BY SumsCompute DEF Total
<1>2. ASSUME NEW k \in 1 .. N PROVE f[k] <= s[N]
  <2>1. k \in 0 .. N /\ N \in k .. N /\ k - 1 \in 0 .. N
    BY <1>1
  <2>2. s[k] <= s[N]
    BY <2>1, SumsMonotone
  <2>3. s[k] = s[k - 1] + f[k] /\ s[k - 1] \in Nat /\ s[k] \in Nat /\ s[N] \in Nat
    <3> HIDE DEF s, N
    <3>1. N \in 0 .. N
      BY <1>1
    <3>2. s[k - 1] \in Nat /\ s[k] \in Nat /\ s[N] \in Nat
      BY <1>1, <2>1, <3>1
    <3> QED BY <1>1, <3>2
  <2>4. f[k] \in Nat
    BY ElementOfSeq
  <2> QED BY <2>2, <2>3, <2>4
<1> HIDE DEF s
<1>3. ASSUME \A k \in 1 .. N : f[k] = 0 PROVE s[N] = 0
  <2> DEFINE S == {k \in Nat : k <= N => s[k] = 0}
  <2>1. 0 \in S
    BY <1>1
  <2>2. ASSUME NEW k \in Nat, k \in S PROVE k + 1 \in S
    <3> SUFFICES ASSUME k + 1 <= N PROVE s[k + 1] = 0
      OBVIOUS
    <3>1. k + 1 \in 1 .. N /\ (k + 1) - 1 = k /\ k <= N
      BY <1>1
    <3>2. s[k + 1] = s[k] + f[k + 1] /\ f[k + 1] = 0 /\ s[k] = 0
      BY <3>1, <1>1, <1>3, <2>2
    <3> QED BY <3>2
  <2>3. Nat \subseteq S
    <3> HIDE DEF S
    <3> QED BY <2>1, <2>2, SetInduction
  <2> QED BY <2>3, <1>1
<1>4. s[N] \in Nat
  BY <1>1
<1> QED BY <1>1, <1>2, <1>3, <1>4

\* The components can be driven in turn, first the given kind.
Alternates(first, swaths, turns) ==
  /\ swaths \in Seq(Swaths) /\ turns \in Seq(Turns) /\ Len(swaths) >= 1
  /\ \/ first = "SWATH" /\ (Len(swaths) = Len(turns) \/ Len(swaths) = Len(turns) + 1)
     \/ first = "CONNECTION" /\ (Len(turns) = Len(swaths) \/ Len(turns) = Len(swaths) + 1)

\* The alternating order uses each swath and each turn.
LEMMA AlternatingTypes ==
  ASSUME NEW first, NEW swaths, NEW turns, Alternates(first, swaths, turns)
  PROVE  LET n == Len(swaths) + Len(turns)
             order == Alternating(first, n)
         IN  /\ n \in Nat /\ n >= 1 /\ Len(order) = n /\ DOMAIN order = 1 .. n
             /\ \A k \in 1 .. n : \/ order[k].kind = "SWATH" /\ order[k].of \in 1 .. Len(swaths)
                                  \/ order[k].kind = "CONNECTION" /\ order[k].of \in 1 .. Len(turns)
<1> DEFINE a == Len(swaths)
           b == Len(turns)
           n == a + b
           order == Alternating(first, n)
<1>1. \/ first = "SWATH" /\ (a = b \/ a = b + 1)
      \/ first = "CONNECTION" /\ (b = a \/ b = a + 1)
  BY DEF Alternates
<1>t. a \in Nat /\ b \in Nat /\ a >= 1
  BY DEF Alternates
<1>2. n \in Nat /\ n >= 1 /\ Len(order) = n /\ DOMAIN order = 1 .. n
  <2> HIDE DEF a, b
  <2>1. n \in Nat /\ n >= 1
    BY <1>t
  <2> QED BY <2>1 DEF Alternating
<1>3. ASSUME NEW k \in 1 .. n
      PROVE  \/ order[k].kind = "SWATH" /\ order[k].of \in 1 .. a
             \/ order[k].kind = "CONNECTION" /\ order[k].of \in 1 .. b
  <2> DEFINE h == (k + 1) \div 2
  <2>1. order[k] = [kind |-> IF (k % 2 = 1) = (first = "SWATH") THEN "SWATH" ELSE "CONNECTION", of |-> h]
    BY DEF Alternating
  <2>2. order[k].kind = (IF (k % 2 = 1) = (first = "SWATH") THEN "SWATH" ELSE "CONNECTION") /\ order[k].of = h
    BY <2>1
  <2> HIDE DEF a, b, order
  <2>3. k \in Nat /\ k >= 1 /\ k <= a + b
    BY <1>1
  <2>4. h \in Nat /\ h >= 1 /\ (k % 2 = 1 => k = 2 * h - 1) /\ (k % 2 # 1 => k = 2 * h)
    BY <2>3
  <2> HIDE DEF h
  <2>5. CASE first = "SWATH"
    <3>1. a = b \/ a = b + 1
      BY <1>1, <2>5
    <3>2. CASE k % 2 = 1
      <4>1. h <= a
        BY <3>1, <3>2, <2>3, <2>4, <1>t
      <4> QED BY <4>1, <3>2, <2>2, <2>4, <2>5, <1>1
    <3>3. CASE k % 2 # 1
      <4>1. h <= b
        BY <3>1, <3>3, <2>3, <2>4, <1>t
      <4>2. order[k].kind = "CONNECTION"
        BY <2>2, <2>5, <3>3
      <4> QED BY <4>1, <4>2, <2>2, <2>4, <1>1
    <3> QED BY <3>2, <3>3
  <2>6. CASE first = "CONNECTION"
    <3>1. b = a \/ b = a + 1
      BY <1>1, <2>6
    <3>0. first # "SWATH"
      BY <2>6
    <3>2. CASE k % 2 = 1
      <4>1. h <= b
        BY <3>1, <3>2, <2>3, <2>4, <1>t
      <4>2. order[k].kind = "CONNECTION"
        BY <2>2, <3>0, <3>2
      <4> QED BY <4>1, <4>2, <2>2, <2>4, <1>1
    <3>3. CASE k % 2 # 1
      <4>1. h <= a
        BY <3>1, <3>3, <2>3, <2>4, <1>t
      <4>2. order[k].kind = "SWATH"
        BY <2>2, <3>0, <3>3
      <4> QED BY <4>1, <4>2, <2>2, <2>4, <1>1
    <3> QED BY <3>2, <3>3
  <2> QED BY <2>5, <2>6, <1>1
<1> QED BY <1>2, <1>3

LEMMA SwathTurnTypes ==
  /\ \A s \in Swaths : s.start \in Int /\ s.end \in Int /\ s.start # s.end
  /\ \A t \in Turns : t \in Seq(Int) /\ t # <<>>
<1>1. ASSUME NEW s \in Swaths PROVE s.start \in Int /\ s.end \in Int /\ s.start # s.end
  <2>1. s.start \in Points /\ s.end \in Points /\ s.start # s.end
    BY DEF Swaths
  <2> QED BY <2>1, SemanticsAssumption
<1>2. ASSUME NEW t \in Turns PROVE t \in Seq(Int) /\ t # <<>>
  <2>1. CASE \E p \in Points : t = <<p>>
    BY <2>1, SemanticsAssumption
  <2>2. CASE \E p \in Points, q \in Points : t = <<p, q>>
    BY <2>2, SemanticsAssumption
  <2> QED BY <2>1, <2>2 DEF Turns
<1> QED BY <1>1, <1>2

LEMMA SwathIdType ==
  ASSUME NEW swaths \in Seq(Swaths), NEW i
  PROVE  SwathId(swaths, i) \in Nat
<1>1. IsFiniteSet(DOMAIN swaths)
  <2>1. DOMAIN swaths = 1 .. Len(swaths) /\ Len(swaths) \in Int
    OBVIOUS
  <2> QED BY <2>1, FS_Interval
<1> QED BY <1>1, FS_Subset, FS_CardinalityType DEF SwathId

LEMMA ComponentEnds ==
  ASSUME NEW first, NEW swaths, NEW turns, Alternates(first, swaths, turns),
         NEW k \in 1 .. Len(swaths) + Len(turns)
  PROVE  LET e == Alternating(first, Len(swaths) + Len(turns))[k]
             c == Component(e, swaths, turns)
         IN  /\ c \in Parts
             /\ Ends(e, swaths, turns) = <<c.points[1], c.points[Len(c.points)]>>
             /\ c.points[1] \in Int /\ c.points[Len(c.points)] \in Int
<1> DEFINE e == Alternating(first, Len(swaths) + Len(turns))[k]
           c == Component(e, swaths, turns)
<1>1. \/ e.kind = "SWATH" /\ e.of \in 1 .. Len(swaths)
      \/ e.kind = "CONNECTION" /\ e.of \in 1 .. Len(turns)
  BY AlternatingTypes
<1>2. swaths \in Seq(Swaths) /\ turns \in Seq(Turns)
  BY DEF Alternates
<1> HIDE DEF e
<1>3. CASE e.kind = "SWATH" /\ e.of \in 1 .. Len(swaths)
  <2>1. swaths[e.of] \in Swaths
    BY <1>3, <1>2, ElementOfSeq
  <2>2. swaths[e.of].start \in Int /\ swaths[e.of].end \in Int
    BY <2>1, SwathTurnTypes
  <2>3. Ends(e, swaths, turns) = <<swaths[e.of].start, swaths[e.of].end>>
    BY <1>3 DEF Ends
  <2>4. c = [kind |-> "SWATH", id |-> SwathId(swaths, e.of),
             points |-> <<swaths[e.of].start, swaths[e.of].end>>]
    BY <1>3, <2>3 DEF Component
  <2>5. SwathId(swaths, e.of) \in Nat
    BY <1>2, SwathIdType
  <2>6. <<swaths[e.of].start, swaths[e.of].end>> \in Seq(Int) \ {<<>>}
    BY <2>2
  <2>7. c \in Parts
    BY <2>4, <2>5, <2>6 DEF Parts
  <2>8. c.points = <<swaths[e.of].start, swaths[e.of].end>>
    BY <2>4
  <2> HIDE DEF c, e
  <2>9. Len(c.points) = 2 /\ c.points[1] = swaths[e.of].start /\ c.points[2] = swaths[e.of].end
    BY <2>8
  <2> QED BY <2>2, <2>3, <2>7, <2>9 DEF c, e
<1>4. CASE e.kind = "CONNECTION" /\ e.of \in 1 .. Len(turns)
  <2>1. turns[e.of] \in Turns
    BY <1>4, <1>2, ElementOfSeq
  <2>2. turns[e.of] \in Seq(Int) /\ turns[e.of] # <<>>
    BY <2>1, SwathTurnTypes
  <2>3. Ends(e, swaths, turns) = <<turns[e.of][1], turns[e.of][Len(turns[e.of])]>>
    BY <1>4 DEF Ends, Last
  <2>4. c = [kind |-> "CONNECTION", id |-> e.of, points |-> turns[e.of]]
    BY <1>4 DEF Component
  <2>5. e.of \in Nat
    BY <1>4
  <2>6. c \in Parts
    BY <2>2, <2>4, <2>5 DEF Parts
  <2>7. c.points = turns[e.of]
    BY <2>4
  <2>8. turns[e.of][1] \in Int /\ turns[e.of][Len(turns[e.of])] \in Int
    <3>1. Len(turns[e.of]) \in Nat \ {0}
      BY <2>2, EmptySeq
    <3>2. 1 \in 1 .. Len(turns[e.of]) /\ Len(turns[e.of]) \in 1 .. Len(turns[e.of])
      BY <3>1
    <3> QED BY <3>2, <2>2, ElementOfSeq
  <2> HIDE DEF c, e
  <2> QED BY <2>3, <2>6, <2>7, <2>8 DEF c, e
<1> QED BY <1>3, <1>4, <1>1 DEF e, c

LEMMA DrawnParts ==
  ASSUME NEW first, NEW swaths, NEW turns, Alternates(first, swaths, turns)
  PROVE  LET n == Len(swaths) + Len(turns)
             order == Alternating(first, n)
             drawn == Drawn(first, swaths, turns)
         IN  /\ drawn \in Seq(Parts) /\ Len(drawn) = n
             /\ \A k \in 1 .. n : drawn[k] = Component(order[k], swaths, turns)
<1> DEFINE n == Len(swaths) + Len(turns)
           order == Alternating(first, n)
           drawn == Drawn(first, swaths, turns)
<1>1. n \in Nat /\ DOMAIN order = 1 .. n
  BY AlternatingTypes
<1>2. drawn = [k \in 1 .. n |-> Component(order[k], swaths, turns)]
  BY <1>1 DEF Drawn
<1>3. \A k \in 1 .. n : Component(order[k], swaths, turns) \in Parts
  BY ComponentEnds
<1> HIDE DEF order, n
<1>4. drawn \in Seq(Parts) /\ Len(drawn) = n /\ \A k \in 1 .. n : drawn[k] = Component(order[k], swaths, turns)
  BY <1>1, <1>2, <1>3
<1> QED BY <1>4 DEF order, n

LEMMA DrawnEnds ==
  ASSUME NEW first, NEW swaths, NEW turns, Alternates(first, swaths, turns),
         NEW k \in 1 .. Len(swaths) + Len(turns)
  PROVE  /\ Ends(Alternating(first, Len(swaths) + Len(turns))[k], swaths, turns)
              = <<Drawn(first, swaths, turns)[k].points[1], Last(Drawn(first, swaths, turns)[k].points)>>
         /\ Drawn(first, swaths, turns)[k].points[1] \in Int
         /\ Last(Drawn(first, swaths, turns)[k].points) \in Int
<1> DEFINE e == Alternating(first, Len(swaths) + Len(turns))[k]
           c == Component(e, swaths, turns)
<1>1. Drawn(first, swaths, turns)[k] = c
  BY DrawnParts
<1>2. Ends(e, swaths, turns) = <<c.points[1], c.points[Len(c.points)]>>
  BY ComponentEnds
<1>3. c.points[1] \in Int /\ c.points[Len(c.points)] \in Int
  BY ComponentEnds
<1> HIDE DEF c, e
<1>4. Ends(e, swaths, turns) = <<c.points[1], Last(c.points)>> /\ c.points[1] \in Int /\ Last(c.points) \in Int
  BY <1>2, <1>3 DEF Last
<1> QED BY <1>1, <1>4 DEF e

\* How far it is from the end of each component to the beginning of the next.
Gaps(c) == [k \in 1 .. Len(c) - 1 |-> Distance(Last(c[k].points), c[k + 1].points[1])]

\* The cost of the order a plan was drawn in: the gaps, and how far the path is from its ends.
LEMMA CostTypes ==
  ASSUME NEW first, NEW swaths, NEW turns, Alternates(first, swaths, turns), NEW path, path # <<>>,
         path \in Seq(Int)
  PROVE  LET c == Drawn(first, swaths, turns)
             u == Distance(path[1], c[1].points[1])
             v == Distance(Last(path), Last(Last(c).points))
         IN  /\ Cost(Alternating(first, Len(swaths) + Len(turns)), path, swaths, turns)
                  = u + v + Total(Gaps(c))
             /\ Gaps(c) \in Seq(Nat) /\ Len(Gaps(c)) = Len(c) - 1
             /\ u \in Nat /\ v \in Nat /\ Total(Gaps(c)) \in Nat
<1> DEFINE n == Len(swaths) + Len(turns)
           order == Alternating(first, n)
           c == Drawn(first, swaths, turns)
           Tip(s) == s[Len(s)]
           gap == [k \in 1 .. n - 1 |-> Distance(Tip(c[k].points), c[k + 1].points[1])]
           ends == [k \in DOMAIN order |-> Ends(order[k], swaths, turns)]
<1>1. n \in Nat /\ n >= 1 /\ Len(order) = n /\ DOMAIN order = 1 .. n
  BY AlternatingTypes
<1>2. \A k \in 1 .. n : /\ Ends(order[k], swaths, turns) = <<c[k].points[1], Tip(c[k].points)>>
                        /\ c[k].points[1] \in Int /\ Tip(c[k].points) \in Int
  <2> TAKE k \in 1 .. n
  <2>1. Ends(order[k], swaths, turns) = <<c[k].points[1], Last(c[k].points)>>
    BY DrawnEnds
  <2>2. c[k].points[1] \in Int /\ Last(c[k].points) \in Int
    BY DrawnEnds
  <2> HIDE DEF n, order, c
  <2> QED BY <2>1, <2>2 DEF Last
<1> HIDE DEF order, c
<1>3. ends = [k \in 1 .. n |-> <<c[k].points[1], Tip(c[k].points)>>] /\ Len(ends) = n
  <2>0. DOMAIN order = 1 .. n
    BY <1>1
  <2> HIDE DEF n
  <2>1. ends = [k \in 1 .. n |-> <<c[k].points[1], Tip(c[k].points)>>]
    BY <1>2, <2>0
  <2>2. Len(ends) = n
    BY <1>1
  <2> QED BY <2>1, <2>2
<1>4. Cost(order, path, swaths, turns)
        = Distance(path[1], ends[1][1]) + Distance(Tip(path), ends[n][2])
            + Total([k \in 1 .. n - 1 |-> Distance(ends[k][2], ends[k + 1][1])])
  <2>1. Cost(order, path, swaths, turns)
          = Distance(path[1], ends[1][1]) + Distance(Last(path), Last(ends)[2])
              + Total([k \in 1 .. Len(order) - 1 |-> Distance(ends[k][2], ends[k + 1][1])])
    BY Zenon DEF Cost
  <2>2. Last(path) = Tip(path) /\ Last(ends) = ends[n]
    BY <1>3, Zenon DEF Last
  <2> HIDE DEF ends
  <2> QED BY <2>1, <2>2, <1>1
<1>5. /\ ends[1][1] = c[1].points[1] /\ ends[n][2] = Tip(c[n].points)
      /\ [k \in 1 .. n - 1 |-> Distance(ends[k][2], ends[k + 1][1])] = gap
  <2>1. \A k \in 1 .. n : ends[k][1] = c[k].points[1] /\ ends[k][2] = Tip(c[k].points)
    BY <1>3
  <2> HIDE DEF ends, n, Tip
  <2>2. 1 \in 1 .. n /\ n \in 1 .. n /\ \A k \in 1 .. n - 1 : k \in 1 .. n /\ k + 1 \in 1 .. n
    BY <1>1
  <2> QED BY <2>1, <2>2
<1>6. gap \in Seq(Nat) /\ Len(gap) = n - 1
  <2> HIDE DEF n, Tip
  <2>1. \A k \in 1 .. n - 1 : k \in 1 .. n /\ k + 1 \in 1 .. n
    BY <1>1
  <2>2. \A k \in 1 .. n - 1 : Distance(Tip(c[k].points), c[k + 1].points[1]) \in Nat
    BY <2>1, <1>2, DistanceNat
  <2>3. n - 1 \in Nat
    BY <1>1
  <2> QED BY <2>2, <2>3
<1>7. Distance(path[1], c[1].points[1]) \in Nat /\ Distance(Tip(path), Tip(c[n].points)) \in Nat
  <2>1. Len(path) \in Nat \ {0}
    BY EmptySeq
  <2>2. 1 \in 1 .. Len(path) /\ Len(path) \in 1 .. Len(path)
    BY <2>1
  <2>3. path[1] \in Int /\ Tip(path) \in Int
    BY <2>2, ElementOfSeq
  <2> HIDE DEF n, Tip
  <2>4. 1 \in 1 .. n /\ n \in 1 .. n
    BY <1>1
  <2> QED BY <2>3, <2>4, <1>2, DistanceNat
<1>8. Total(gap) \in Nat
  <2> HIDE DEF gap
  <2> QED BY <1>6, TotalBounds
<1>c. Len(c) = n
  BY DrawnParts DEF c
<1>g. Gaps(c) = gap /\ Last(path) = Tip(path) /\ Last(Last(c).points) = Tip(c[n].points)
  BY <1>c DEF Gaps, Last
<1> HIDE DEF gap, n, ends, Tip
<1>9. Cost(order, path, swaths, turns)
        = Distance(path[1], c[1].points[1]) + Distance(Tip(path), Tip(c[n].points)) + Total(gap)
  BY <1>4, <1>5
<1>10. /\ Cost(order, path, swaths, turns)
            = Distance(path[1], c[1].points[1]) + Distance(Last(path), Last(Last(c).points)) + Total(Gaps(c))
       /\ Gaps(c) \in Seq(Nat) /\ Len(Gaps(c)) = Len(c) - 1
       /\ Distance(path[1], c[1].points[1]) \in Nat /\ Distance(Last(path), Last(Last(c).points)) \in Nat
       /\ Total(Gaps(c)) \in Nat
  BY <1>6, <1>7, <1>8, <1>9, <1>c, <1>g
<1> QED BY <1>10 DEF n, order, c

\* The order is the one the plan was drawn in: more components of one kind tell which
\* is first; else, without gaps, that order costs nothing, and any other one costs
\* something since the ends of a swath differ.
LEMMA ScheduleAsDrawn ==
  ASSUME NEW first, NEW swaths, NEW turns, Alternates(first, swaths, turns),
         NEW path, path \in Seq(Int), path # <<>>, NEW c, c = Drawn(first, swaths, turns),
         path[1] = c[1].points[1],
         path[Len(path)] = c[Len(c)].points[Len(c[Len(c)].points)],
         Len(swaths) # Len(turns)
           \/ \A k \in 1 .. Len(c) - 1 : Last(c[k].points) = c[k + 1].points[1]
  PROVE  Schedule(path, swaths, turns) = Alternating(first, Len(swaths) + Len(turns))
<1> DEFINE a == Len(swaths)
           b == Len(turns)
           n == a + b
           One == Alternating("SWATH", n)
           Other == Alternating("CONNECTION", n)
           cost(f) == Cost(Alternating(f, n), path, swaths, turns)
           Tip(s) == s[Len(s)]
<1>1. a \in Nat /\ b \in Nat /\ a >= 1
  BY DEF Alternates
<1>2. \/ first = "SWATH" /\ (a = b \/ a = b + 1)
      \/ first = "CONNECTION" /\ (b = a \/ b = a + 1)
  BY DEF Alternates
<1>3. Schedule(path, swaths, turns)
        = CASE a > b -> One [] a < b -> Other
            [] OTHER -> IF cost("SWATH") <= cost("CONNECTION") THEN One ELSE Other
  BY Zenon DEF Schedule
<1>4. CASE a > b
  <2> HIDE DEF a, b, One, Other, cost
  <2>1. first = "SWATH"
    BY <1>1, <1>2, <1>4
  <2>2. Schedule(path, swaths, turns) = One
    <3>1. ~(a < b)
      BY <1>1, <1>4
    <3> QED BY <1>3, <1>4, <3>1
  <2> QED BY <2>1, <2>2 DEF One, a, b
<1>5. CASE a < b
  <2> HIDE DEF a, b, One, Other, cost
  <2>1. first = "CONNECTION"
    BY <1>1, <1>2, <1>5
  <2>2. Schedule(path, swaths, turns) = Other
    <3>1. ~(a > b)
      BY <1>1, <1>5
    <3> QED BY <1>3, <1>5, <3>1
  <2> QED BY <2>1, <2>2 DEF Other, a, b
<1>6. CASE a = b
  <2>0. Schedule(path, swaths, turns) = IF cost("SWATH") <= cost("CONNECTION") THEN One ELSE Other
    <3> HIDE DEF a, b, One, Other, cost
    <3>1. ~(a > b) /\ ~(a < b)
      BY <1>1, <1>6
    <3> QED BY <1>3, <3>1
  <2>1. Alternates("SWATH", swaths, turns) /\ Alternates("CONNECTION", swaths, turns)
    BY <1>6 DEF Alternates
  <2>2. n \in Nat /\ n >= 2
    <3> HIDE DEF a, b
    <3> QED BY <1>1, <1>6
  <2>3. Len(c) = n
    BY DrawnParts
  <2>4. \A k \in 1 .. n - 1 : Tip(c[k].points) = c[k + 1].points[1]
    <3>1. \A k \in 1 .. Len(c) - 1 : Last(c[k].points) = c[k + 1].points[1]
      BY <1>6
    <3> QED BY <3>1, <2>3 DEF Last
  <2>5. cost("SWATH") \in Nat /\ cost("CONNECTION") \in Nat
    <3>1. ASSUME NEW f \in {"SWATH", "CONNECTION"} PROVE cost(f) \in Nat
      <4> DEFINE d == Drawn(f, swaths, turns)
                 gap == Gaps(d)
                 u == Distance(path[1], d[1].points[1])
                 v == Distance(Last(path), Last(Last(d).points))
      <4>1. Alternates(f, swaths, turns)
        BY <2>1
      <4>2. cost(f) = u + v + Total(gap) /\ u \in Nat /\ v \in Nat /\ Total(gap) \in Nat
        BY <4>1, CostTypes
      <4> HIDE DEF u, v, gap, cost
      <4> QED BY <4>2
    <3> QED BY <3>1
  <2>6. cost(first) = 0
    <3> DEFINE gap == Gaps(c)
               u == Distance(path[1], c[1].points[1])
               v == Distance(Last(path), Last(Last(c).points))
    <3>1. cost(first) = u + v + Total(gap) /\ gap \in Seq(Nat) /\ Len(gap) = n - 1
      BY <2>3, CostTypes
    <3>2. path[1] = c[1].points[1] /\ Tip(path) = Tip(c[n].points)
      BY <2>3
    <3>g. /\ gap = [k \in 1 .. n - 1 |-> Distance(Tip(c[k].points), c[k + 1].points[1])]
          /\ v = Distance(Tip(path), Tip(c[n].points))
      BY <2>3 DEF Gaps, Last
    <3>3. \A k \in 1 .. n : c[k].points[1] \in Int /\ Tip(c[k].points) \in Int
      <4> TAKE k \in 1 .. n
      <4>1. c[k].points[1] \in Int /\ Last(c[k].points) \in Int
        BY DrawnEnds
      <4> HIDE DEF n
      <4> QED BY <4>1 DEF Last
    <3> HIDE DEF n, Tip, gap, u, v
    <3>4. 1 \in 1 .. n /\ n \in 1 .. n /\ \A k \in 1 .. n - 1 : k \in 1 .. n /\ k + 1 \in 1 .. n
      BY <2>2
    <3>5. u = 0 /\ v = 0
      BY <3>2, <3>3, <3>4, <3>g, DistanceNat DEF u
    <3>6. \A k \in 1 .. n - 1 : gap[k] = 0
      <4> TAKE k \in 1 .. n - 1
      <4>1. gap[k] = Distance(Tip(c[k].points), c[k + 1].points[1])
        BY <3>g
      <4>2. Tip(c[k].points) = c[k + 1].points[1] /\ c[k + 1].points[1] \in Int
        BY <2>4, <3>3, <3>4
      <4> QED BY <4>1, <4>2, DistanceNat
    <3>7. Total(gap) = 0
      BY <3>1, <3>6, TotalBounds
    <3> QED BY <3>1, <3>5, <3>7
  <2>7. CASE first = "SWATH"
    <3>1. cost("SWATH") = 0
      BY <2>6, <2>7
    <3> HIDE DEF cost, One, Other
    <3>2. cost("SWATH") <= cost("CONNECTION")
      BY <3>1, <2>5
    <3>3. Schedule(path, swaths, turns) = One
      BY <2>0, <3>2
    <3> QED BY <3>3, <2>7 DEF One
  <2>8. CASE first = "CONNECTION"
    <3>1. cost("CONNECTION") = 0
      BY <2>6, <2>8
    <3>2. cost("SWATH") > 0
      <4> DEFINE d == Drawn("SWATH", swaths, turns)
                 gap == Gaps(d)
                 u == Distance(path[1], d[1].points[1])
                 v == Distance(Last(path), Last(Last(d).points))
      <4>1. cost("SWATH") = u + v + Total(gap) /\ gap \in Seq(Nat) /\ Len(gap) = n - 1
            /\ u \in Nat /\ v \in Nat /\ Total(gap) \in Nat
        <5>1. Len(d) = n
          BY <2>1, DrawnParts
        <5> QED BY <5>1, <2>1, CostTypes
      <4>g. gap = [k \in 1 .. n - 1 |-> Distance(Tip(d[k].points), d[k + 1].points[1])]
        <5>1. Len(d) = n
          BY <2>1, DrawnParts
        <5> QED BY <5>1 DEF Gaps, Last
      <4>2. \A k \in 1 .. n : /\ d[k].points[1] \in Int /\ Tip(d[k].points) \in Int
                              /\ Ends(Alternating("SWATH", n)[k], swaths, turns)
                                   = <<d[k].points[1], Tip(d[k].points)>>
        <5> TAKE k \in 1 .. n
        <5>1. /\ d[k].points[1] \in Int /\ Last(d[k].points) \in Int
              /\ Ends(Alternating("SWATH", n)[k], swaths, turns) = <<d[k].points[1], Last(d[k].points)>>
          BY <2>1, DrawnEnds
        <5>2. Last(d[k].points) = Tip(d[k].points)
          BY DEF Last
        <5> HIDE DEF d, n, Tip
        <5> QED BY <5>1, <5>2
      <4>3. /\ c[1].points[1] \in Int
            /\ Ends(Alternating("CONNECTION", n)[1], swaths, turns) = <<c[1].points[1], Tip(c[1].points)>>
        <5>1. 1 \in 1 .. n
          BY <2>2
        <5>2. c[1].points[1] \in Int
          BY <5>1, DrawnEnds
        <5>3. Ends(Alternating(first, n)[1], swaths, turns) = <<c[1].points[1], Last(c[1].points)>>
          BY <5>1, DrawnEnds
        <5>4. Last(c[1].points) = Tip(c[1].points)
          BY DEF Last
        <5> HIDE DEF n, Tip
        <5> QED BY <5>2, <5>3, <5>4, <2>8
      <4>4. /\ Alternating("SWATH", n)[1] = [kind |-> "SWATH", of |-> 1]
            /\ Alternating("SWATH", n)[2] = [kind |-> "CONNECTION", of |-> 1]
            /\ Alternating("CONNECTION", n)[1] = [kind |-> "CONNECTION", of |-> 1]
        <5> HIDE DEF n
        <5>1. 1 \in 1 .. n /\ 2 \in 1 .. n /\ 1 % 2 = 1 /\ 2 % 2 # 1 /\ (1 + 1) \div 2 = 1 /\ (2 + 1) \div 2 = 1
          BY <2>2
        <5> QED BY <5>1 DEF Alternating
      <4>5. /\ Ends(Alternating("SWATH", n)[1], swaths, turns) = <<swaths[1].start, swaths[1].end>>
            /\ Ends(Alternating("SWATH", n)[2], swaths, turns) = <<turns[1][1], Last(turns[1])>>
            /\ Ends(Alternating("CONNECTION", n)[1], swaths, turns) = <<turns[1][1], Last(turns[1])>>
        BY <4>4 DEF Ends
      <4>6. swaths[1].start # swaths[1].end
        <5>1. swaths \in Seq(Swaths) /\ 1 \in 1 .. Len(swaths)
          BY <1>1 DEF Alternates
        <5>2. swaths[1] \in Swaths
          BY <5>1, ElementOfSeq
        <5> QED BY <5>2, SwathTurnTypes
      <4>7. path[1] = c[1].points[1]
        OBVIOUS
      <4> HIDE DEF d, Tip, n, a, b, gap
      <4>8. 1 \in 1 .. n /\ 2 \in 1 .. n /\ 1 \in 1 .. n - 1 /\ 1 + 1 = 2
        BY <2>2
      <4>9. d[1].points[1] = swaths[1].start /\ Tip(d[1].points) = swaths[1].end
            /\ d[2].points[1] = turns[1][1] /\ path[1] = turns[1][1]
        BY <4>2, <4>3, <4>5, <4>7, <4>8
      <4>10. CASE path[1] # d[1].points[1]
        <5>1. u # 0
          BY <4>10, <4>2, <4>3, <4>7, <4>8, DistanceNat
        <5> HIDE DEF u, v, gap, cost
        <5> QED BY <5>1, <4>1
      <4>11. CASE path[1] = d[1].points[1]
        <5>1. gap[1] = Distance(Tip(d[1].points), d[2].points[1])
          BY <4>8, <4>g
        <5>2. Tip(d[1].points) # d[2].points[1]
          BY <4>6, <4>9, <4>11
        <5>3. gap[1] # 0 /\ gap[1] \in Nat
          <6>1. Tip(d[1].points) \in Int /\ d[2].points[1] \in Int
            BY <4>2, <4>8
          <6> QED BY <5>1, <5>2, <6>1, DistanceNat
        <5> HIDE DEF u, v, gap, cost
        <5>4. gap[1] <= Total(gap)
          BY <4>1, <4>8, TotalBounds
        <5> QED BY <5>3, <5>4, <4>1
      <4> QED BY <4>10, <4>11
    <3> HIDE DEF cost, One, Other
    <3>3. ~(cost("SWATH") <= cost("CONNECTION"))
      BY <3>1, <3>2, <2>5
    <3>4. Schedule(path, swaths, turns) = Other
      BY <2>0, <3>3
    <3> QED BY <3>4, <2>8 DEF Other
  <2> QED BY <2>7, <2>8, <1>2
<1> QED
  <2> HIDE DEF a, b, n
  <2>1. a > b \/ a < b \/ a = b
    BY <1>1
  <2> QED BY <2>1, <1>4, <1>5, <1>6

----------------------------------------------------------------------------
Certain(p) == Len(p.swaths) # Len(p.turns) \/ Continuous(p)

LEMMA PlannedAlternates ==
  ASSUME SemanticsInit
  PROVE  Alternates(planned.first, planned.swaths, planned.turns) /\ planned.twice \in BOOLEAN
<1>1. PICK c \in Counts, d \in BOOLEAN :
        \E s \in [1 .. c[1] -> Swaths], t \in [1 .. c[2] -> Turns], f \in First(c) :
          planned = [swaths |-> s, turns |-> t, first |-> f, twice |-> d]
  BY DEF SemanticsInit
<1>2. PICK s \in [1 .. c[1] -> Swaths], t \in [1 .. c[2] -> Turns], f \in First(c) :
        planned = [swaths |-> s, turns |-> t, first |-> f, twice |-> d]
  BY <1>1
<1>3. /\ c[1] \in Nat /\ c[1] >= 1 /\ c[2] \in Nat
      /\ c[1] = c[2] \/ c[1] = c[2] + 1 \/ c[2] = c[1] + 1
  <2>1. c[1] \in 1 .. MaxSwaths /\ c[2] \in 0 .. MaxSwaths /\ c[1] - c[2] \in {-1, 0, 1}
    BY DEF Counts
  <2>2. c[1] \in Nat /\ c[1] >= 1 /\ c[2] \in Nat
    BY <2>1, SemanticsAssumption
  <2> QED BY <2>1, <2>2
<1>4. \/ f = "SWATH" /\ c[1] >= c[2]
      \/ f = "CONNECTION" /\ c[1] <= c[2]
  BY DEF First
<1>5. s \in Seq(Swaths) /\ Len(s) = c[1] /\ t \in Seq(Turns) /\ Len(t) = c[2]
  BY <1>3
<1>6. planned.swaths = s /\ planned.turns = t /\ planned.first = f /\ planned.twice = d
  BY <1>2
<1>7. Alternates(f, s, t)
  <2>1. \/ f = "SWATH" /\ (c[1] = c[2] \/ c[1] = c[2] + 1)
        \/ f = "CONNECTION" /\ (c[2] = c[1] \/ c[2] = c[1] + 1)
    BY <1>3, <1>4
  <2> QED BY <2>1, <1>3, <1>5 DEF Alternates
<1> QED BY <1>6, <1>7

\* Of the path made of the components c, BuildPathSemantics finds the origins, and it accepts it.
Labelled(c, once, swaths, turns) ==
  LET made == Flattened(c, once)
      schedule == Schedule(made.points, swaths, turns)
      flat == Flattened([k \in DOMAIN schedule |-> Component(schedule[k], swaths, turns)], TRUE)
      labels == RawLabels(made.points, flat)
  IN  /\ Total(Steps(made.points)) = Total(Steps(flat.points))
      /\ \A i \in DOMAIN labels : made.points[i] # made.points[i + 1] => labels[i] = made.labels[i]
      /\ Parsed(Stretches(labels), Len(labels)) = labels

LEMMA LabelsOfPlan ==
  ASSUME NEW first, NEW swaths, NEW turns, Alternates(first, swaths, turns), NEW once \in BOOLEAN,
         NEW c, c = Drawn(first, swaths, turns),
         Len(swaths) # Len(turns)
           \/ \A k \in 1 .. Len(c) - 1 : Last(c[k].points) = c[k + 1].points[1]
  PROVE  Labelled(c, once, swaths, turns)
<1> DEFINE n == Len(swaths) + Len(turns)
           order == Alternating(first, n)
           made == Flattened(c, once)
           flat == Flattened(c, TRUE)
           schedule == Schedule(made.points, swaths, turns)
           labels == RawLabels(made.points, flat)
<1>1. c \in Seq(Parts) /\ Len(c) = n /\ n \in Nat /\ n >= 1 /\ DOMAIN order = 1 .. n
  <2>1. n \in Nat /\ n >= 1
    BY AlternatingTypes
  <2>2. DOMAIN order = 1 .. n
    BY DEF Alternating
  <2>3. c \in Seq(Parts)
    BY DrawnParts
  <2>4. Len(c) = n
    BY DrawnParts
  <2> QED BY <2>1, <2>2, <2>3, <2>4
<1>2. c # <<>>
  <2> HIDE DEF n
  <2> QED BY <1>1
<1> HIDE DEF made
<1>4. /\ Carries(flat, made)
      /\ flat.points[1] = c[1].points[1]
      /\ flat.points[Len(flat.points)] = c[Len(c)].points[Len(c[Len(c)].points)]
  <2> QED BY <1>1, <1>2, FlattenedCarries DEF made
<1>5. Fits(made) /\ Fits(flat) /\ made.points[1] = flat.points[1]
      /\ made.points[Len(made.points)] = flat.points[Len(flat.points)]
      /\ Measure(flat)[Len(flat.labels)] = Measure(made)[Len(made.labels)]
  BY <1>4 DEF Carries
<1>6. made.points \in Seq(Int) /\ made.points # <<>>
  BY <1>5, FitsTypes
<1>7. schedule = order
  <2> DEFINE path == made.points
  <2>1. path[1] = c[1].points[1]
    BY <1>4, <1>5
  <2>2. path[Len(path)] = c[Len(c)].points[Len(c[Len(c)].points)]
    BY <1>4, <1>5
  <2>3. path \in Seq(Int) /\ path # <<>>
    BY <1>6
  <2> HIDE DEF path
  <2>4. Schedule(path, swaths, turns) = Alternating(first, Len(swaths) + Len(turns))
    BY <2>1, <2>2, <2>3, ScheduleAsDrawn
  <2> QED BY <2>4 DEF path
<1>8. [k \in DOMAIN schedule |-> Component(schedule[k], swaths, turns)] = c
  <2> HIDE DEF schedule
  <2> QED BY <1>7, Zenon DEF Drawn
<1>9. /\ labels = [i \in 1 .. Len(made.labels) |-> labels[i]]
      /\ \A i \in 1 .. Len(made.labels) : made.points[i] # made.points[i + 1] => labels[i] = made.labels[i]
  <2> HIDE DEF flat
  <2> QED BY <1>4, RawLabelsOrigin
<1>10. Total(Steps(made.points)) = Total(Steps(flat.points))
  <2>1. \A x : Fits(x) => Total(Steps(x.points)) = Measure(x)[Len(x.labels)]
    <3> TAKE x
    <3> HAVE Fits(x)
    <3>1. Len(Steps(x.points)) = Len(x.labels)
      BY FitsTypes, MeasureTypes
    <3> QED BY <3>1 DEF Total, Measure
  <2> HIDE DEF flat
  <2> QED BY <2>1, <1>5
<1>11. Parsed(Stretches(labels), Len(labels)) = labels
  <2> DEFINE L == {labels[i] : i \in 1 .. Len(made.labels)}
  <2>1. Len(made.labels) \in Nat
    BY <1>5, FitsTypes
  <2> HIDE DEF labels
  <2>2. labels \in Seq(L)
    BY <2>1, <1>9
  <2> HIDE DEF L
  <2> QED BY <2>2, ParsedAgain
<1>12. DOMAIN labels = 1 .. Len(made.labels)
  <2> HIDE DEF labels
  <2> QED BY <1>9
<1> HIDE DEF labels
<1>13. \A i \in DOMAIN labels : made.points[i] # made.points[i + 1] => labels[i] = made.labels[i]
  BY <1>9, <1>12
<1> HIDE DEF flat, schedule
<1>14. Labelled(c, once, swaths, turns)
         <=> /\ Total(Steps(made.points)) = Total(Steps(flat.points))
             /\ \A i \in DOMAIN labels : made.points[i] # made.points[i + 1] => labels[i] = made.labels[i]
             /\ Parsed(Stretches(labels), Len(labels)) = labels
  BY <1>8, Zenon DEF Labelled, labels, flat, made, schedule
<1> QED BY <1>10, <1>11, <1>13, <1>14

\* The length of the path, which build_path_semantics compares with that of the
\* components in the order it found.
LengthsAgree(p) ==
  LET path == Made(p).points
      schedule == Schedule(path, p.swaths, p.turns)
      components == [k \in DOMAIN schedule |-> Component(schedule[k], p.swaths, p.turns)]
  IN  Total(Steps(path)) = Total(Steps(Flattened(components, TRUE).points))

SemanticsInv ==
  /\ Alternates(planned.first, planned.swaths, planned.turns) /\ planned.twice \in BOOLEAN
  /\ LabelsAreOrigins

\* The labels of a path are those of the components it was made of, and so are the
\* labels read from its document, for any number of swaths and turns, anywhere.
THEOREM LabelsAlwaysOrigins == SemanticsSpec => []LabelsAreOrigins
<1>1. SemanticsInit => SemanticsInv
  BY PlannedAlternates DEF SemanticsInv, LabelsAreOrigins, SemanticsInit
<1>2. SemanticsInv /\ [BuildPathSemantics]_semanticsVars => SemanticsInv'
  <2> SUFFICES ASSUME SemanticsInv, [BuildPathSemantics]_semanticsVars
               PROVE  SemanticsInv'
    OBVIOUS
  <2>1. CASE BuildPathSemantics
    <3> DEFINE made == Made(planned)
               schedule == Schedule(made.points, planned.swaths, planned.turns)
               flat == Flattened([k \in DOMAIN schedule |->
                                    Component(schedule[k], planned.swaths, planned.turns)], TRUE)
               labels == RawLabels(made.points, flat)
    <3>1. planned' = planned /\ labelled' = [labels |-> labels, document |-> Stretches(labels)]
      BY <2>1, Zenon DEF BuildPathSemantics
    <3>2. ASSUME Certain(planned)
          PROVE  /\ \A i \in DOMAIN labels : made.points[i] # made.points[i + 1] => labels[i] = made.labels[i]
                 /\ Parsed(Stretches(labels), Len(labels)) = labels
      <4> DEFINE c == Drawn(planned.first, planned.swaths, planned.turns)
      <4>1. Alternates(planned.first, planned.swaths, planned.turns)
        BY DEF SemanticsInv
      <4>2. (~planned.twice) \in BOOLEAN
        OBVIOUS
      <4>3. \/ Len(planned.swaths) # Len(planned.turns)
            \/ \A k \in 1 .. Len(c) - 1 : Last(c[k].points) = c[k + 1].points[1]
        BY <3>2, Zenon DEF Certain, Continuous
      <4>4. made = Flattened(c, ~planned.twice)
        BY Zenon DEF Made
      <4>5. \A once \in BOOLEAN : Labelled(c, once, planned.swaths, planned.turns)
        BY <4>1, <4>3, LabelsOfPlan
      <4>6. Labelled(c, ~planned.twice, planned.swaths, planned.turns)
        BY <4>2, <4>5
      <4> HIDE DEF c
      <4> QED BY <4>4, <4>6, Zenon DEF Labelled
    <3> HIDE DEF labels, made
    <3>3. labelled'.labels = labels /\ labelled'.document = Stretches(labels)
      BY <3>1
    <3>4. LabelsAreOrigins'
      <4> SUFFICES ASSUME Certain(planned)
                   PROVE  /\ \A i \in DOMAIN labels :
                               made.points[i] # made.points[i + 1] => labels[i] = made.labels[i]
                          /\ Parsed(Stretches(labels), Len(labels)) = labels
        BY <3>1, <3>3 DEF LabelsAreOrigins, Certain, made
      <4> QED BY <3>2
    <3> QED BY <3>1, <3>4 DEF SemanticsInv
  <2>2. CASE UNCHANGED semanticsVars
    BY <2>2 DEF SemanticsInv, LabelsAreOrigins, semanticsVars
  <2> QED BY <2>1, <2>2
<1>3. SemanticsInv => LabelsAreOrigins
  BY DEF SemanticsInv
<1> QED BY <1>1, <1>2, <1>3, PTL DEF SemanticsSpec

\* A path that was made of the components it comes with is not refused for its
\* length, if their order is certain.
THEOREM PlansNeverRefused == SemanticsSpec => [](Certain(planned) => LengthsAgree(planned))
<1> DEFINE Accepted == Certain(planned) => LengthsAgree(planned)
<1>1. Alternates(planned.first, planned.swaths, planned.turns) /\ planned.twice \in BOOLEAN => Accepted
  <2> SUFFICES ASSUME Alternates(planned.first, planned.swaths, planned.turns), Certain(planned)
               PROVE  LengthsAgree(planned)
    OBVIOUS
  <2> DEFINE c == Drawn(planned.first, planned.swaths, planned.turns)
  <2>1. \/ Len(planned.swaths) # Len(planned.turns)
        \/ \A k \in 1 .. Len(c) - 1 : Last(c[k].points) = c[k + 1].points[1]
    BY Zenon DEF Certain, Continuous
  <2>2. \A once \in BOOLEAN : Labelled(c, once, planned.swaths, planned.turns)
    BY <2>1, LabelsOfPlan
  <2>3. (~planned.twice) \in BOOLEAN
    OBVIOUS
  <2>4. Labelled(c, ~planned.twice, planned.swaths, planned.turns)
    BY <2>2, <2>3
  <2>5. Made(planned) = Flattened(c, ~planned.twice)
    BY Zenon DEF Made
  <2> HIDE DEF c
  <2> QED BY <2>4, <2>5, Zenon DEF Labelled, LengthsAgree
<1> HIDE DEF Accepted
<1>2. SemanticsInit => Accepted
  BY <1>1, PlannedAlternates
<1>3. Accepted /\ [BuildPathSemantics]_semanticsVars => Accepted'
  <2> SUFFICES ASSUME [BuildPathSemantics]_semanticsVars
               PROVE  planned' = planned
    BY DEF Accepted, LengthsAgree, Certain
  <2> QED BY Zenon DEF BuildPathSemantics, semanticsVars
<1>4. SemanticsSpec => []Accepted
  BY <1>2, <1>3, PTL DEF SemanticsSpec
<1> QED BY <1>4 DEF Accepted
=============================================================================
