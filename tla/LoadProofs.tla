----------------------------- MODULE LoadProofs -----------------------------
(***************************************************************************)
(* Measuring the current adds nothing to what the checks may do: whatever  *)
(* the interrupt stores and whenever adc reads it, each step is a step of  *)
(* AlarmChecks or leaves its state alone.  What AlarmProofs shows of the   *)
(* checks, for free readings, thus holds with the measured ones.           *)
(*                                                                         *)
(* What they read is the mean of the last readings: the ring, from the     *)
(* place of the next reading on, is these in their order (RingInv).  A     *)
(* reading replaces the oldest one, and changes both sums alike.           *)
(***************************************************************************)
EXTENDS LoadProtection, AlarmProofs, FiniteSetTheorems, WellFoundedInduction

\* A regulation cycle opens the contactor without an alarm, or leaves the state
\* of the checks alone.
LEMMA RegulateStep ==
  ASSUME NEW reading, Regulate(reading), closed \in BOOLEAN
  PROVE  Open \/ UNCHANGED vars
<1>1. closed /\ UNCHANGED <<alarms, counters, stack, history>>
  BY DEF Regulate
<1>2. closed' = ~DiedDown /\ DiedDown \in BOOLEAN
  BY DEF Regulate, DiedDown
<1>3. CASE closed' = FALSE
  BY <1>1, <1>3 DEF Open
<1>4. CASE closed' = TRUE
  BY <1>1, <1>4, Zenon DEF vars
<1>. QED
  BY <1>2, <1>3, <1>4

LEMMA StepImplements ==
  ASSUME closed \in BOOLEAN, [PNext]_pvars
  PROVE  [Next]_vars
<1>1. CASE UNCHANGED pvars
  BY <1>1 DEF pvars
<1>2. ASSUME NEW reading \in Currents, Regulate(reading) PROVE [Next]_vars
  BY <1>2, RegulateStep DEF Next
<1>3. CASE AdcOn
  BY <1>3 DEF AdcOn, Next
<1>4. CASE AdcOff
  BY <1>4 DEF AdcOff
<1>5. CASE Others
  BY <1>5 DEF Others, Next
<1>. QED
  BY <1>1, <1>2, <1>3, <1>4, <1>5 DEF PNext

\* The measured protection implements the checks with free readings
\* (adc_sample.c:168-199): measuring, averaging and the adc thread's 0 change
\* neither a counter nor an alarm.
THEOREM MeasuringImplementsChecks == PSpec => Spec
<1>1. PInit => Init
  BY DEF PInit
<1>2. Init => closed \in BOOLEAN
  BY DEF Init
<1>3. closed \in BOOLEAN /\ [PNext]_pvars => (closed \in BOOLEAN)'
  <2> SUFFICES ASSUME closed \in BOOLEAN, [PNext]_pvars PROVE closed' \in BOOLEAN
    OBVIOUS
  <2>1. [Next]_vars
    BY StepImplements
  <2>. QED
    BY <2>1 DEF Next, vars, Period, Close, Open, WriteAlarms
<1>4. closed \in BOOLEAN /\ [PNext]_pvars => [Next]_vars
  BY StepImplements
<1>. QED
  BY <1>1, <1>2, <1>3, <1>4, PTL DEF PSpec, Spec

\* A measured over-current that lasts trips (alarm.c:177-183), for any window,
\* currents, limits and thresholds.
THEOREM MeasuredOverCurrentTrips == PSpec => []OverCurTrips
BY MeasuringImplementsChecks, OverCurrentTrips, PTL

\* A measured current that did not last raises nothing (alarm.c:172-202).
THEOREM MeasuredOverCurrentSustained == PSpec => OverCurIsSustained
BY MeasuringImplementsChecks, OverCurrentSustained, PTL

-----------------------------------------------------------------------------
(* Induction on numbers, and sums.  An induction is done over the set of the *)
(* numbers that have the property, with the least number that has it not:    *)
(* theorem WFMin takes a set, where NatInduction takes an operator.          *)

LEMMA LeastNat ==
  ASSUME NEW T, T \subseteq Nat, T # {}
  PROVE  \E x \in T : \A y \in T : x <= y
<1>1. PICK x \in T : \A y \in T : ~ (<<y, x>> \in OpToRel(<, Nat))
  BY NatLessThanWellFounded, WFMin
<1>2. \A y \in T : y \in Nat /\ x \in Nat /\ ~ (y < x)
  BY <1>1 DEF OpToRel
<1>3. \A y \in T : x <= y
  BY <1>2
<1>. QED
  BY <1>3

\* Induction, for properties written as sets of numbers.
LEMMA CountUp ==
  ASSUME NEW T, 0 \in T, \A n \in Nat : n \in T => n + 1 \in T
  PROVE  \A n \in Nat : n \in T
<1> SUFFICES ASSUME NEW k \in Nat, k \notin T PROVE FALSE
  OBVIOUS
<1>1. PICK n \in Nat \ T : \A m \in Nat \ T : n <= m
  <2>1. Nat \ T \subseteq Nat /\ Nat \ T # {}
    OBVIOUS
  <2>. QED
    BY <2>1, LeastNat
<1>2. n # 0 /\ n - 1 \in Nat
  BY <1>1
<1>3. n - 1 \in T
  BY <1>1, <1>2
<1>. QED
  BY <1>1, <1>2, <1>3

\* The element the fold of Total adds next.
Picked(s) == CHOOSE x \in s : TRUE

LEMMA PickedIn == ASSUME NEW s, s # {} PROVE Picked(s) \in s
BY DEF Picked

\* What is left of a set once one element is taken out of it.
LEMMA OneLess ==
  ASSUME NEW S, IsFiniteSet(S), NEW x \in S
  PROVE  /\ IsFiniteSet(S \ {x})
         /\ Cardinality(S) \in Nat /\ Cardinality(S) # 0
         /\ Cardinality(S \ {x}) = Cardinality(S) - 1
BY FS_CardinalityType, FS_RemoveElement, FS_EmptySet

\* g[s] is the sum of f over s, for each subset s of S.
SumsOver(g, S, f) ==
  \A s \in SUBSET S : g[s] = IF s = {} THEN 0 ELSE f[Picked(s)] + g[s \ {Picked(s)}]

\* What Total computes is determined by its equation,
LEMMA SumsAgree ==
  ASSUME NEW S, IsFiniteSet(S), NEW f, NEW g, NEW h, SumsOver(g, S, f), SumsOver(h, S, f)
  PROVE  g[S] = h[S]
<1> DEFINE T == {n \in Nat : \A s \in SUBSET S : Cardinality(s) = n => g[s] = h[s]}
<1>1. \A s \in SUBSET S : IsFiniteSet(s) /\ Cardinality(s) \in Nat
  BY FS_Subset, FS_CardinalityType
<1>2. 0 \in T
  <2>1. \A s \in SUBSET S : Cardinality(s) = 0 => s = {}
    BY <1>1, FS_EmptySet
  <2>. QED
    BY <2>1 DEF SumsOver
<1>3. ASSUME NEW n \in Nat, n \in T PROVE n + 1 \in T
  <2> SUFFICES ASSUME NEW s \in SUBSET S, Cardinality(s) = n + 1 PROVE g[s] = h[s]
    OBVIOUS
  <2>1. s # {}
    BY FS_EmptySet
  <2>2. Picked(s) \in s
    BY <2>1, PickedIn
  <2>3. s \ {Picked(s)} \in SUBSET S /\ Cardinality(s \ {Picked(s)}) = n
    BY <1>1, <2>2, OneLess
  <2>4. g[s \ {Picked(s)}] = h[s \ {Picked(s)}]
    BY <1>3, <2>3
  <2>. QED
    BY <2>1, <2>4 DEF SumsOver
<1> HIDE DEF T
<1>4. \A n \in Nat : n \in T
  BY <1>2, <1>3, CountUp
<1>. QED
  BY <1>1, <1>4 DEF T

\* and there is a function that satisfies it.
LEMMA SumsExist ==
  ASSUME NEW S, IsFiniteSet(S), NEW f, \A x \in S : f[x] \in Int
  PROVE  \E g \in [SUBSET S -> Int] : SumsOver(g, S, f)
<1> DEFINE UpTo(n, g) ==
             \A s \in SUBSET S : Cardinality(s) <= n =>
               g[s] = IF s = {} THEN 0 ELSE f[Picked(s)] + g[s \ {Picked(s)}]
           T == {n \in Nat : \E g \in [SUBSET S -> Int] : UpTo(n, g)}
<1>1. \A s \in SUBSET S : IsFiniteSet(s) /\ Cardinality(s) \in Nat
  BY FS_Subset, FS_CardinalityType
<1>2. 0 \in T
  <2>1. \A s \in SUBSET S : Cardinality(s) <= 0 => s = {}
    BY <1>1, FS_EmptySet
  <2>2. [s \in SUBSET S |-> 0] \in [SUBSET S -> Int] /\ UpTo(0, [s \in SUBSET S |-> 0])
    BY <2>1
  <2>. QED
    BY <2>2
<1>3. ASSUME NEW n \in Nat, n \in T PROVE n + 1 \in T
  <2>1. PICK g \in [SUBSET S -> Int] : UpTo(n, g)
    BY <1>3
  <2> DEFINE Sum(s) == IF s = {} THEN 0 ELSE f[Picked(s)] + g[s \ {Picked(s)}]
             h == [s \in SUBSET S |-> Sum(s)]
  <2>2. ASSUME NEW s \in SUBSET S, s # {}
        PROVE  /\ f[Picked(s)] \in Int /\ s \ {Picked(s)} \in SUBSET S
               /\ Cardinality(s \ {Picked(s)}) = Cardinality(s) - 1
    <3>1. Picked(s) \in s
      BY <2>2, PickedIn
    <3>. QED
      BY <1>1, <3>1, OneLess
  <2>3. h \in [SUBSET S -> Int]
    <3>1. ASSUME NEW s \in SUBSET S PROVE Sum(s) \in Int
      <4>1. CASE s # {}
        <5>1. f[Picked(s)] \in Int /\ g[s \ {Picked(s)}] \in Int
          BY <2>1, <2>2, <4>1
        <5>. QED
          BY <4>1, <5>1
      <4>. QED
        BY <4>1
    <3>. QED
      BY <3>1
  <2>4. UpTo(n + 1, h)
    <3> SUFFICES ASSUME NEW s \in SUBSET S, Cardinality(s) <= n + 1, s # {}
                 PROVE  h[s] = f[Picked(s)] + h[s \ {Picked(s)}]
      OBVIOUS
    <3> DEFINE t == s \ {Picked(s)}
    <3>1. t \in SUBSET S /\ Cardinality(t) <= n
      BY <1>1, <2>2
    <3>2. g[t] = Sum(t)
      BY <2>1, <3>1
    <3>3. h[t] = Sum(t) /\ h[s] = Sum(s)
      BY <3>1
    <3>. QED
      BY <3>2, <3>3
  <2> HIDE DEF h, UpTo
  <2>5. n + 1 \in Nat /\ \E w \in [SUBSET S -> Int] : UpTo(n + 1, w)
    BY <2>3, <2>4
  <2>. QED
    BY <2>5
<1> HIDE DEF T
<1>4. Cardinality(S) \in T
  BY <1>1, <1>2, <1>3, CountUp
<1>5. PICK g \in [SUBSET S -> Int] : UpTo(Cardinality(S), g)
  BY <1>4 DEF T
<1>6. \A s \in SUBSET S : Cardinality(s) <= Cardinality(S)
  BY FS_Subset
<1>. QED
  BY <1>5, <1>6 DEF SumsOver

\* Total is such a function.
LEMMA TotalIs ==
  ASSUME NEW S, IsFiniteSet(S), NEW f, \A x \in S : f[x] \in Int
  PROVE  \E g \in [SUBSET S -> Int] : SumsOver(g, S, f) /\ Total(S, f) = g[S]
<1> DEFINE Sums(g) == g = [s \in SUBSET S |->
                             IF s = {} THEN 0 ELSE f[Picked(s)] + g[s \ {Picked(s)}]]
           iter == CHOOSE g : Sums(g)
<1>1. Total(S, f) = iter[S]
  BY DEF Total, FoldFunctionOnSet, MapThenFoldSet, Picked
<1>2. PICK g \in [SUBSET S -> Int] : SumsOver(g, S, f)
  BY SumsExist
<1>3. Sums(g)
  BY <1>2 DEF SumsOver
<1>4. Sums(iter)
  BY <1>3
<1> HIDE DEF iter
<1>5. SumsOver(iter, S, f)
  BY <1>4 DEF SumsOver
<1>6. iter[S] = g[S]
  BY <1>2, <1>5, SumsAgree
<1>. QED
  BY <1>1, <1>2, <1>6

LEMMA TotalStep ==
  ASSUME NEW S, IsFiniteSet(S), NEW f, \A x \in S : f[x] \in Int
  PROVE  /\ Total(S, f) \in Int
         /\ S = {} => Total(S, f) = 0
         /\ S # {} => Total(S, f) = f[Picked(S)] + Total(S \ {Picked(S)}, f)
<1>1. PICK g \in [SUBSET S -> Int] : SumsOver(g, S, f) /\ Total(S, f) = g[S]
  BY TotalIs
<1>2. ASSUME S # {} PROVE Total(S \ {Picked(S)}, f) = g[S \ {Picked(S)}]
  <2> DEFINE R == S \ {Picked(S)}
  <2>1. R \subseteq S /\ IsFiniteSet(R) /\ \A x \in R : f[x] \in Int
    BY <1>2, PickedIn, OneLess
  <2> HIDE DEF R
  <2>2. PICK h \in [SUBSET R -> Int] : SumsOver(h, R, f) /\ Total(R, f) = h[R]
    BY <2>1, TotalIs
  <2>3. SumsOver(g, R, f)
    BY <1>1, <2>1 DEF SumsOver
  <2>4. Total(R, f) = g[R]
    BY <2>1, <2>2, <2>3, SumsAgree
  <2>. QED
    BY <2>4 DEF R
<1>. QED
  BY <1>1, <1>2 DEF SumsOver

\* Any element may be taken out first.
LEMMA TotalRemove ==
  ASSUME NEW S, IsFiniteSet(S), NEW f, \A x \in S : f[x] \in Int, NEW e \in S
  PROVE  Total(S, f) = f[e] + Total(S \ {e}, f)
<1> DEFINE T == {n \in Nat : \A s \in SUBSET S : \A x \in s :
                   Cardinality(s) = n => Total(s, f) = f[x] + Total(s \ {x}, f)}
<1>1. \A s \in SUBSET S : IsFiniteSet(s) /\ Cardinality(s) \in Nat
  BY FS_Subset, FS_CardinalityType
<1>2. 0 \in T
  <2>1. \A s \in SUBSET S : Cardinality(s) = 0 => s = {}
    BY <1>1, FS_EmptySet
  <2>. QED
    BY <2>1
<1>3. ASSUME NEW n \in Nat, n \in T PROVE n + 1 \in T
  <2> SUFFICES ASSUME NEW s \in SUBSET S, NEW x \in s, Cardinality(s) = n + 1
               PROVE  Total(s, f) = f[x] + Total(s \ {x}, f)
    OBVIOUS
  <2> DEFINE c == Picked(s)
  <2>1. c \in s
    BY PickedIn
  <2> HIDE DEF c
  <2>2. Total(s, f) = f[c] + Total(s \ {c}, f)
    BY <1>1, TotalStep DEF c
  <2>3. CASE x # c
    <3> DEFINE r == (s \ {x}) \ {c}
    <3>1. /\ s \ {x} \in SUBSET S /\ c \in s \ {x} /\ Cardinality(s \ {x}) = n
          /\ s \ {c} \in SUBSET S /\ x \in s \ {c} /\ Cardinality(s \ {c}) = n
      BY <1>1, <2>1, <2>3, OneLess
    <3>2. Total(s \ {x}, f) = f[c] + Total(r, f)
      BY <1>3, <3>1
    <3>3. (s \ {c}) \ {x} = r
      OBVIOUS
    <3>4. Total(s \ {c}, f) = f[x] + Total(r, f)
      BY <1>3, <3>1, <3>3
    <3>5. r \in SUBSET S
      OBVIOUS
    <3> HIDE DEF r
    <3>6. Total(r, f) \in Int
      BY <1>1, <3>5, TotalStep
    <3>7. f[c] \in Int /\ f[x] \in Int
      BY <2>1
    <3>. QED
      BY <2>2, <3>2, <3>4, <3>6, <3>7
  <2>. QED
    BY <2>2, <2>3
<1> HIDE DEF T
<1>4. Cardinality(S) \in T
  BY <1>1, <1>2, <1>3, CountUp
<1>. QED
  BY <1>4 DEF T

\* A sum depends on what is summed only.
LEMMA TotalSame ==
  ASSUME NEW S, IsFiniteSet(S), NEW f, \A x \in S : f[x] \in Int,
         NEW g, \A x \in S : g[x] = f[x]
  PROVE  Total(S, f) = Total(S, g)
<1> DEFINE T == {n \in Nat : \A s \in SUBSET S :
                   Cardinality(s) = n => Total(s, f) = Total(s, g)}
<1>1. \A s \in SUBSET S : IsFiniteSet(s) /\ Cardinality(s) \in Nat
  BY FS_Subset, FS_CardinalityType
<1>2. 0 \in T
  <2>1. \A s \in SUBSET S : Cardinality(s) = 0 => s = {}
    BY <1>1, FS_EmptySet
  <2>2. Total({}, f) = 0 /\ Total({}, g) = 0
    BY TotalStep, FS_EmptySet
  <2>. QED
    BY <2>1, <2>2
<1>3. ASSUME NEW n \in Nat, n \in T PROVE n + 1 \in T
  <2> SUFFICES ASSUME NEW s \in SUBSET S, Cardinality(s) = n + 1
               PROVE  Total(s, f) = Total(s, g)
    OBVIOUS
  <2>1. s # {}
    BY FS_EmptySet
  <2>2. PICK x \in s : TRUE
    BY <2>1
  <2>3. s \ {x} \in SUBSET S /\ Cardinality(s \ {x}) = n
    BY <1>1, OneLess
  <2>4. Total(s \ {x}, f) = Total(s \ {x}, g)
    BY <1>3, <2>3
  <2>5. Total(s, f) = f[x] + Total(s \ {x}, f) /\ Total(s, g) = g[x] + Total(s \ {x}, g)
    BY <1>1, TotalRemove
  <2>. QED
    BY <2>4, <2>5
<1> HIDE DEF T
<1>4. Cardinality(S) \in T
  BY <1>1, <1>2, <1>3, CountUp
<1>. QED
  BY <1>4 DEF T

\* Readings that have all moved on by one place.
LEMMA TotalShift ==
  ASSUME NEW n \in Nat, NEW f, \A i \in 1 .. n + 1 : f[i] \in Int,
         NEW g, \A i \in 1 .. n : g[i] = f[i + 1]
  PROVE  Total(1 .. n + 1, f) = f[1] + Total(1 .. n, g)
<1> DEFINE T == {k \in Nat : k <= n => Total(1 .. k + 1, f) = f[1] + Total(1 .. k, g)}
<1>1. \A k \in Nat : IsFiniteSet(1 .. k)
  BY FS_Interval
<1>2. 0 \in T
  <2>1. 1 .. 0 + 1 = {1} /\ {1} \ {1} = {} /\ 1 .. 0 = {}
    OBVIOUS
  <2>2. Total({}, f) = 0 /\ Total({}, g) = 0
    BY TotalStep, FS_EmptySet
  <2>3. Total({1}, f) = f[1] + Total({1} \ {1}, f)
    <3>1. 1 \in 1 .. n + 1
      OBVIOUS
    <3>2. \A x \in {1} : f[x] \in Int
      BY <3>1
    <3>. QED
      BY <3>2, TotalRemove, FS_Singleton
  <2>4. Total(1 .. 0 + 1, f) = f[1] + Total(1 .. 0, g)
    BY <2>1, <2>2, <2>3
  <2>. QED
    BY <2>4
<1>3. ASSUME NEW k \in Nat, k \in T PROVE k + 1 \in T
  <2> SUFFICES ASSUME k + 1 <= n
               PROVE  Total(1 .. k + 1 + 1, f) = f[1] + Total(1 .. k + 1, g)
    OBVIOUS
  <2>1. Total(1 .. k + 1, f) = f[1] + Total(1 .. k, g)
    BY <1>3
  <2>2. PICK m \in Nat : m = k + 1
    OBVIOUS
  <2>3. Total(1 .. m + 1, f) = f[m + 1] + Total(1 .. m, f)
    <3>1. /\ IsFiniteSet(1 .. m + 1) /\ m + 1 \in 1 .. m + 1
          /\ \A i \in 1 .. m + 1 : f[i] \in Int
          /\ (1 .. m + 1) \ {m + 1} = 1 .. m
      BY <1>1, <2>2
    <3>2. Total(1 .. m + 1, f) = f[m + 1] + Total((1 .. m + 1) \ {m + 1}, f)
      BY <3>1, TotalRemove
    <3>. QED
      BY <3>1, <3>2
  <2>4. Total(1 .. m, g) = g[m] + Total(1 .. k, g) /\ Total(1 .. k, g) \in Int
    <3>1. /\ IsFiniteSet(1 .. m) /\ m \in 1 .. m
          /\ \A i \in 1 .. m : g[i] \in Int
          /\ (1 .. m) \ {m} = 1 .. k
      BY <1>1, <2>2
    <3>2. Total(1 .. m, g) = g[m] + Total((1 .. m) \ {m}, g)
      BY <3>1, TotalRemove
    <3>3. IsFiniteSet(1 .. k) /\ \A i \in 1 .. k : g[i] \in Int
      BY <1>1
    <3>4. Total(1 .. k, g) \in Int
      BY <3>3, TotalStep
    <3>. QED
      BY <3>1, <3>2, <3>4
  <2>5. g[m] = f[m + 1] /\ f[1] \in Int /\ f[m + 1] \in Int
    BY <2>2
  <2>. QED
    BY <2>1, <2>2, <2>3, <2>4, <2>5
<1> HIDE DEF T
<1>4. n \in T
  BY <1>2, <1>3, CountUp
<1>. QED
  BY <1>4 DEF T

\* One reading is replaced.
LEMMA TotalReplace ==
  ASSUME NEW S, IsFiniteSet(S), NEW f, \A x \in S : f[x] \in Int, NEW e \in S,
         NEW v \in Int, NEW g, g[e] = v, \A x \in S \ {e} : g[x] = f[x]
  PROVE  Total(S, g) = Total(S, f) - f[e] + v
<1>1. Total(S, f) = f[e] + Total(S \ {e}, f)
  BY TotalRemove
<1>2. \A x \in S : g[x] \in Int
  OBVIOUS
<1>3. Total(S, g) = g[e] + Total(S \ {e}, g)
  BY <1>2, TotalRemove
<1>4. IsFiniteSet(S \ {e})
  BY OneLess
<1>5. Total(S \ {e}, f) = Total(S \ {e}, g)
  BY <1>4, TotalSame
<1>6. Total(S \ {e}, f) \in Int
  BY <1>4, TotalStep
<1>. QED
  BY <1>1, <1>3, <1>5, <1>6

LEMMA TotalZero ==
  ASSUME NEW S, IsFiniteSet(S), NEW f, \A x \in S : f[x] = 0
  PROVE  Total(S, f) = 0
<1> DEFINE T == {n \in Nat : \A s \in SUBSET S : Cardinality(s) = n => Total(s, f) = 0}
<1>1. \A s \in SUBSET S : IsFiniteSet(s) /\ Cardinality(s) \in Nat
  BY FS_Subset, FS_CardinalityType
<1>2. 0 \in T
  <2>1. \A s \in SUBSET S : Cardinality(s) = 0 => s = {}
    BY <1>1, FS_EmptySet
  <2>2. Total({}, f) = 0
    BY TotalStep, FS_EmptySet
  <2>. QED
    BY <2>1, <2>2
<1>3. ASSUME NEW n \in Nat, n \in T PROVE n + 1 \in T
  <2> SUFFICES ASSUME NEW s \in SUBSET S, Cardinality(s) = n + 1 PROVE Total(s, f) = 0
    OBVIOUS
  <2>1. PICK x \in s : TRUE
    BY FS_EmptySet
  <2>2. s \ {x} \in SUBSET S /\ Cardinality(s \ {x}) = n
    BY <1>1, OneLess
  <2>3. Total(s, f) = f[x] + Total(s \ {x}, f)
    BY <1>1, TotalRemove
  <2>. QED
    BY <1>3, <2>2, <2>3
<1> HIDE DEF T
<1>4. Cardinality(S) \in T
  BY <1>1, <1>2, <1>3, CountUp
<1>. QED
  BY <1>4 DEF T

\* Readings none of which exceeds a limit: neither does their mean.
LEMMA TotalBound ==
  ASSUME NEW n \in Nat, NEW f, NEW limit \in Nat, \A i \in 1 .. n : f[i] \in Int /\ f[i] <= limit
  PROVE  Total(1 .. n, f) \in Int /\ Total(1 .. n, f) <= n * limit
<1> DEFINE T == {k \in Nat : k <= n => Total(1 .. k, f) <= k * limit}
<1>1. \A k \in Nat : IsFiniteSet(1 .. k)
  BY FS_Interval
<1>2. 0 \in T
  <2>1. 1 .. 0 = {} /\ Total({}, f) = 0
    BY TotalStep, FS_EmptySet
  <2>. QED
    BY <2>1
<1>3. ASSUME NEW k \in Nat, k \in T PROVE k + 1 \in T
  <2> SUFFICES ASSUME k + 1 <= n PROVE Total(1 .. k + 1, f) <= (k + 1) * limit
    OBVIOUS
  <2>1. PICK m \in Nat : m = k + 1
    OBVIOUS
  <2>2. /\ IsFiniteSet(1 .. m) /\ m \in 1 .. m /\ \A i \in 1 .. m : f[i] \in Int
        /\ (1 .. m) \ {m} = 1 .. k /\ f[m] <= limit
    BY <1>1, <2>1
  <2>3. Total(1 .. m, f) = f[m] + Total((1 .. m) \ {m}, f)
    BY <2>2, TotalRemove
  <2>4. Total(1 .. k, f) \in Int
    BY <1>1, <2>1, <2>2, TotalStep
  <2>5. Total(1 .. k, f) <= k * limit
    BY <1>3
  <2>6. (k + 1) * limit = k * limit + limit
    OBVIOUS
  <2>7. Total(1 .. m, f) = f[m] + Total(1 .. k, f) /\ f[m] \in Int /\ f[m] <= limit
    BY <2>2, <2>3
  <2>8. PICK product \in Int : product = k * limit
    OBVIOUS
  <2>9. Total(1 .. m, f) <= product + limit
    BY <2>4, <2>5, <2>7, <2>8
  <2>. QED
    BY <2>1, <2>6, <2>8, <2>9
<1> HIDE DEF T
<1>4. n \in T
  BY <1>2, <1>3, CountUp
<1>5. Total(1 .. n, f) \in Int
  BY <1>1, TotalStep
<1>. QED
  BY <1>4, <1>5 DEF T

LEMMA MeanBound ==
  ASSUME NEW n \in Nat \ {0}, NEW total \in Int, NEW limit \in Nat, total <= n * limit
  PROVE  total \div n <= limit
OBVIOUS

-----------------------------------------------------------------------------
(* The ring.                                                                 *)

\* Where the k-th oldest reading is.
PlaceOf(k) == IF count + k - 1 < Window THEN count + k - 1 ELSE count + k - 1 - Window

\* The ring holds the latest readings from the next place on, and so it has
\* their sum.
RingInv ==
  /\ adc_calibrate_voltage \in [0 .. Window -> Int]
  /\ count \in 0 .. Window - 1
  /\ recent \in Seq(Int) /\ Len(recent) = Window
  /\ \A k \in 1 .. Window : recent[k] = adc_calibrate_voltage[PlaceOf(k)]
  /\ Total(0 .. Window - 1, adc_calibrate_voltage) = Total(1 .. Window, recent)
  /\ MeasuredLoad

LEMMA MeanPrime == MeanOf(recent)' = MeanOf(recent')
BY DEF MeanOf, Total, FoldFunctionOnSet, MapThenFoldSet

LEMMA TotalPrimes ==
  /\ Total(0 .. Window - 1, adc_calibrate_voltage)' = Total(0 .. Window - 1, adc_calibrate_voltage')
  /\ Total(1 .. Window, recent)' = Total(1 .. Window, recent')
BY DEF Total, FoldFunctionOnSet, MapThenFoldSet

LEMMA PlacesFinite == IsFiniteSet(0 .. Window - 1) /\ \A n \in Nat : IsFiniteSet(1 .. n)
<1>1. 0 \in Int /\ 1 \in Int /\ Window - 1 \in Int
  BY WindowAssumption
<1>. QED
  BY <1>1, FS_Interval

LEMMA InitRing == PInit => RingInv
<1> SUFFICES ASSUME PInit PROVE RingInv
  OBVIOUS
<1>1. /\ adc_calibrate_voltage \in [0 .. Window -> Int] /\ count \in 0 .. Window - 1
      /\ recent \in Seq(Int) /\ Len(recent) = Window
      /\ \A k \in 1 .. Window : recent[k] = 0 /\ PlaceOf(k) \in 0 .. Window
      /\ \A place \in 0 .. Window : adc_calibrate_voltage[place] = 0
  BY WindowAssumption DEF PInit, PlaceOf
<1>2. Total(0 .. Window - 1, adc_calibrate_voltage) = 0 /\ Total(1 .. Window, recent) = 0
  <2>1. IsFiniteSet(0 .. Window - 1) /\ IsFiniteSet(1 .. Window)
    BY PlacesFinite, WindowAssumption
  <2>2. \A place \in 0 .. Window - 1 : adc_calibrate_voltage[place] = 0
    BY <1>1, WindowAssumption
  <2>. QED
    BY <1>1, <2>1, <2>2, TotalZero
<1>. QED
  BY <1>1, <1>2 DEF RingInv, MeasuredLoad, PInit

\* A reading replaces the oldest one.
LEMMA RecentMoves ==
  ASSUME RingInv, NEW reading \in Int, recent' = Append(Tail(recent), reading)
  PROVE  /\ recent' \in Seq(Int) /\ Len(recent') = Window
         /\ \A k \in 1 .. Window : recent'[k] = IF k = Window THEN reading ELSE recent[k + 1]
         /\ Total(1 .. Window, recent') = Total(1 .. Window, recent) - recent[1] + reading
<1>1. /\ recent' \in Seq(Int) /\ Len(recent') = Window
      /\ \A k \in 1 .. Window : recent'[k] = IF k = Window THEN reading ELSE recent[k + 1]
  BY WindowAssumption DEF RingInv
<1>2. PICK n \in Nat : Window = n + 1
  <2>1. Window - 1 \in Nat /\ Window = (Window - 1) + 1
    BY WindowAssumption
  <2>. QED
    BY <2>1
<1>3. /\ \A k \in 1 .. Window : recent[k] \in Int
      /\ \A k \in 1 .. Window : recent'[k] \in Int
      /\ \A k \in 1 .. n : recent'[k] = recent[k + 1]
      /\ recent'[Window] = reading /\ recent[1] \in Int
  BY <1>1, <1>2 DEF RingInv
<1>4. Total(1 .. n + 1, recent) = recent[1] + Total(1 .. n, recent')
  BY <1>2, <1>3, TotalShift
<1>5. Total(1 .. Window, recent') = reading + Total(1 .. n, recent')
  <2>1. IsFiniteSet(1 .. Window) /\ Window \in 1 .. Window /\ (1 .. Window) \ {Window} = 1 .. n
    BY <1>2, FS_Interval
  <2>2. Total(1 .. Window, recent') = recent'[Window] + Total((1 .. Window) \ {Window}, recent')
    BY <1>3, <2>1, TotalRemove
  <2>. QED
    BY <1>3, <2>1, <2>2
<1>6. Total(1 .. n, recent') \in Int
  <2>1. IsFiniteSet(1 .. n)
    BY PlacesFinite
  <2>2. \A k \in 1 .. n : recent'[k] \in Int
    <3>1. \A k \in 1 .. n : k \in 1 .. Window
      BY <1>2, WindowAssumption
    <3>. QED
      BY <1>3, <3>1
  <2>. QED
    BY <2>1, <2>2, TotalStep
<1>. QED
  BY <1>1, <1>2, <1>3, <1>4, <1>5, <1>6

LEMMA MeasureKeepsRing ==
  ASSUME RingInv, NEW reading \in Currents, GetRms(reading)
  PROVE  RingInv' /\ i_load' = MeanOf(recent')
<1> DEFINE stored == [adc_calibrate_voltage EXCEPT ![count] = reading]
           mean   == Total(0 .. Window - 1, stored) \div Window
<1>1. /\ adc_calibrate_voltage' = [stored EXCEPT ![Window] = mean]
      /\ i_load' = mean /\ count' = NextPlace /\ recent' = Append(Tail(recent), reading)
  BY DEF GetRms
<1>2. /\ reading \in Int /\ Window \in Nat /\ Window > 0 /\ count \in 0 .. Window - 1
      /\ stored \in [0 .. Window -> Int] /\ stored[count] = reading
      /\ \A place \in (0 .. Window - 1) \ {count} : stored[place] = adc_calibrate_voltage[place]
      /\ \A place \in 0 .. Window - 1 : adc_calibrate_voltage[place] \in Int
      /\ \A place \in 0 .. Window - 1 : stored[place] \in Int
  BY WindowAssumption DEF RingInv
<1> HIDE DEF stored
<1>3. IsFiniteSet(0 .. Window - 1)
  BY PlacesFinite
<1>4. Total(0 .. Window - 1, stored)
        = Total(0 .. Window - 1, adc_calibrate_voltage) - adc_calibrate_voltage[count] + reading
  <2> DEFINE places == 0 .. Window - 1
             ring   == adc_calibrate_voltage
  <2>1. /\ IsFiniteSet(places) /\ count \in places /\ reading \in Int
        /\ \A place \in places : ring[place] \in Int
        /\ stored[count] = reading
        /\ \A place \in places \ {count} : stored[place] = ring[place]
    BY <1>2, <1>3
  <2> HIDE DEF places, ring
  <2>2. Total(places, stored) = Total(places, ring) - ring[count] + reading
    BY <2>1, TotalReplace
  <2>. QED
    BY <2>2 DEF places, ring
<1>5. mean \in Int
  <2>1. Total(0 .. Window - 1, stored) \in Int
    BY <1>2, <1>3, TotalStep
  <2>. QED
    BY <1>2, <2>1
<1> HIDE DEF mean
<1>6. /\ adc_calibrate_voltage' \in [0 .. Window -> Int]
      /\ \A place \in 0 .. Window - 1 : adc_calibrate_voltage'[place] = stored[place]
  BY <1>1, <1>2, <1>5
<1>7. Total(0 .. Window - 1, adc_calibrate_voltage') = Total(0 .. Window - 1, stored)
  BY <1>2, <1>3, <1>6, TotalSame
<1>8. recent[1] = adc_calibrate_voltage[count]
  <2>1. PlaceOf(1) = count /\ 1 \in 1 .. Window
    BY <1>2 DEF PlaceOf
  <2>. QED
    BY <2>1 DEF RingInv
<1>9. Total(1 .. Window, recent') = Total(0 .. Window - 1, stored)
  BY <1>1, <1>2, <1>4, <1>8, RecentMoves DEF RingInv
<1>10. i_load' = MeanOf(recent')
  BY <1>1, <1>9 DEF MeanOf, mean
<1>11. count' \in 0 .. Window - 1
       /\ count' = IF count = Window - 1 THEN 0 ELSE count + 1
  BY <1>1, <1>2 DEF NextPlace
<1>12. ASSUME NEW k \in 1 .. Window
       PROVE  recent'[k] = adc_calibrate_voltage'[PlaceOf(k)']
  <2>1. recent'[k] = IF k = Window THEN reading ELSE recent[k + 1]
    BY <1>1, <1>2, RecentMoves
  <2>2. CASE k = Window
    <3>1. PlaceOf(k)' = count
      BY <1>2, <1>11, <2>2 DEF PlaceOf
    <3>. QED
      BY <1>2, <1>6, <2>1, <2>2, <3>1
  <2>3. CASE k # Window
    <3>1. /\ PlaceOf(k)' = PlaceOf(k + 1) /\ PlaceOf(k + 1) # count
          /\ PlaceOf(k + 1) \in 0 .. Window - 1 /\ k + 1 \in 1 .. Window
      BY <1>2, <1>11, <2>3 DEF PlaceOf
    <3>2. recent[k + 1] = adc_calibrate_voltage[PlaceOf(k + 1)]
      BY <3>1 DEF RingInv
    <3>. QED
      BY <1>2, <1>6, <2>1, <2>3, <3>1, <3>2
  <2>. QED
    BY <2>2, <2>3
<1>13. recent' \in Seq(Int) /\ Len(recent') = Window
  BY <1>1, <1>2, RecentMoves
<1>. QED
  BY <1>6, <1>7, <1>9, <1>10, <1>11, <1>12, <1>13, MeanPrime, TotalPrimes
  DEF RingInv, MeasuredLoad

LEMMA NextRing ==
  ASSUME RingInv, [PNext]_pvars PROVE RingInv'
<1>1. ASSUME NEW reading \in Currents, Regulate(reading) PROVE RingInv'
  BY <1>1, MeasureKeepsRing DEF Regulate
<1>2. CASE UNCHANGED window /\ i_load' \in {i_load, 0}
  <2>1. \A k : PlaceOf(k)' = PlaceOf(k)
    BY <1>2 DEF window, PlaceOf
  <2>. QED
    BY <1>2, <2>1, MeanPrime, TotalPrimes DEF window, RingInv, MeasuredLoad
<1>3. CASE AdcOn \/ AdcOff \/ Others \/ UNCHANGED pvars
  BY <1>2, <1>3 DEF AdcOn, AdcOff, Others, pvars
<1>. QED
  BY <1>1, <1>3 DEF PNext

\* The checks see the mean of the last Window readings or 0 (adc_sample.c:69-111,
\* 193-197): in any regulation cycle, after any number of openings, for any
\* window, any currents and any race of the interrupt with adc.
THEOREM LoadIsMeasured == PSpec => []MeasuredLoad
<1>1. RingInv => MeasuredLoad
  BY DEF RingInv
<1>2. RingInv /\ [PNext]_pvars => RingInv'
  BY NextRing
<1>. QED
  BY InitRing, <1>1, <1>2, PTL DEF PSpec

\* At level 0, Window readings of LowCurrent at most open the contactor
\* (cross_zero_check.c:212-234), whatever was read before them, whenever adc
\* stores its 0 and however often the contactor was opened in between, for any
\* window, currents and limit.
THEOREM DiedDownOpens == PSpec => OpensWhenDied
<1>1. RingInv /\ [PNext]_pvars
        => [\A reading \in Currents :
              /\ Regulate(reading)
              /\ zeroLevel
              /\ \A n \in 1 .. Window : recent'[n] <= LowCurrent
              => ~closed']_pvars
  <2> SUFFICES ASSUME RingInv, NEW reading \in Currents, Regulate(reading), zeroLevel,
                      \A n \in 1 .. Window : recent'[n] <= LowCurrent
               PROVE  ~closed'
    OBVIOUS
  <2>1. RingInv' /\ i_load' = MeanOf(recent')
    BY MeasureKeepsRing DEF Regulate
  <2>2. Window \in Nat \ {0} /\ LowCurrent \in Nat
    BY WindowAssumption
  <2>3. \A n \in 1 .. Window : recent'[n] \in Int
    BY <2>1, <2>2 DEF RingInv
  <2> DEFINE sum == Total(1 .. Window, recent')
  <2>4. sum \in Int /\ sum <= Window * LowCurrent
    BY <2>2, <2>3, TotalBound
  <2>5. MeanOf(recent') = sum \div Window
    BY DEF MeanOf
  <2> HIDE DEF sum
  <2>6. i_load' <= LowCurrent
    BY <2>1, <2>2, <2>4, <2>5, MeanBound
  <2>. QED
    BY <2>6 DEF Regulate, DiedDown
<1>2. RingInv /\ [PNext]_pvars => RingInv'
  BY NextRing
<1>. QED
  BY InitRing, <1>1, <1>2, PTL DEF PSpec, OpensWhenDied
=============================================================================
