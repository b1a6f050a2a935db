--------------------------- MODULE GuidanceProofs ---------------------------
(***************************************************************************)
(* Proofs about the guidance rules of GuidanceEngine and the sessions of   *)
(* GuidanceSession, of any length and for any run lengths.  The proofs     *)
(* about those who apply the rules (GuidanceHookProofs, CaptureProxyProofs)*)
(* start from here.                                                        *)
(*                                                                         *)
(* What a loop computes is proved by induction over sets of numbers:       *)
(* LeastNumber has it from the well-foundedness of Nat.  A recursive       *)
(* function is the CHOOSE that satisfies its equation, so that one exists  *)
(* is a lemma of its own (RunExists).                                      *)
(***************************************************************************)
EXTENDS GuidanceSession, WellFoundedInduction, FiniteSetTheorems, TLAPS

(* Numbers *)

LEMMA LeastNumber ==
  ASSUME NEW T, T \subseteq Nat, T # {}
  PROVE  \E m \in T : \A k \in T : m <= k
<1> DEFINE R == OpToRel(<, Nat)
<1>1. IsWellFoundedOn(R, Nat)
  BY NatLessThanWellFounded
<1>2. \A x \in Nat : \A y \in Nat : y < x => <<y, x>> \in R
  BY DEF OpToRel
<1> HIDE DEF R
<1>3. PICK m \in T : \A k \in T : ~(<<k, m>> \in R)
  BY <1>1, WFMin
<1>4. ASSUME NEW k \in T PROVE m <= k
  <2>1. ~(k < m)
    BY <1>2, <1>3
  <2> QED
    BY <2>1
<1> QED
  BY <1>4

LEMMA SetInduction ==
  ASSUME NEW S, 0 \in S, \A n \in Nat : n \in S => n + 1 \in S
  PROVE  Nat \subseteq S
<1> SUFFICES ASSUME Nat \ S # {} PROVE FALSE
  OBVIOUS
<1>1. PICK m \in Nat \ S : \A k \in Nat \ S : m <= k
  <2> DEFINE T == Nat \ S
  <2>1. T \subseteq Nat /\ T # {}
    OBVIOUS
  <2> HIDE DEF T
  <2>2. \E m \in T : \A k \in T : m <= k
    BY <2>1, LeastNumber
  <2> QED
    BY <2>2 DEF T
<1>2. m # 0 /\ m - 1 \in Nat
  OBVIOUS
<1>3. m - 1 \in S
  BY <1>1, <1>2
<1> QED
  BY <1>2, <1>3

LEMMA IntervalInduction ==
  ASSUME NEW n \in Nat, NEW S, 0 \in S, \A i \in 1 .. n : i - 1 \in S => i \in S
  PROVE  0 .. n \subseteq S
<1> DEFINE T == {k \in Nat : k <= n => k \in S}
<1>1. 0 \in T
  OBVIOUS
<1>2. \A k \in Nat : k \in T => k + 1 \in T
  <2> SUFFICES ASSUME NEW k \in Nat, k \in T, k + 1 <= n PROVE k + 1 \in S
    OBVIOUS
  <2>1. k + 1 \in 1 .. n /\ k <= n /\ (k + 1) - 1 = k
    OBVIOUS
  <2>2. k \in S
    BY <2>1
  <2> QED
    BY <2>1, <2>2
<1>3. Nat \subseteq T
  <2> HIDE DEF T
  <2> QED
    BY <1>1, <1>2, SetInduction
<1> QED
  BY <1>3

LEMMA LargestNumber ==
  ASSUME NEW T, NEW n \in Nat, T \subseteq 0 .. n, T # {}
  PROVE  \E m \in T : \A k \in T : k <= m
<1> DEFINE U == {b \in Nat : \A k \in T : k <= b}
<1>1. U \subseteq Nat /\ n \in U
  OBVIOUS
<1>2. PICK b \in U : \A c \in U : b <= c
  <2> HIDE DEF U
  <2> QED
    BY <1>1, LeastNumber
<1>3. ASSUME b \notin T PROVE FALSE
  <2>1. PICK t \in T : TRUE
    OBVIOUS
  <2>2. t <= b /\ t # b /\ b \in Nat /\ t \in Nat
    BY <1>3
  <2>3. b - 1 \in Nat
    BY <2>2
  <2>4. \A k \in T : k <= b - 1
    BY <1>3, <2>2
  <2>5. b - 1 \in U
    BY <2>3, <2>4
  <2> QED
    BY <1>2, <2>5, <2>2
<1> QED
  BY <1>3

LEMMA MaxIs ==
  ASSUME NEW T, NEW n \in Nat, T \subseteq 0 .. n, T # {}
  PROVE  Max(T) \in T /\ \A k \in T : k <= Max(T)
<1>1. \E x \in T : \A y \in T : x >= y
  BY LargestNumber
<1> DEFINE P(x) == x \in T /\ \A y \in T : x >= y
<1>2. Max(T) = CHOOSE x : P(x)
  BY DEF Max
<1>3. P(CHOOSE x : P(x))
  BY <1>1
<1> QED
  BY <1>2, <1>3


-----------------------------------------------------------------------------
(* The loops of the engine *)

LEMMA LastCompletion ==
  ASSUME NEW s, Len(s) \in Nat, NEW l, l = SelectLastInSeq(s, IsCompletion)
  PROVE  /\ l \in 0 .. Len(s)
         /\ l = 0 => \A i \in 1 .. Len(s) : ~IsCompletion(s[i])
         /\ l # 0 => IsCompletion(s[l]) /\ \A i \in l + 1 .. Len(s) : ~IsCompletion(s[i])
<1> DEFINE I == {i \in 1 .. Len(s) : IsCompletion(s[i])}
<1>1. l = IF I # {} THEN Max(I) ELSE 0
  BY DEF SelectLastInSeq
<1>2. I \subseteq 0 .. Len(s)
  OBVIOUS
<1>3. I # {} => Max(I) \in I /\ \A k \in I : k <= Max(I)
  <2> HIDE DEF I
  <2> QED
    BY <1>2, MaxIs
<1>4. CASE I = {}
  BY <1>1, <1>4
<1>5. CASE I # {}
  <2>1. l \in I /\ \A k \in I : k <= l
    BY <1>1, <1>3, <1>5
  <2>2. l \in 1 .. Len(s) /\ IsCompletion(s[l])
    BY <2>1
  <2>3. ASSUME NEW i \in l + 1 .. Len(s) PROVE ~IsCompletion(s[i])
    <3>1. i \in 1 .. Len(s) /\ ~(i <= l)
      BY <2>2
    <3> QED
      BY <2>1, <3>1
  <2>4. l \in 0 .. Len(s) /\ l # 0
    BY <2>2
  <2> QED
    BY <2>2, <2>3, <2>4
<1> QED
  BY <1>4, <1>5

LEMMA LastProgress ==
  ASSUME NEW s, Len(s) \in Nat, NEW l, l = SelectLastInSeq(s, Progresses)
  PROVE  /\ l \in 0 .. Len(s)
         /\ l = 0 => \A i \in 1 .. Len(s) : ~Progresses(s[i])
         /\ l # 0 => Progresses(s[l]) /\ \A i \in l + 1 .. Len(s) : ~Progresses(s[i])
<1> DEFINE I == {i \in 1 .. Len(s) : Progresses(s[i])}
<1>1. l = IF I # {} THEN Max(I) ELSE 0
  BY DEF SelectLastInSeq
<1>2. I \subseteq 0 .. Len(s)
  OBVIOUS
<1>3. I # {} => Max(I) \in I /\ \A k \in I : k <= Max(I)
  <2> HIDE DEF I
  <2> QED
    BY <1>2, MaxIs
<1>4. CASE I = {}
  BY <1>1, <1>4
<1>5. CASE I # {}
  <2>1. l \in I /\ \A k \in I : k <= l
    BY <1>1, <1>3, <1>5
  <2>2. l \in 1 .. Len(s) /\ Progresses(s[l])
    BY <2>1
  <2>3. ASSUME NEW i \in l + 1 .. Len(s) PROVE ~Progresses(s[i])
    <3>1. i \in 1 .. Len(s) /\ ~(i <= l)
      BY <2>2
    <3> QED
      BY <2>1, <3>1
  <2>4. l \in 0 .. Len(s) /\ l # 0
    BY <2>2
  <2> QED
    BY <2>2, <2>3, <2>4
<1> QED
  BY <1>4, <1>5

\* A function defined along 0 .. n exists.
LEMMA RunExists ==
  ASSUME NEW n \in Nat, NEW step \in [1 .. n -> [Nat -> Nat]]
  PROVE  \E f \in [0 .. n -> Nat] : f[0] = 0 /\ \A i \in 1 .. n : f[i] = step[i][f[i - 1]]
<1> DEFINE Upto(k, f) == f[0] = 0 /\ \A i \in 1 .. k : f[i] = step[i][f[i - 1]]
           S == {k \in Nat : k <= n => \E f \in [0 .. k -> Nat] : Upto(k, f)}
<1> HIDE DEF Upto
<1>1. 0 \in S
  <2> DEFINE g == [i \in 0 .. 0 |-> 0]
  <2>1. g \in [0 .. 0 -> Nat]
    OBVIOUS
  <2>2. g[0] = 0
    OBVIOUS
  <2>3. \A i \in 1 .. 0 : g[i] = step[i][g[i - 1]]
    OBVIOUS
  <2>4. Upto(0, g)
    BY <2>2, <2>3 DEF Upto
  <2> QED
    BY <2>1, <2>4
<1>2. ASSUME NEW k \in Nat, k \in S PROVE k + 1 \in S
  <2>0. k + 1 \in Nat
    OBVIOUS
  <2> SUFFICES ASSUME k + 1 <= n PROVE \E f \in [0 .. k + 1 -> Nat] : Upto(k + 1, f)
    BY <2>0, Zenon
  <2>1. k <= n
    OBVIOUS
  <2>2. PICK f \in [0 .. k -> Nat] : Upto(k, f)
    BY <1>2, <2>1
  <2>3. k + 1 \in 1 .. n /\ k \in 0 .. k
    OBVIOUS
  <2>4. step[k + 1] \in [Nat -> Nat] /\ f[k] \in Nat
    BY <2>3
  <2> DEFINE v == step[k + 1][f[k]]
             g == [i \in 0 .. k + 1 |-> IF i = k + 1 THEN v ELSE f[i]]
  <2>5. v \in Nat
    BY <2>4
  <2>6. \A i \in 0 .. k : g[i] = f[i]
    OBVIOUS
  <2>7. g[k + 1] = v
    OBVIOUS
  <2>8. g \in [0 .. k + 1 -> Nat]
    <3> HIDE DEF v
    <3> QED
      BY <2>5
  <2> HIDE DEF g
  <2>9. g[0] = 0
    <3>1. 0 \in 0 .. k
      OBVIOUS
    <3> QED
      BY <2>2, <2>6, <3>1 DEF Upto
  <2>10. ASSUME NEW i \in 1 .. k + 1 PROVE g[i] = step[i][g[i - 1]]
    <3>1. CASE i = k + 1
      <4>1. i - 1 = k /\ k \in 0 .. k
        BY <3>1
      <4>2. g[i - 1] = f[k]
        BY <4>1, <2>6
      <4> QED
        BY <3>1, <4>2, <2>7
    <3>2. CASE i # k + 1
      <4>1. i \in 1 .. k /\ i \in 0 .. k /\ i - 1 \in 0 .. k
        BY <3>2
      <4> QED
        BY <4>1, <2>2, <2>6 DEF Upto
    <3> QED
      BY <3>1, <3>2
  <2> QED
    BY <2>8, <2>9, <2>10 DEF Upto
<1>3. n \in S
  <2> HIDE DEF S
  <2> QED
    BY <1>1, <1>2, SetInduction
<1>4. n <= n
  OBVIOUS
<1>5. \E f \in [0 .. n -> Nat] : Upto(n, f)
  BY <1>3, <1>4, Zenon
<1> QED
  BY <1>5 DEF Upto

LEMMA FailureRunsAre ==
  ASSUME NEW s, Len(s) \in Nat
  PROVE  LET run == FailureRuns(s)
         IN  /\ run \in [0 .. Len(s) -> Nat]
             /\ run[0] = 0
             /\ \A i \in 1 .. Len(s) :
                  run[i] = IF SameFailure(s[i], s[Len(s)]) THEN run[i - 1] + 1 ELSE 0
<1> DEFINE n == Len(s)
           Same(i) == SameFailure(s[i], s[n])
           Is(f) == f = [i \in 0 .. n |-> IF i = 0 THEN 0
                          ELSE IF SameFailure(s[i], s[n]) THEN f[i - 1] + 1 ELSE 0]
           Runs(f) == f[0] = 0 /\ \A i \in 1 .. n : f[i] = IF Same(i) THEN f[i - 1] + 1 ELSE 0
           step == [i \in 1 .. n |-> [k \in Nat |-> IF Same(i) THEN k + 1 ELSE 0]]
<1> HIDE DEF Same
<1>1. step \in [1 .. n -> [Nat -> Nat]]
  OBVIOUS
<1>2. PICK f \in [0 .. n -> Nat] : f[0] = 0 /\ \A i \in 1 .. n : f[i] = step[i][f[i - 1]]
  <2> HIDE DEF step
  <2> QED
    BY <1>1, RunExists
<1>3. ASSUME NEW i \in 1 .. n PROVE f[i] = IF Same(i) THEN f[i - 1] + 1 ELSE 0
  <2>1. i - 1 \in 0 .. n
    OBVIOUS
  <2>2. f[i - 1] \in Nat
    BY <2>1
  <2> QED
    BY <1>2, <2>2
<1>4. Runs(f)
  BY <1>2, <1>3
<1>5. f = [i \in 0 .. n |-> IF i = 0 THEN 0 ELSE IF Same(i) THEN f[i - 1] + 1 ELSE 0]
  BY <1>4
<1>6. Is(f)
  BY <1>5 DEF Same
<1>7. FailureRuns(s) = CHOOSE g : Is(g)
  BY DEF FailureRuns
<1>8. Is(FailureRuns(s))
  <2> HIDE DEF Is
  <2> QED
    BY <1>6, <1>7
<1> DEFINE run == FailureRuns(s)
<1>9. Runs(run)
  <2>1. DOMAIN run = 0 .. n
    BY <1>8
  <2>2. \A i \in 0 .. n : run[i] = IF i = 0 THEN 0 ELSE IF Same(i) THEN run[i - 1] + 1 ELSE 0
    BY <1>8 DEF Same
  <2> QED
    BY <2>2
<1>10. run \in [0 .. n -> Nat]
  <2> DEFINE S == {i \in 0 .. n : run[i] \in Nat}
  <2>1. 0 \in S
    BY <1>9
  <2>2. ASSUME NEW i \in 1 .. n, i - 1 \in S PROVE i \in S
    BY <1>9, <2>2
  <2>3. 0 .. n \subseteq S
    <3> HIDE DEF S
    <3> QED
      BY <2>1, <2>2, IntervalInduction
  <2>4. \A i \in 0 .. n : run[i] \in Nat
    BY <2>3
  <2>5. run = [i \in 0 .. n |-> run[i]]
    BY <1>8
  <2> HIDE DEF run
  <2> QED
    BY <2>4, <2>5
<1> QED
  BY <1>9, <1>10 DEF Same

\* Place i of a run of failures: its run holds the k last places iff they are all the same.
LEMMA FailureRunsCount ==
  ASSUME NEW s, Len(s) \in Nat
  PROVE  \A i \in 0 .. Len(s), k \in Nat :
           FailureRuns(s)[i] >= k <=>
             k <= i /\ \A j \in i - k + 1 .. i : SameFailure(s[j], s[Len(s)])
<1> DEFINE n == Len(s)
           Same(j) == SameFailure(s[j], s[n])
           run == FailureRuns(s)
           Counts(i) == \A k \in Nat : run[i] >= k <=> k <= i /\ \A j \in i - k + 1 .. i : Same(j)
           S == {i \in 0 .. n : Counts(i)}
<1>1. run \in [0 .. n -> Nat] /\ run[0] = 0
  BY FailureRunsAre
<1>2. \A i \in 1 .. n : run[i] = IF Same(i) THEN run[i - 1] + 1 ELSE 0
  BY FailureRunsAre
<1> HIDE DEF Same, run
<1>3. Counts(0)
  BY <1>1
<1>4. ASSUME NEW i \in 1 .. n, Counts(i - 1) PROVE Counts(i)
  <2> SUFFICES ASSUME NEW k \in Nat
               PROVE  run[i] >= k <=> k <= i /\ \A j \in i - k + 1 .. i : Same(j)
    OBVIOUS
  <2>0. i - 1 \in 0 .. n /\ run[i - 1] \in Nat /\ run[i] \in Nat
    BY <1>1
  <2>1. CASE k = 0
    BY <2>0, <2>1
  <2>2. CASE k # 0 /\ ~Same(i)
    <3>1. run[i] = 0 /\ i \in i - k + 1 .. i
      BY <2>2, <1>2
    <3> QED
      BY <3>1, <2>2
  <2>3. CASE k # 0 /\ Same(i)
    <3>1. run[i] = run[i - 1] + 1
      BY <2>3, <1>2
    <3>2. k - 1 \in Nat /\ (run[i] >= k <=> run[i - 1] >= k - 1) /\ (k - 1 <= i - 1 <=> k <= i)
      BY <2>0, <2>3, <3>1
    <3>3. run[i - 1] >= k - 1 <=> /\ k - 1 <= i - 1
                                  /\ \A j \in (i - 1) - (k - 1) + 1 .. i - 1 : Same(j)
      BY <1>4, <3>2
    <3>4. \A j \in i - k + 1 .. i : j \in (i - 1) - (k - 1) + 1 .. i - 1 \/ j = i
      OBVIOUS
    <3>5. \A j \in (i - 1) - (k - 1) + 1 .. i - 1 : j \in i - k + 1 .. i
      OBVIOUS
    <3> QED
      BY <2>3, <3>2, <3>3, <3>4, <3>5
  <2> QED
    BY <2>1, <2>2, <2>3
<1>5. 0 .. n \subseteq S
  <2> HIDE DEF Counts
  <2>1. 0 \in S
    BY <1>3
  <2>2. \A i \in 1 .. n : i - 1 \in S => i \in S
    BY <1>4
  <2> HIDE DEF S
  <2> QED
    BY <2>1, <2>2, IntervalInduction
<1> QED
  BY <1>5 DEF Same, run

LEMMA InspectionRunsAre ==
  ASSUME NEW s, Len(s) \in Nat
  PROVE  LET run == InspectionRuns(s)
         IN  /\ run \in [0 .. Len(s) -> Nat]
             /\ run[0] = 0
             /\ \A i \in 1 .. Len(s) :
                  run[i] = IF ~Inspects(s[i]) THEN 0
                           ELSE IF run[i - 1] > 0 /\ ~SameInspection(s[i - 1], s[i]) THEN 1
                           ELSE run[i - 1] + 1
<1> DEFINE n == Len(s)
           Inspection(i) == Inspects(s[i])
           Other(i) == ~SameInspection(s[i - 1], s[i])
           After(i, k) == IF ~Inspection(i) THEN 0 ELSE IF k > 0 /\ Other(i) THEN 1 ELSE k + 1
           Is(f) == f = [i \in 0 .. n |-> IF i = 0 THEN 0
                          ELSE IF ~Inspects(s[i]) THEN 0
                          ELSE IF f[i - 1] > 0 /\ ~SameInspection(s[i - 1], s[i]) THEN 1
                          ELSE f[i - 1] + 1]
           Runs(f) == f[0] = 0 /\ \A i \in 1 .. n : f[i] = After(i, f[i - 1])
           step == [i \in 1 .. n |-> [k \in Nat |-> After(i, k)]]
<1> HIDE DEF Inspection, Other
<1>1. step \in [1 .. n -> [Nat -> Nat]]
  OBVIOUS
<1>2. PICK f \in [0 .. n -> Nat] : f[0] = 0 /\ \A i \in 1 .. n : f[i] = step[i][f[i - 1]]
  <2> HIDE DEF step
  <2> QED
    BY <1>1, RunExists
<1>3. ASSUME NEW i \in 1 .. n PROVE f[i] = After(i, f[i - 1])
  <2>1. i - 1 \in 0 .. n
    OBVIOUS
  <2>2. f[i - 1] \in Nat
    BY <2>1
  <2> QED
    BY <1>2, <2>2
<1>4. Runs(f)
  BY <1>2, <1>3
<1>5. f = [i \in 0 .. n |-> IF i = 0 THEN 0 ELSE After(i, f[i - 1])]
  <2> HIDE DEF After
  <2> QED
    BY <1>4
<1>6. Is(f)
  BY <1>5 DEF Inspection, Other
<1>7. InspectionRuns(s) = CHOOSE g : Is(g)
  BY DEF InspectionRuns
<1>8. Is(InspectionRuns(s))
  <2> HIDE DEF Is
  <2> QED
    BY <1>6, <1>7
<1> DEFINE run == InspectionRuns(s)
<1>9. Runs(run)
  <2>1. DOMAIN run = 0 .. n
    BY <1>8
  <2>2. \A i \in 0 .. n : run[i] = IF i = 0 THEN 0 ELSE After(i, run[i - 1])
    BY <1>8 DEF Inspection, Other
  <2> HIDE DEF After
  <2> QED
    BY <2>2
<1>10. run \in [0 .. n -> Nat]
  <2> DEFINE S == {i \in 0 .. n : run[i] \in Nat}
  <2>1. 0 \in S
    BY <1>9
  <2>2. ASSUME NEW i \in 1 .. n, i - 1 \in S PROVE i \in S
    BY <1>9, <2>2
  <2>3. 0 .. n \subseteq S
    <3> HIDE DEF S
    <3> QED
      BY <2>1, <2>2, IntervalInduction
  <2>4. \A i \in 0 .. n : run[i] \in Nat
    BY <2>3
  <2>5. run = [i \in 0 .. n |-> run[i]]
    BY <1>8
  <2> HIDE DEF run
  <2> QED
    BY <2>4, <2>5
<1> QED
  BY <1>9, <1>10 DEF Inspection, Other

\* A run of inspections holds the k last places iff all of them inspect the same thing.
LEMMA InspectionRunsCount ==
  ASSUME NEW s, Len(s) \in Nat
  PROVE  \A i \in 0 .. Len(s), k \in Nat :
           InspectionRuns(s)[i] >= k <=>
             k <= i /\ \A j \in i - k + 1 .. i : Inspects(s[j]) /\ SameInspection(s[j], s[i])
<1> DEFINE n == Len(s)
           Inspection(j) == Inspects(s[j])
           Same(j, i) == SameInspection(s[j], s[i])
           run == InspectionRuns(s)
           Counts(i) == \A k \in Nat :
             run[i] >= k <=> k <= i /\ \A j \in i - k + 1 .. i : Inspection(j) /\ Same(j, i)
           S == {i \in 0 .. n : Counts(i)}
<1>1. run \in [0 .. n -> Nat] /\ run[0] = 0
  BY InspectionRunsAre
<1>2. \A i \in 1 .. n : run[i] = IF ~Inspection(i) THEN 0
                                 ELSE IF run[i - 1] > 0 /\ ~Same(i - 1, i) THEN 1
                                 ELSE run[i - 1] + 1
  BY InspectionRunsAre
<1>3. \A i, j, k : Same(i, i) /\ (Same(i, j) => Same(j, i)) /\ (Same(i, j) /\ Same(j, k) => Same(i, k))
  BY DEF SameInspection
<1> HIDE DEF Inspection, Same, run
<1>4. Counts(0)
  BY <1>1
<1>5. ASSUME NEW i \in 1 .. n, Counts(i - 1) PROVE Counts(i)
  <2> SUFFICES ASSUME NEW k \in Nat
               PROVE  run[i] >= k <=>
                        k <= i /\ \A j \in i - k + 1 .. i : Inspection(j) /\ Same(j, i)
    OBVIOUS
  <2>0. i - 1 \in 0 .. n /\ run[i - 1] \in Nat /\ run[i] \in Nat
    BY <1>1
  <2>1. CASE k = 0
    BY <2>0, <2>1
  <2>2. CASE k # 0 /\ ~Inspection(i)
    <3>1. run[i] = 0 /\ i \in i - k + 1 .. i
      BY <2>2, <1>2
    <3> QED
      BY <3>1, <2>2
  <2>3. CASE k = 1 /\ Inspection(i)
    <3>1. run[i] >= 1
      BY <2>0, <2>3, <1>2
    <3>2. \A j \in i - k + 1 .. i : j = i
      BY <2>3
    <3> QED
      BY <3>1, <3>2, <2>3, <1>3
  <2>4. CASE k > 1 /\ Inspection(i) /\ ~Same(i - 1, i)
    <3>1. i - 1 \in i - k + 1 .. i
      BY <2>4
    <3>2. run[i] = 1
      BY <2>0, <2>4, <1>2
    <3> QED
      BY <3>1, <3>2, <2>4
  <2>5. CASE k > 1 /\ Inspection(i) /\ Same(i - 1, i)
    <3>1. run[i] = run[i - 1] + 1
      BY <2>5, <1>2
    <3>2. k - 1 \in Nat /\ (run[i] >= k <=> run[i - 1] >= k - 1) /\ (k - 1 <= i - 1 <=> k <= i)
      BY <2>0, <2>5, <3>1
    <3>3. run[i - 1] >= k - 1 <=>
            /\ k - 1 <= i - 1
            /\ \A j \in (i - 1) - (k - 1) + 1 .. i - 1 : Inspection(j) /\ Same(j, i - 1)
      BY <1>5, <3>2
    <3>4. \A j \in i - k + 1 .. i : j \in (i - 1) - (k - 1) + 1 .. i - 1 \/ j = i
      OBVIOUS
    <3>5. \A j \in (i - 1) - (k - 1) + 1 .. i - 1 : j \in i - k + 1 .. i
      OBVIOUS
    <3>6. \A j : Same(j, i) <=> Same(j, i - 1)
      BY <2>5, <1>3
    <3> QED
      BY <2>5, <3>2, <3>3, <3>4, <3>5, <3>6, <1>3
  <2> QED
    BY <2>1, <2>2, <2>3, <2>4, <2>5
<1>6. 0 .. n \subseteq S
  <2> HIDE DEF Counts
  <2>1. 0 \in S
    BY <1>4
  <2>2. \A i \in 1 .. n : i - 1 \in S => i \in S
    BY <1>5
  <2> HIDE DEF S
  <2> QED
    BY <2>1, <2>2, IntervalInduction
<1> QED
  BY <1>6 DEF Inspection, Same, run

\* c is the last completion; v validates what is done up to the end.
LastCompletionAt(s, c) == /\ c \in 1 .. Len(s)
                          /\ IsCompletion(s[c])
                          /\ \A i \in c + 1 .. Len(s) : ~IsCompletion(s[i])
ValidatedAt(s, v) == /\ v \in 1 .. Len(s)
                     /\ s[v].kind = "validation.passed"
                     /\ \A i \in v .. Len(s) : ~Progresses(s[i])

\* The loops of completionNeedsValidation, without their indices.
LEMMA UnvalidatedIs ==
  ASSUME NEW s, Len(s) \in Nat
  PROVE  /\ (\A i \in 1 .. Len(s) : ~IsCompletion(s[i])) => UnvalidatedCompletion(s) = <<>>
         /\ (\E i \in 1 .. Len(s) : IsCompletion(s[i])) => \E c : LastCompletionAt(s, c)
         /\ \A c : LastCompletionAt(s, c) =>
              UnvalidatedCompletion(s) =
                IF \E v \in 1 .. c - 1 : ValidatedAt(s, v) THEN <<>> ELSE <<s[c].id>>
<1> DEFINE n == Len(s)
           completion == SelectLastInSeq(s, IsCompletion)
           progress == SelectLastInSeq(s, Progresses)
           Validation(i) == s[i].kind = "validation.passed"
           Work(i) == Progresses(s[i])
           Done(i) == IsCompletion(s[i])
<1>1. /\ completion \in 0 .. n
      /\ completion = 0 => \A i \in 1 .. n : ~Done(i)
      /\ completion # 0 => Done(completion) /\ \A i \in completion + 1 .. n : ~Done(i)
  BY LastCompletion
<1>2. /\ progress \in 0 .. n
      /\ progress = 0 => \A i \in 1 .. n : ~Work(i)
      /\ progress # 0 => Work(progress) /\ \A i \in progress + 1 .. n : ~Work(i)
  BY LastProgress
<1>3. UnvalidatedCompletion(s) =
        IF completion = 0 \/ \E i \in progress + 1 .. completion - 1 : Validation(i)
        THEN <<>> ELSE <<s[completion].id>>
  BY DEF UnvalidatedCompletion
<1> HIDE DEF completion, progress, Work, Done
<1>4. ASSUME NEW i \in 1 .. n, \A j \in i .. n : ~Work(j) PROVE i \in progress + 1 .. n
  <2>1. CASE progress = 0
    BY <2>1
  <2>2. CASE progress # 0
    <3>1. ~(progress \in i .. n)
      BY <1>2, <1>4, <2>2
    <3> QED
      BY <1>2, <3>1
  <2> QED
    BY <2>1, <2>2
<1>5. ASSUME NEW i \in progress + 1 .. n PROVE i \in 1 .. n /\ \A j \in i .. n : ~Work(j)
  <2>1. i \in 1 .. n
    BY <1>2
  <2>2. ASSUME NEW j \in i .. n PROVE ~Work(j)
    <3>1. j \in progress + 1 .. n /\ j \in 1 .. n
      BY <1>2
    <3> QED
      BY <1>2, <3>1
  <2> QED
    BY <2>1, <2>2
<1>6. ASSUME NEW c, c \in 1 .. n, Done(c), \A i \in c + 1 .. n : ~Done(i) PROVE c = completion
  <2>1. completion # 0
    BY <1>1, <1>6
  <2>2. completion \in 1 .. n
    BY <1>1, <2>1
  <2>3. ~(completion > c) /\ ~(c > completion)
    <3>1. completion > c => completion \in c + 1 .. n
      BY <2>2, <1>6
    <3>2. c > completion => c \in completion + 1 .. n
      BY <2>2, <1>6
    <3> QED
      BY <1>1, <1>6, <2>1, <3>1, <3>2
  <2> QED
    BY <1>6, <2>2, <2>3
<1>7. (\A i \in 1 .. n : ~Done(i)) => UnvalidatedCompletion(s) = <<>>
  <2>1. completion # 0 => completion \in 1 .. n
    BY <1>1
  <2> QED
    BY <1>1, <1>3, <2>1
<1>8. (\E i \in 1 .. n : Done(i)) => completion \in 1 .. n /\ Done(completion)
                                     /\ \A i \in completion + 1 .. n : ~Done(i)
  BY <1>1
<1>9. ASSUME NEW c, c \in 1 .. n, Done(c), \A i \in c + 1 .. n : ~Done(i)
      PROVE  UnvalidatedCompletion(s) =
               IF \E v \in 1 .. c - 1 : /\ v \in 1 .. n /\ Validation(v)
                                        /\ \A i \in v .. n : ~Work(i)
               THEN <<>> ELSE <<s[c].id>>
  <2>1. c = completion /\ completion # 0
    BY <1>6, <1>9
  <2>2. ASSUME NEW v \in progress + 1 .. completion - 1
        PROVE  v \in 1 .. c - 1 /\ v \in 1 .. n /\ \A i \in v .. n : ~Work(i)
    <3>1. v \in progress + 1 .. n /\ v \in 1 .. c - 1
      BY <1>1, <1>2, <2>1
    <3> QED
      BY <3>1, <1>5
  <2>3. ASSUME NEW v \in 1 .. c - 1, v \in 1 .. n, \A i \in v .. n : ~Work(i)
        PROVE  v \in progress + 1 .. completion - 1
    <3>1. v \in progress + 1 .. n
      BY <1>4, <2>3
    <3> QED
      BY <3>1, <2>1, <1>1, <1>2
  <2>4. (\E i \in progress + 1 .. completion - 1 : Validation(i)) <=>
          \E v \in 1 .. c - 1 : v \in 1 .. n /\ Validation(v) /\ \A i \in v .. n : ~Work(i)
    BY <2>2, <2>3
  <2> QED
    BY <1>3, <2>1, <2>4
<1> QED
  BY <1>7, <1>8, <1>9 DEF Done, Work, LastCompletionAt, ValidatedAt

\* The rule that fires first decides, on its own evidence.
LEMMA EvaluateIs ==
  ASSUME NEW s, s # <<>>
  PROVE  LET d == Evaluate(s)
         IN  /\ d.kind = "verify" <=> UnvalidatedCompletion(s) # <<>>
             /\ d.kind = "verify" => d.evidence = UnvalidatedCompletion(s)
             /\ d.kind = "redirect" <=> /\ UnvalidatedCompletion(s) = <<>>
                                        /\ RepeatedFailures(s) # <<>>
             /\ d.kind = "redirect" => d.evidence = RepeatedFailures(s)
             /\ d.kind = "advise" <=> /\ UnvalidatedCompletion(s) = <<>>
                                      /\ RepeatedFailures(s) = <<>>
                                      /\ \/ Last(s).kind = "context.compacted"
                                         \/ RepeatedInspections(s) # <<>>
             /\ d.kind = "advise" => d.evidence =
                  IF Last(s).kind = "context.compacted" THEN <<Last(s).id>>
                  ELSE RepeatedInspections(s)
             /\ d.kind \in Kinds
             /\ d.kind = "continue" => d = Continue
BY DEF Evaluate, Decision, Continue, Kinds

-----------------------------------------------------------------------------
(* A session *)

AnySignals == signals \in Seq({signals[i] : i \in DOMAIN signals})

LEMMA SignalsGrow ==
  ASSUME AnySignals, SessionNext
  PROVE  /\ Len(signals) \in Nat /\ Len(signals') = Len(signals) + 1
         /\ \A i \in 1 .. Len(signals) : signals'[i] = signals[i]
         /\ AnySignals'
<1>1. PICK x : signals' = Append(signals, x)
  BY DEF SessionNext, Observe
<1> QED
  BY <1>1 DEF AnySignals

LEMMA LiftedByValidation ==
  ASSUME AnySignals, SessionNext,
         Evaluate(signals).kind = "verify", Evaluate(signals').kind # "verify"
  PROVE  /\ IsCompletion(Last(signals'))
         /\ \E v \in DOMAIN signals :
              /\ signals[v].kind = "validation.passed"
              /\ \A i \in v .. Len(signals) : ~Progresses(signals[i])
<1> DEFINE n == Len(signals)
<1>1. /\ n \in Nat /\ Len(signals') = n + 1
      /\ \A i \in 1 .. n : signals'[i] = signals[i]
  BY SignalsGrow
<1>2. signals # <<>> /\ signals' # <<>>
  BY <1>1 DEF Evaluate, Continue, Decision
<1>3. UnvalidatedCompletion(signals) # <<>> /\ UnvalidatedCompletion(signals') = <<>>
  BY <1>2, EvaluateIs
<1>4. PICK c : LastCompletionAt(signals, c)
  BY <1>1, <1>3, UnvalidatedIs
<1>5. ~\E v \in 1 .. c - 1 : ValidatedAt(signals, v)
  BY <1>1, <1>3, <1>4, UnvalidatedIs
<1>6. ASSUME NEW v, ValidatedAt(signals', v), v \in 1 .. n
      PROVE  /\ v \in DOMAIN signals
             /\ signals[v].kind = "validation.passed"
             /\ \A i \in v .. n : ~Progresses(signals[i])
  <2>1. \A i \in v .. n : i \in v .. n + 1 /\ signals'[i] = signals[i]
    BY <1>1, <1>6
  <2> QED
    BY <1>1, <1>6, <2>1 DEF ValidatedAt, AnySignals
<1>7. IsCompletion(signals'[n + 1])
  <2> SUFFICES ASSUME ~IsCompletion(signals'[n + 1]) PROVE FALSE
    OBVIOUS
  <2>1. c \in 1 .. n /\ IsCompletion(signals[c]) /\ \A i \in c + 1 .. n : ~IsCompletion(signals[i])
    BY <1>4 DEF LastCompletionAt
  <2>2. \A i \in c + 1 .. n + 1 : i = n + 1 \/ (i \in c + 1 .. n /\ signals'[i] = signals[i])
    BY <1>1, <2>1
  <2>3. LastCompletionAt(signals', c)
    BY <1>1, <2>1, <2>2 DEF LastCompletionAt
  <2>4. PICK v \in 1 .. c - 1 : ValidatedAt(signals', v)
    BY <1>1, <1>3, <2>3, UnvalidatedIs
  <2>5. v \in 1 .. n
    BY <1>1, <2>1
  <2>6. ValidatedAt(signals, v)
    BY <1>6, <2>4, <2>5 DEF ValidatedAt
  <2> QED
    BY <1>5, <2>6
<1>8. LastCompletionAt(signals', n + 1)
  BY <1>1, <1>7 DEF LastCompletionAt
<1>9. PICK v \in 1 .. (n + 1) - 1 : ValidatedAt(signals', v)
  BY <1>1, <1>3, <1>8, UnvalidatedIs
<1>10. v \in 1 .. n
  BY <1>1
<1>11. IsCompletion(Last(signals'))
  BY <1>1, <1>7 DEF Last
<1> QED
  BY <1>6, <1>9, <1>10, <1>11

\* A demand for validation is lifted only by a completion that a validation
\* precedes with no progress in between (engine.go:78-98).
THEOREM OnlyValidationLifts == SessionSpec => VerifyLiftedByValidatedCompletion
<1>1. SessionInit => AnySignals
  BY DEF SessionInit, AnySignals
<1>2. AnySignals /\ [SessionNext]_signals => AnySignals'
  BY SignalsGrow DEF AnySignals
<1>3. AnySignals /\ [SessionNext]_signals =>
        [Evaluate(signals).kind = "verify" /\ Evaluate(signals').kind # "verify"
           => /\ IsCompletion(Last(signals'))
              /\ \E v \in DOMAIN signals :
                   /\ signals[v].kind = "validation.passed"
                   /\ \A i \in v .. Len(signals) : ~Progresses(signals[i])]_signals
  BY LiftedByValidation
<1> QED
  BY <1>1, <1>2, <1>3, PTL DEF SessionSpec, VerifyLiftedByValidatedCompletion

\* What a session's signals are: numbered, and of the kinds Project makes.
SessionInv ==
  /\ AnySignals
  /\ \A i \in 1 .. Len(signals) :
       /\ signals[i].id = i
       /\ signals[i].kind = "tool.failed" =>
            signals[i].tool = "bash" /\ signals[i].input \in Inputs /\ signals[i].result \in Results
       /\ Inspects(signals[i]) <=> signals[i].kind = "tool.completed" /\ signals[i].tool = "read"
       /\ Inspects(signals[i]) => signals[i].input \in Inputs
       /\ signals[i].kind = "validation.passed" => ~Progresses(signals[i])

LEMMA SessionInvKept ==
  ASSUME SessionInv, SessionNext
  PROVE  SessionInv'
<1> DEFINE n == Len(signals)
<1>1. PICK p \in Observed :
        signals' = Append(signals, [id |-> n + 1, kind |-> p.kind, tool |-> p.tool,
                                    input |-> p.input, result |-> p.result,
                                    progress |-> p.progress])
  BY DEF SessionNext, Observe
<1> DEFINE x == [id |-> n + 1, kind |-> p.kind, tool |-> p.tool, input |-> p.input,
                 result |-> p.result, progress |-> p.progress]
<1>2. /\ n \in Nat /\ Len(signals') = n + 1 /\ AnySignals'
      /\ \A i \in 1 .. n : signals'[i] = signals[i]
  BY SignalsGrow DEF SessionInv
<1>3. signals'[n + 1] = x
  BY <1>1, <1>2 DEF SessionInv, AnySignals
<1>4. /\ x.id = n + 1
      /\ x.kind = "tool.failed" => x.tool = "bash" /\ x.input \in Inputs /\ x.result \in Results
      /\ Inspects(x) <=> x.kind = "tool.completed" /\ x.tool = "read"
      /\ Inspects(x) => x.input \in Inputs
      /\ x.kind = "validation.passed" => ~Progresses(x)
  BY DEF Observed, Inspects, Progresses, IsInspectionTool
<1>5. \A i \in 1 .. n + 1 : i \in 1 .. n \/ i = n + 1
  BY <1>2
<1> HIDE DEF x
<1> QED
  BY <1>2, <1>3, <1>4, <1>5 DEF SessionInv

LEMMA LastIdsAre ==
  ASSUME SessionInv, NEW k \in Nat \ {0}, k <= Len(signals)
  PROVE  LastIds(signals, k) = Ids(Suffix(k)) /\ LastIds(signals, k) # <<>>
<1> DEFINE n == Len(signals)
<1>1. n \in Nat
  BY DEF SessionInv, AnySignals
<1>2. Cardinality(Suffix(k)) = k
  BY <1>1, FS_Interval DEF Suffix
<1>3. \A i \in 1 .. k : signals[n - k + i].id = n - k + i
  <2>1. \A i \in 1 .. k : n - k + i \in 1 .. n
    BY <1>1
  <2> QED
    BY <2>1 DEF SessionInv
<1>4. LastIds(signals, k) = Ids(Suffix(k))
  BY <1>2, <1>3 DEF LastIds, Ids
<1>5. 1 \in DOMAIN LastIds(signals, k)
  BY DEF LastIds
<1>6. DOMAIN <<>> = {}
  OBVIOUS
<1>7. LastIds(signals, k) # <<>>
  BY <1>5, <1>6
<1> QED
  BY <1>4, <1>7

LEMMA LoopFound ==
  ASSUME SessionInv, signals # <<>>
  PROVE  /\ Looping <=> RepeatedFailures(signals) # <<>>
         /\ Looping => RepeatedFailures(signals) = Ids(Suffix(FailureRun))
         /\ Looping => Last(signals).kind = "tool.failed"
<1> DEFINE n == Len(signals)
<1>1. n \in Nat \ {0} /\ n \in 1 .. n
  BY DEF SessionInv, AnySignals
<1>2. FailureRun \in Nat \ {0}
  BY RunLengths
<1>3. FailureRuns(signals)[n] >= FailureRun <=>
        /\ FailureRun <= n
        /\ \A j \in n - FailureRun + 1 .. n : SameFailure(signals[j], signals[n])
  BY <1>1, <1>2, FailureRunsCount
<1>4. FailureRuns(signals)[n] \in Nat
  BY <1>1, FailureRunsAre
<1>5. FailureRuns(signals)[n] < FailureRun <=> ~(FailureRuns(signals)[n] >= FailureRun)
  BY <1>2, <1>4
<1>6. ASSUME FailureRun <= n
      PROVE  n \in Suffix(FailureRun) /\ \A j \in Suffix(FailureRun) : j \in 1 .. n
  BY <1>1, <1>2, <1>6 DEF Suffix
<1>7. ASSUME Looping
      PROVE  /\ FailureRun <= n /\ Last(signals).kind = "tool.failed"
             /\ \A j \in n - FailureRun + 1 .. n : SameFailure(signals[j], signals[n])
  <2>1. FailureRun <= n
    BY <1>1, <1>2, <1>7 DEF Looping
  <2>2. PICK input \in Inputs, result \in Results : \A i \in Suffix(FailureRun) :
                /\ signals[i].kind = "tool.failed"
                /\ signals[i].input = input
                /\ signals[i].result = result
    BY <1>7 DEF Looping
  <2>3. \A i \in Suffix(FailureRun) : signals[i].tool = "bash"
    BY <1>6, <2>1, <2>2 DEF SessionInv
  <2>4. \A i \in Suffix(FailureRun) : SameFailure(signals[i], signals[n])
    BY <1>6, <2>1, <2>2, <2>3 DEF SameFailure
  <2>5. Last(signals).kind = "tool.failed"
    BY <1>6, <2>1, <2>2 DEF Last
  <2> QED
    BY <2>1, <2>4, <2>5 DEF Suffix
<1>8. ASSUME FailureRun <= n, \A j \in n - FailureRun + 1 .. n : SameFailure(signals[j], signals[n])
      PROVE  Looping
  <2>1. \A j \in Suffix(FailureRun) : SameFailure(signals[j], signals[n])
    BY <1>8 DEF Suffix
  <2>2. signals[n].kind = "tool.failed"
    BY <1>6, <1>8, <2>1 DEF SameFailure
  <2>3. signals[n].input \in Inputs /\ signals[n].result \in Results
    BY <1>1, <2>2 DEF SessionInv
  <2>4. \A i \in Suffix(FailureRun) : /\ signals[i].kind = "tool.failed"
                                      /\ signals[i].input = signals[n].input
                                      /\ signals[i].result = signals[n].result
    BY <2>1 DEF SameFailure
  <2>5. n >= FailureRun
    BY <1>1, <1>2, <1>8
  <2> QED
    BY <2>3, <2>4, <2>5 DEF Looping
<1>9. Looping <=> FailureRuns(signals)[n] >= FailureRun
  BY <1>3, <1>7, <1>8
<1>10. CASE Looping
  <2>1. RepeatedFailures(signals) = LastIds(signals, FailureRun)
    BY <1>5, <1>9, <1>10 DEF RepeatedFailures
  <2> QED
    BY <1>2, <1>7, <1>10, <2>1, LastIdsAre
<1>11. CASE ~Looping
  BY <1>5, <1>9, <1>11 DEF RepeatedFailures
<1> QED
  BY <1>10, <1>11, <1>7

LEMMA StallFound ==
  ASSUME SessionInv, signals # <<>>
  PROVE  /\ Stalled <=> RepeatedInspections(signals) # <<>>
         /\ Stalled => RepeatedInspections(signals) = Ids(Suffix(InspectionRun))
         /\ Stalled => Last(signals).kind = "tool.completed"
<1> DEFINE n == Len(signals)
<1>1. n \in Nat \ {0} /\ n \in 1 .. n
  BY DEF SessionInv, AnySignals
<1>2. InspectionRun \in Nat \ {0}
  BY RunLengths
<1>3. InspectionRuns(signals)[n] >= InspectionRun <=>
        /\ InspectionRun <= n
        /\ \A j \in n - InspectionRun + 1 .. n :
             Inspects(signals[j]) /\ SameInspection(signals[j], signals[n])
  BY <1>1, <1>2, InspectionRunsCount
<1>4. InspectionRuns(signals)[n] \in Nat
  BY <1>1, InspectionRunsAre
<1>5. InspectionRuns(signals)[n] < InspectionRun <=> ~(InspectionRuns(signals)[n] >= InspectionRun)
  BY <1>2, <1>4
<1>6. ASSUME InspectionRun <= n
      PROVE  n \in Suffix(InspectionRun) /\ \A j \in Suffix(InspectionRun) : j \in 1 .. n
  BY <1>1, <1>2, <1>6 DEF Suffix
<1>7. ASSUME Stalled
      PROVE  /\ InspectionRun <= n /\ Last(signals).kind = "tool.completed"
             /\ \A j \in n - InspectionRun + 1 .. n :
                  Inspects(signals[j]) /\ SameInspection(signals[j], signals[n])
  <2>1. InspectionRun <= n
    BY <1>1, <1>2, <1>7 DEF Stalled
  <2>2. PICK input \in Inputs : \A i \in Suffix(InspectionRun) :
                /\ signals[i].kind = "tool.completed"
                /\ signals[i].tool = "read"
                /\ signals[i].input = input
    BY <1>7 DEF Stalled
  <2>3. \A i \in Suffix(InspectionRun) : Inspects(signals[i])
    BY <1>6, <2>1, <2>2 DEF SessionInv
  <2>4. \A i \in Suffix(InspectionRun) : SameInspection(signals[i], signals[n])
    BY <1>6, <2>1, <2>2 DEF SameInspection
  <2>5. Last(signals).kind = "tool.completed"
    BY <1>6, <2>1, <2>2 DEF Last
  <2> QED
    BY <2>1, <2>3, <2>4, <2>5 DEF Suffix
<1>8. ASSUME InspectionRun <= n,
             \A j \in n - InspectionRun + 1 .. n :
               Inspects(signals[j]) /\ SameInspection(signals[j], signals[n])
      PROVE  Stalled
  <2>1. \A j \in Suffix(InspectionRun) :
          Inspects(signals[j]) /\ SameInspection(signals[j], signals[n])
    BY <1>8 DEF Suffix
  <2>2. Inspects(signals[n])
    BY <1>6, <1>8, <2>1
  <2>3. signals[n].input \in Inputs
    BY <1>1, <2>2 DEF SessionInv
  <2>4. \A i \in Suffix(InspectionRun) : i \in 1 .. n /\ Inspects(signals[i])
    BY <1>6, <1>8, <2>1
  <2>5. \A i \in Suffix(InspectionRun) : /\ signals[i].kind = "tool.completed"
                                         /\ signals[i].tool = "read"
                                         /\ signals[i].input = signals[n].input
    BY <2>1, <2>4 DEF SameInspection, SessionInv
  <2>6. n >= InspectionRun
    BY <1>1, <1>2, <1>8
  <2> QED
    BY <2>3, <2>5, <2>6 DEF Stalled
<1>9. Stalled <=> InspectionRuns(signals)[n] >= InspectionRun
  BY <1>3, <1>7, <1>8
<1>10. CASE Stalled
  <2>1. RepeatedInspections(signals) = LastIds(signals, InspectionRun)
    BY <1>5, <1>9, <1>10 DEF RepeatedInspections
  <2> QED
    BY <1>2, <1>7, <1>10, <2>1, LastIdsAre
<1>11. CASE ~Stalled
  BY <1>5, <1>9, <1>11 DEF RepeatedInspections
<1> QED
  BY <1>10, <1>11, <1>7

LEMMA OpenFound ==
  ASSUME SessionInv
  PROVE  LET open == Completions # {} /\ ~Validated
         IN  /\ open <=> UnvalidatedCompletion(signals) # <<>>
             /\ open => UnvalidatedCompletion(signals) =
                  <<CHOOSE c \in Completions : \A k \in Completions : k <= c>>
<1> DEFINE n == Len(signals)
<1>1. n \in Nat /\ DOMAIN signals = 1 .. n
  BY DEF SessionInv, AnySignals
<1>2. CASE Completions = {}
  <2>1. \A i \in 1 .. n : ~IsCompletion(signals[i])
    BY <1>1, <1>2 DEF Completions
  <2> QED
    BY <1>1, <1>2, <2>1, UnvalidatedIs
<1>3. CASE Completions # {}
  <2>1. PICK c : LastCompletionAt(signals, c)
    <3>1. \E i \in 1 .. n : IsCompletion(signals[i])
      BY <1>1, <1>3 DEF Completions
    <3> QED
      BY <1>1, <3>1, UnvalidatedIs
  <2>2. c \in Completions /\ c \in 1 .. n
    BY <1>1, <2>1 DEF Completions, LastCompletionAt
  <2>3. ASSUME NEW k \in Completions PROVE k <= c
    <3>1. k \in 1 .. n /\ ~(k \in c + 1 .. n)
      BY <1>1, <2>1 DEF Completions, LastCompletionAt
    <3> QED
      BY <2>2, <3>1
  <2>4. (CHOOSE d \in Completions : \A k \in Completions : k <= d) = c
    <3> DEFINE d == CHOOSE d \in Completions : \A k \in Completions : k <= d
    <3>1. d \in Completions /\ \A k \in Completions : k <= d
      BY <2>2, <2>3
    <3>2. d <= c /\ c <= d /\ d \in 1 .. n
      BY <1>1, <2>2, <2>3, <3>1 DEF Completions
    <3> QED
      BY <2>2, <3>2
  <2>5. signals[c].id = c
    BY <2>2 DEF SessionInv
  <2>6. ASSUME NEW v \in 1 .. c - 1, ValidatedAt(signals, v) PROVE Validated
    <3>1. v \in 1 .. n /\ v < c
      BY <2>2
    <3>2. \A i \in DOMAIN signals : i > v => ~Progresses(signals[i])
      BY <1>1, <2>6, <3>1 DEF ValidatedAt
    <3> QED
      BY <1>1, <2>2, <2>6, <3>1, <3>2 DEF Validated, ValidatedAt
  <2>7. ASSUME Validated PROVE \E v \in 1 .. c - 1 : ValidatedAt(signals, v)
    <3>1. PICK v \in 1 .. n : /\ signals[v].kind = "validation.passed"
                              /\ \E k \in Completions : v < k
                              /\ \A i \in DOMAIN signals : i > v => ~Progresses(signals[i])
      BY <1>1, <2>7 DEF Validated
    <3>2. v \in 1 .. c - 1
      <4>1. PICK k \in Completions : v < k
        BY <3>1
      <4>2. k \in 1 .. n /\ k <= c
        BY <1>1, <2>3 DEF Completions
      <4> QED
        BY <2>2, <4>1, <4>2
    <3>3. ASSUME NEW i \in v .. n PROVE ~Progresses(signals[i])
      <4>1. i \in 1 .. n /\ (i > v \/ i = v)
        BY <1>1
      <4>2. i = v => ~Progresses(signals[i])
        BY <3>1, <4>1 DEF SessionInv
      <4> QED
        BY <1>1, <3>1, <4>1, <4>2
    <3> QED
      BY <3>1, <3>2, <3>3 DEF ValidatedAt
  <2>8. UnvalidatedCompletion(signals) = IF Validated THEN <<>> ELSE <<c>>
    BY <1>1, <2>1, <2>5, <2>6, <2>7, UnvalidatedIs
  <2>9. <<c>> # <<>>
    OBVIOUS
  <2> QED
    BY <1>3, <2>4, <2>8, <2>9
<1> QED
  BY <1>2, <1>3

LEMMA RulesKept == SessionInv => DecisionAsPromised
<1> SUFFICES ASSUME SessionInv PROVE DecisionAsPromised
  OBVIOUS
<1> DEFINE d == Evaluate(signals)
           open == Completions # {} /\ ~Validated
           compacted == signals # <<>> /\ Last(signals).kind = "context.compacted"
<1>1. CASE signals = <<>>
  <2>1. d = Continue
    BY <1>1 DEF Evaluate
  <2>2. Completions = {}
    BY <1>1 DEF Completions
  <2>3. Len(signals) = 0
    BY <1>1
  <2>4. ~Looping /\ ~Stalled
    BY <2>3, RunLengths DEF Looping, Stalled
  <2> QED
    BY <1>1, <2>1, <2>2, <2>4 DEF DecisionAsPromised, Continue, Decision
<1>2. CASE signals # <<>>
  <2>1. /\ open <=> UnvalidatedCompletion(signals) # <<>>
        /\ open => UnvalidatedCompletion(signals) =
             <<CHOOSE c \in Completions : \A k \in Completions : k <= c>>
    BY OpenFound
  <2>2. /\ Looping <=> RepeatedFailures(signals) # <<>>
        /\ Looping => RepeatedFailures(signals) = Ids(Suffix(FailureRun))
        /\ Looping => Last(signals).kind = "tool.failed"
    BY <1>2, LoopFound
  <2>3. /\ Stalled <=> RepeatedInspections(signals) # <<>>
        /\ Stalled => RepeatedInspections(signals) = Ids(Suffix(InspectionRun))
        /\ Stalled => Last(signals).kind = "tool.completed"
    BY <1>2, StallFound
  <2>4. /\ d.kind = "verify" <=> open
        /\ open => d.evidence = <<CHOOSE c \in Completions : \A k \in Completions : k <= c>>
    BY <1>2, <2>1, EvaluateIs
  <2>5. /\ d.kind = "redirect" <=> ~open /\ Looping
        /\ ~open /\ Looping => d.evidence = Ids(Suffix(FailureRun))
    BY <1>2, <2>1, <2>2, EvaluateIs
  <2>6. d.kind = "advise" <=> ~open /\ ~Looping /\ (Stalled \/ compacted)
    BY <1>2, <2>1, <2>2, <2>3, EvaluateIs
  <2>7. ~open /\ Stalled => d.evidence = Ids(Suffix(InspectionRun))
    <3> SUFFICES ASSUME ~open, Stalled PROVE d.evidence = Ids(Suffix(InspectionRun))
      OBVIOUS
    <3>1. ~Looping /\ ~compacted
      BY <2>2, <2>3
    <3>2. d.kind = "advise"
      BY <2>6, <3>1
    <3> QED
      BY <1>2, <2>3, <3>1, <3>2, EvaluateIs
  <2>8. d.kind = "continue" => d.evidence = <<>>
    <3>1. d.kind = "continue" => d = Continue
      BY <1>2, EvaluateIs
    <3>2. Continue.evidence = <<>>
      BY DEF Continue, Decision
    <3> QED
      BY <3>1, <3>2
  <2> QED
    BY <2>4, <2>5, <2>6, <2>7, <2>8 DEF DecisionAsPromised
<1> QED
  BY <1>1, <1>2

\* At every length of a session the loops of the engine come to the decision,
\* and to the evidence, that the rules promise (engine.go:12-153).
THEOREM DecisionsAsPromised == SessionSpec => []DecisionAsPromised
<1>1. SessionInit => SessionInv
  BY DEF SessionInit, SessionInv, AnySignals
<1>2. SessionInv /\ [SessionNext]_signals => SessionInv'
  <2>1. SessionInv /\ UNCHANGED signals => SessionInv'
    BY DEF SessionInv, AnySignals
  <2> QED
    BY <2>1, SessionInvKept
<1> QED
  BY <1>1, <1>2, RulesKept, PTL DEF SessionSpec

-----------------------------------------------------------------------------
(* A finite set in order *)

\* R orders S strictly; how many elements precede one of them; all of them in order.
TotallyOrders(R, S) ==
  /\ \A d \in S : <<d, d>> \notin R
  /\ \A d, e, f \in S : <<d, e>> \in R /\ <<e, f>> \in R => <<d, f>> \in R
  /\ \A d, e \in S : d = e \/ <<d, e>> \in R \/ <<e, d>> \in R
Rank(R, S) == [e \in S |-> Cardinality(SetLessThan(e, R, S))]
Enumeration(R, S) ==
  [i \in 1 .. Cardinality(S) |-> CHOOSE e \in S : Cardinality(SetLessThan(e, R, S)) = i - 1]

\* The places of a finite set's elements under a strict total order.
LEMMA Ranks ==
  ASSUME NEW S, IsFiniteSet(S), NEW R, TotallyOrders(R, S),
         NEW rank, rank = Rank(R, S)
  PROVE  /\ rank \in [S -> 0 .. Cardinality(S) - 1]
         /\ \A d, e \in S : <<d, e>> \in R <=> rank[d] < rank[e]
         /\ \A d, e \in S : rank[d] = rank[e] => d = e
         /\ \A i \in 1 .. Cardinality(S) : \E e \in S : rank[e] = i - 1
<1> DEFINE n == Cardinality(S)
           Below(e) == {d \in S : <<d, e>> \in R}
<1>0. /\ \A d \in S : <<d, d>> \notin R
      /\ \A d, e, f \in S : <<d, e>> \in R /\ <<e, f>> \in R => <<d, f>> \in R
      /\ \A d, e \in S : d = e \/ <<d, e>> \in R \/ <<e, d>> \in R
  BY DEF TotallyOrders
<1>1. n \in Nat
  BY FS_CardinalityType
<1>2. ASSUME NEW e \in S
      PROVE  /\ IsFiniteSet(Below(e)) /\ Cardinality(Below(e)) \in Nat
             /\ Cardinality(Below(e)) < n
  <2>1. Below(e) \in SUBSET S /\ Below(e) # S
    BY <1>0
  <2>2. IsFiniteSet(Below(e)) /\ Cardinality(Below(e)) <= n /\ (n = Cardinality(Below(e)) => S = Below(e))
    BY <2>1, FS_Subset
  <2>3. Cardinality(Below(e)) \in Nat
    BY <2>2, FS_CardinalityType
  <2> HIDE DEF Below
  <2> QED
    BY <1>1, <2>1, <2>2, <2>3
<1>3. \A e \in S : rank[e] = Cardinality(Below(e))
  BY DEF SetLessThan, Rank
<1>4. rank \in [S -> 0 .. n - 1]
  <2> HIDE DEF Below
  <2>1. \A e \in S : rank[e] \in 0 .. n - 1
    BY <1>1, <1>2, <1>3
  <2> QED
    BY <2>1 DEF Rank
<1>5. ASSUME NEW d \in S, NEW e \in S, <<d, e>> \in R PROVE rank[d] < rank[e]
  <2>1. Below(d) \in SUBSET Below(e)
    BY <1>0, <1>5
  <2>2. d \in Below(e) /\ d \notin Below(d)
    BY <1>0, <1>5
  <2> HIDE DEF Below
  <2>3. Cardinality(Below(d)) <= Cardinality(Below(e))
        /\ (Cardinality(Below(e)) = Cardinality(Below(d)) => Below(e) = Below(d))
    BY <1>2, <2>1, FS_Subset
  <2>4. Cardinality(Below(d)) < Cardinality(Below(e))
    BY <1>2, <2>2, <2>3
  <2> QED
    BY <1>3, <2>4
<1>6. \A e \in S : rank[e] \in Nat
  BY <1>1, <1>4
<1>7. ASSUME NEW d \in S, NEW e \in S
      PROVE  /\ <<d, e>> \in R <=> rank[d] < rank[e]
             /\ rank[d] = rank[e] => d = e
  <2>1. rank[d] \in Nat /\ rank[e] \in Nat
    BY <1>6
  <2>2. CASE d = e
    BY <1>0, <2>1, <2>2
  <2>3. CASE <<d, e>> \in R
    BY <1>5, <2>1, <2>3
  <2>4. CASE <<e, d>> \in R
    <3>1. rank[e] < rank[d]
      BY <1>5, <2>4
    <3>2. ~(<<d, e>> \in R)
      BY <1>0, <2>4
    <3> QED
      BY <2>1, <3>1, <3>2
  <2> QED
    BY <1>0, <2>2, <2>3, <2>4
<1>9. ASSUME NEW i \in 1 .. n PROVE \E e \in S : rank[e] = i - 1
  <2> DEFINE T == 0 .. n - 1
  <2>1. IsFiniteSet(T) /\ Cardinality(T) = n
    <3>1. 0 \in Int /\ n - 1 \in Int /\ n = IF 0 > n - 1 THEN 0 ELSE (n - 1) - 0 + 1
      BY <1>1
    <3> HIDE DEF n
    <3> QED
      BY <3>1, FS_Interval
  <2>2. rank \in Injection(S, T)
    BY <1>4, <1>7 DEF Injection, IsInjective
  <2>3. rank \in Surjection(S, T)
    BY <2>1, <2>2, FS_Injection
  <2>4. i - 1 \in T
    BY <1>1
  <2> HIDE DEF T
  <2> QED
    BY <2>3, <2>4 DEF Surjection
<1> QED
  BY <1>4, <1>7, <1>9

LEMMA Enumerated ==
  ASSUME NEW S, IsFiniteSet(S), NEW R, TotallyOrders(R, S), NEW q, q = Enumeration(R, S)
  PROVE  /\ \A i \in 1 .. Cardinality(S) : q[i] \in S
         /\ \A e \in S : \E i \in 1 .. Cardinality(S) : q[i] = e
         /\ \A i, j \in 1 .. Cardinality(S) : <<q[i], q[j]>> \in R <=> i < j
<1> DEFINE n == Cardinality(S)
           rank == Rank(R, S)
<1>1. n \in Nat
  BY FS_CardinalityType
<1>2. /\ rank \in [S -> 0 .. n - 1]
      /\ \A d, e \in S : <<d, e>> \in R <=> rank[d] < rank[e]
      /\ \A d, e \in S : rank[d] = rank[e] => d = e
      /\ \A i \in 1 .. n : \E e \in S : rank[e] = i - 1
  BY Ranks
<1>3. \A e \in S : Cardinality(SetLessThan(e, R, S)) = rank[e]
  BY DEF Rank
<1> HIDE DEF rank
<1>4. ASSUME NEW i \in 1 .. n PROVE q[i] \in S /\ rank[q[i]] = i - 1
  <2>1. \E e \in S : Cardinality(SetLessThan(e, R, S)) = i - 1
    BY <1>2, <1>3
  <2>2. q[i] = CHOOSE e \in S : Cardinality(SetLessThan(e, R, S)) = i - 1
    BY DEF Enumeration
  <2>3. q[i] \in S /\ Cardinality(SetLessThan(q[i], R, S)) = i - 1
    BY <2>1, <2>2
  <2> QED
    BY <1>3, <2>3
<1>5. ASSUME NEW e \in S PROVE \E i \in 1 .. n : q[i] = e
  <2>1. rank[e] \in Nat /\ rank[e] < n
    BY <1>1, <1>2
  <2>2. rank[e] + 1 \in 1 .. n /\ (rank[e] + 1) - 1 = rank[e]
    BY <1>1, <2>1
  <2>3. rank[q[rank[e] + 1]] = rank[e]
    BY <1>4, <2>2
  <2> QED
    BY <1>2, <1>4, <2>2, <2>3
<1>6. ASSUME NEW i \in 1 .. n, NEW j \in 1 .. n PROVE <<q[i], q[j]>> \in R <=> i < j
  <2>1. q[i] \in S /\ q[j] \in S /\ rank[q[i]] = i - 1 /\ rank[q[j]] = j - 1
    BY <1>4
  <2>2. <<q[i], q[j]>> \in R <=> rank[q[i]] < rank[q[j]]
    BY <1>2, <2>1
  <2>3. i - 1 < j - 1 <=> i < j
    OBVIOUS
  <2> QED
    BY <2>1, <2>2, <2>3
<1> QED
  BY <1>4, <1>5, <1>6
-----------------------------------------------------------------------------
(* The evidence of a decision *)

\* The kinds of signals a decision rests on.
Grounds(kind, signal) == \/ kind = "verify" /\ signal = "session.completed"
                         \/ kind = "redirect" /\ signal = "tool.failed"
                         \/ kind = "advise" /\ signal \in {"context.compacted", "tool.completed"}

\* A decision to step in has evidence, all of it ids of signals of its kind.
LEMMA EvidenceGiven ==
  ASSUME NEW s, Len(s) \in Nat, s # <<>> => Len(s) # 0,
         NEW d, d = Evaluate(s), d.kind # "continue"
  PROVE  \E k \in Nat \ {0} :
           /\ d.evidence = [i \in 1 .. k |-> d.evidence[i]]
           /\ \A i \in 1 .. k : \E j \in 1 .. Len(s) :
                d.evidence[i] = s[j].id /\ Grounds(d.kind, s[j].kind)
<1> DEFINE n == Len(s)
<1>1. s # <<>> /\ n \in Nat \ {0}
  <2>1. Continue.kind = "continue"
    BY DEF Continue, Decision
  <2> QED
    BY <2>1 DEF Evaluate
<1>2. ASSUME NEW k \in Nat \ {0}, k <= n, d.evidence = LastIds(s, k),
             \A j \in n - k + 1 .. n : Grounds(d.kind, s[j].kind)
      PROVE  /\ d.evidence = [i \in 1 .. k |-> d.evidence[i]]
             /\ \A i \in 1 .. k : \E j \in 1 .. n :
                  d.evidence[i] = s[j].id /\ Grounds(d.kind, s[j].kind)
  <2>1. ASSUME NEW i \in 1 .. k
        PROVE  /\ n - k + i \in 1 .. n /\ n - k + i \in n - k + 1 .. n
               /\ d.evidence[i] = s[n - k + i].id
    BY <1>1, <1>2 DEF LastIds
  <2>2. d.evidence = [i \in 1 .. k |-> d.evidence[i]]
    BY <1>2 DEF LastIds
  <2> QED
    BY <1>2, <2>1, <2>2
<1>3. ASSUME NEW j \in 1 .. n, d.evidence = <<s[j].id>>, Grounds(d.kind, s[j].kind)
      PROVE  /\ d.evidence = [i \in 1 .. 1 |-> d.evidence[i]]
             /\ \A i \in 1 .. 1 : \E m \in 1 .. n :
                  d.evidence[i] = s[m].id /\ Grounds(d.kind, s[m].kind)
  <2>1. \A i \in 1 .. 1 : i = 1
    OBVIOUS
  <2>2. d.evidence[1] = s[j].id /\ DOMAIN d.evidence = 1 .. 1
    BY <1>3
  <2>3. d.evidence = [i \in 1 .. 1 |-> d.evidence[i]]
    BY <1>3
  <2> QED
    BY <1>3, <2>1, <2>2, <2>3
<1>4. CASE d.kind = "verify"
  <2>1. d.evidence = UnvalidatedCompletion(s) /\ UnvalidatedCompletion(s) # <<>>
    BY <1>1, <1>4, EvaluateIs
  <2>2. PICK c : LastCompletionAt(s, c)
    BY <2>1, UnvalidatedIs
  <2>3. UnvalidatedCompletion(s) = <<s[c].id>>
    BY <2>1, <2>2, UnvalidatedIs
  <2>4. c \in 1 .. n /\ Grounds(d.kind, s[c].kind)
    BY <1>4, <2>2 DEF LastCompletionAt, IsCompletion, Grounds
  <2> QED
    BY <1>3, <2>1, <2>3, <2>4
<1>5. CASE d.kind = "redirect"
  <2>1. d.evidence = RepeatedFailures(s) /\ RepeatedFailures(s) # <<>>
    BY <1>1, <1>5, EvaluateIs
  <2>2. ~(FailureRuns(s)[n] < FailureRun) /\ d.evidence = LastIds(s, FailureRun)
    BY <2>1 DEF RepeatedFailures
  <2>3. FailureRun \in Nat \ {0} /\ FailureRuns(s)[n] \in Nat /\ n \in 0 .. n
    BY <1>1, RunLengths, FailureRunsAre
  <2>4. FailureRuns(s)[n] >= FailureRun
    BY <2>2, <2>3
  <2>5. FailureRun <= n /\ \A j \in n - FailureRun + 1 .. n : SameFailure(s[j], s[n])
    BY <2>3, <2>4, FailureRunsCount
  <2>6. \A j \in n - FailureRun + 1 .. n : Grounds(d.kind, s[j].kind)
    BY <1>5, <2>5 DEF SameFailure, Grounds
  <2> QED
    BY <1>2, <2>2, <2>3, <2>5, <2>6
<1>6. CASE d.kind = "advise" /\ Last(s).kind = "context.compacted"
  <2>1. d.evidence = <<s[n].id>> /\ s[n].kind = "context.compacted"
    BY <1>1, <1>6, EvaluateIs DEF Last
  <2>2. n \in 1 .. n /\ Grounds(d.kind, s[n].kind)
    BY <1>1, <1>6, <2>1 DEF Grounds
  <2>3. PICK j \in 1 .. n : d.evidence = <<s[j].id>> /\ Grounds(d.kind, s[j].kind)
    BY <2>1, <2>2
  <2> QED
    BY <1>3, <2>3
<1>7. CASE d.kind = "advise" /\ Last(s).kind # "context.compacted"
  <2>1. d.evidence = RepeatedInspections(s) /\ RepeatedInspections(s) # <<>>
    BY <1>1, <1>7, EvaluateIs
  <2>2. ~(InspectionRuns(s)[n] < InspectionRun) /\ d.evidence = LastIds(s, InspectionRun)
    BY <2>1 DEF RepeatedInspections
  <2>3. InspectionRun \in Nat \ {0} /\ InspectionRuns(s)[n] \in Nat /\ n \in 0 .. n
    BY <1>1, RunLengths, InspectionRunsAre
  <2>4. InspectionRuns(s)[n] >= InspectionRun
    BY <2>2, <2>3
  <2>5. /\ InspectionRun <= n
        /\ \A j \in n - InspectionRun + 1 .. n : Inspects(s[j])
    BY <2>3, <2>4, InspectionRunsCount
  <2>6. \A j \in n - InspectionRun + 1 .. n : Grounds(d.kind, s[j].kind)
    BY <1>7, <2>5 DEF Inspects, Grounds
  <2> QED
    BY <1>2, <2>2, <2>3, <2>5, <2>6
<1>8. d.kind \in Kinds
  BY <1>1, EvaluateIs
<1> QED
  BY <1>4, <1>5, <1>6, <1>7, <1>8 DEF Kinds
=============================================================================
