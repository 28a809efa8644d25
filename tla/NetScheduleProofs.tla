-------------------------- MODULE NetScheduleProofs --------------------------
(***************************************************************************)
(* The schedules of NetSchedule, proved for any design, any number of      *)
(* threads and any clusters: every pin is in reach of its search, no net   *)
(* is on two threads, regions of a level are apart, the batches are        *)
(* complete and even, and a net is left out only for lack of room.         *)
(*                                                                         *)
(* The sizes of nets and the centers of boxes are folds.  The first part   *)
(* shows that a fold that adds up numbers is a sum: it does not depend on  *)
(* the order in which it takes its elements.                               *)
(***************************************************************************)
EXTENDS NetSchedule, FiniteSetTheorems, SequenceTheorems, TLAPS

-----------------------------------------------------------------------------
(* Sums *)

\* Every set of numbers that is not empty has a least one.
LEMMA LeastNumber ==
  ASSUME NEW T, T \subseteq Nat, T # {}
  PROVE  \E m \in T : \A n \in T : m <= n
<1>1. PICK m \in T : \A n \in T : ~(<<n, m>> \in OpToRel(<, Nat))
  BY NatLessThanWellFounded, WFMin
<1>2. ASSUME NEW n \in T, n < m PROVE FALSE
  <2>1. <<n, m>> \in OpToRel(<, Nat)
    BY <1>2 DEF OpToRel
  <2>2. QED  BY <1>1, <2>1
<1>3. QED  BY <1>2

\* pick takes an element out of every set of elements of S but the empty one.
Picks(pick, S) == \A T \in (SUBSET S) \ {{}} : pick[T] \in T

\* g is the sum of w over the sets of F, element by element as pick has it.
Sums(g, F, w, pick) ==
  \A T \in F : g[T] = IF T = {} THEN 0 ELSE g[T \ {pick[T]}] + w[pick[T]]

\* The sets of at most n elements of S.
UpTo(S, n) == {T \in SUBSET S : Cardinality(T) <= n}

LEMMA SumsUpTo ==
  ASSUME NEW S, IsFiniteSet(S), NEW w \in [S -> Int], NEW pick, Picks(pick, S), NEW n \in Nat,
         NEW g \in [UpTo(S, n) -> Int], Sums(g, UpTo(S, n), w, pick)
  PROVE  \E h \in [UpTo(S, n + 1) -> Int] : Sums(h, UpTo(S, n + 1), w, pick)
<1> DEFINE h == [T \in UpTo(S, n + 1) |-> IF T = {} THEN 0 ELSE g[T \ {pick[T]}] + w[pick[T]]]
<1>1. ASSUME NEW T \in UpTo(S, n + 1), T # {}
      PROVE  pick[T] \in S /\ T \ {pick[T]} \in UpTo(S, n)
  <2>1. T \subseteq S /\ pick[T] \in T /\ Cardinality(T) <= n + 1
    BY <1>1 DEF UpTo, Picks
  <2>2. IsFiniteSet(T)
    BY <2>1, FS_Subset
  <2>3. Cardinality(T \ {pick[T]}) = Cardinality(T) - 1 /\ Cardinality(T) \in Nat
    BY <2>1, <2>2, FS_RemoveElement, FS_CardinalityType
  <2>4. Cardinality(T \ {pick[T]}) <= n
    BY <2>1, <2>3
  <2>5. QED  BY <2>1, <2>4 DEF UpTo
<1>2. h \in [UpTo(S, n + 1) -> Int]
  BY <1>1
<1>3. ASSUME NEW T \in UpTo(S, n) PROVE T \in UpTo(S, n + 1) /\ h[T] = g[T]
  <2>1. T \in SUBSET S /\ Cardinality(T) <= n
    BY DEF UpTo
  <2>2. Cardinality(T) \in Nat
    BY <2>1, FS_Subset, FS_CardinalityType
  <2>3. T \in UpTo(S, n + 1)
    BY <2>1, <2>2 DEF UpTo
  <2>4. g[T] = IF T = {} THEN 0 ELSE g[T \ {pick[T]}] + w[pick[T]]
    BY DEF Sums
  <2>5. QED  BY <2>3, <2>4
<1>4. ASSUME NEW T \in UpTo(S, n + 1)
      PROVE  h[T] = IF T = {} THEN 0 ELSE h[T \ {pick[T]}] + w[pick[T]]
  <2>1. CASE T = {}
    BY <2>1
  <2>2. CASE T # {}
    BY <2>2, <1>1, <1>3
  <2>3. QED  BY <2>1, <2>2
<1> HIDE DEF h
<1>5. Sums(h, UpTo(S, n + 1), w, pick)
  BY <1>4 DEF Sums
<1>6. QED  BY <1>2, <1>5

\* The sum exists: the fold is a function on the sets of elements of S.
LEMMA SumsExist ==
  ASSUME NEW S, IsFiniteSet(S), NEW w \in [S -> Int], NEW pick, Picks(pick, S)
  PROVE  \E g \in [SUBSET S -> Int] : Sums(g, SUBSET S, w, pick)
<1> DEFINE Has(n) == \E g \in [UpTo(S, n) -> Int] : Sums(g, UpTo(S, n), w, pick)
           Lacks == {n \in Nat : ~Has(n)}
<1>1. Has(0)
  <2>1. UpTo(S, 0) = {{}}
    <3>1. ASSUME NEW T \in SUBSET S PROVE Cardinality(T) <= 0 <=> T = {}
      BY FS_Subset, FS_CardinalityType, FS_EmptySet
    <3>2. {} \in SUBSET S
      OBVIOUS
    <3>3. QED  BY <3>1, <3>2 DEF UpTo
  <2> DEFINE g == [T \in {{}} |-> 0]
  <2>2. g \in [UpTo(S, 0) -> Int] /\ Sums(g, UpTo(S, 0), w, pick)
    BY <2>1 DEF Sums
  <2>3. QED  BY <2>2
<1>2. ASSUME NEW n \in Nat, Has(n) PROVE Has(n + 1)
  <2>1. PICK g \in [UpTo(S, n) -> Int] : Sums(g, UpTo(S, n), w, pick)
    BY <1>2
  <2>2. QED  BY <2>1, SumsUpTo
<1> HIDE DEF Has
<1>3. Lacks = {}
  <2>1. SUFFICES ASSUME Lacks # {} PROVE FALSE
    OBVIOUS
  <2>2. PICK m \in Lacks : \A n \in Lacks : m <= n
    BY <2>1, LeastNumber
  <2>3. m # 0 /\ m \in Nat /\ ~Has(m)
    BY <1>1
  <2>4. m - 1 \in Nat /\ ~(m - 1 \in Lacks)
    BY <2>2, <2>3
  <2>5. Has(m - 1)
    BY <2>4
  <2>6. Has((m - 1) + 1)
    BY <2>4, <2>5, <1>2
  <2>7. (m - 1) + 1 = m
    BY <2>3
  <2>8. QED  BY <2>3, <2>6, <2>7
<1>4. Cardinality(S) \in Nat
  BY FS_CardinalityType
<1>5. Has(Cardinality(S))
  BY <1>3, <1>4
<1>6. UpTo(S, Cardinality(S)) = SUBSET S
  <2>1. \A T \in SUBSET S : Cardinality(T) <= Cardinality(S)
    BY FS_Subset
  <2>2. QED  BY <2>1 DEF UpTo
<1>7. QED  BY <1>5, <1>6 DEF Has

\* No two sums differ.
LEMMA SumsAgree ==
  ASSUME NEW S, IsFiniteSet(S), NEW w, NEW pick, Picks(pick, S),
         NEW g, Sums(g, SUBSET S, w, pick), NEW h, Sums(h, SUBSET S, w, pick), NEW T \in SUBSET S
  PROVE  g[T] = h[T]
<1> DEFINE Differ == {U \in SUBSET S : g[U] # h[U]}
           Sizes == {Cardinality(U) : U \in Differ}
<1>1. \A U \in SUBSET S : IsFiniteSet(U) /\ Cardinality(U) \in Nat
  BY FS_Subset, FS_CardinalityType
<1>2. Differ = {}
  <2>1. SUFFICES ASSUME Differ # {} PROVE FALSE
    OBVIOUS
  <2>2. Sizes \subseteq Nat /\ Sizes # {}
    BY <1>1, <2>1
  <2>3. PICK m \in Sizes : \A n \in Sizes : m <= n
    BY <2>2, LeastNumber
  <2>4. PICK U \in Differ : m = Cardinality(U)
    OBVIOUS
  <2>5. U # {}
    BY DEF Sums
  <2>6. pick[U] \in U
    BY <2>5 DEF Picks
  <2>7. Cardinality(U \ {pick[U]}) = Cardinality(U) - 1
    BY <1>1, <2>6, FS_RemoveElement
  <2>8. ~(U \ {pick[U]} \in Differ)
    <3>1. SUFFICES ASSUME U \ {pick[U]} \in Differ PROVE FALSE
      OBVIOUS
    <3>2. m <= Cardinality(U \ {pick[U]})
      BY <2>3, <3>1
    <3>3. m \in Nat /\ Cardinality(U \ {pick[U]}) = m - 1
      BY <2>2, <2>4, <2>7
    <3>4. QED  BY <3>2, <3>3
  <2>9. g[U \ {pick[U]}] = h[U \ {pick[U]}]
    BY <2>8
  <2>10. g[U] = h[U]
    BY <2>5, <2>9 DEF Sums
  <2>11. QED  BY <2>10
<1>3. QED  BY <1>2

LEMMA SumsAreNumbers ==
  ASSUME NEW S, IsFiniteSet(S), NEW w \in [S -> Int], NEW pick, Picks(pick, S),
         NEW h, Sums(h, SUBSET S, w, pick)
  PROVE  h[S] \in Int
<1>1. PICK g \in [SUBSET S -> Int] : Sums(g, SUBSET S, w, pick)
  BY SumsExist
<1>2. S \in SUBSET S
  OBVIOUS
<1>3. h[S] = g[S]
  BY <1>1, <1>2, SumsAgree
<1>4. QED  BY <1>1, <1>2, <1>3

\* A sum does not depend on the order: any element may be added last.
LEMMA SumsAdd ==
  ASSUME NEW S, IsFiniteSet(S), NEW w \in [S -> Int], NEW pick, Picks(pick, S),
         NEW g \in [SUBSET S -> Int], Sums(g, SUBSET S, w, pick),
         NEW T \in SUBSET S, NEW x \in T
  PROVE  g[T] = g[T \ {x}] + w[x]
<1> DEFINE Fails == {U \in SUBSET S : \E y \in U : g[U] # g[U \ {y}] + w[y]}
           Sizes == {Cardinality(U) : U \in Fails}
<1>1. \A U \in SUBSET S : IsFiniteSet(U) /\ Cardinality(U) \in Nat
  BY FS_Subset, FS_CardinalityType
<1>2. Fails = {}
  <2>1. SUFFICES ASSUME Fails # {} PROVE FALSE
    OBVIOUS
  <2>2. Sizes \subseteq Nat /\ Sizes # {}
    BY <1>1, <2>1
  <2>3. PICK m \in Sizes : \A n \in Sizes : m <= n
    BY <2>2, LeastNumber
  <2>4. PICK U \in Fails : m = Cardinality(U)
    OBVIOUS
  <2>5. PICK y \in U : g[U] # g[U \ {y}] + w[y]
    OBVIOUS
  <2>6. U \in SUBSET S /\ U # {}
    OBVIOUS
  <2>7. PICK c \in U : c = pick[U]
    BY <2>6 DEF Picks
  <2>8. g[U] = g[U \ {c}] + w[c]
    BY <2>6, <2>7 DEF Sums
  <2>9. y # c
    BY <2>5, <2>8
  <2>10. ASSUME NEW z \in U PROVE U \ {z} \in SUBSET S /\ ~(U \ {z} \in Fails)
    <3>1. Cardinality(U \ {z}) = Cardinality(U) - 1
      BY <1>1, FS_RemoveElement
    <3>2. m \in Nat /\ Cardinality(U \ {z}) = m - 1
      BY <2>2, <2>4, <3>1
    <3>3. ~(m <= Cardinality(U \ {z}))
      BY <3>2
    <3>4. U \ {z} \in SUBSET S
      BY <2>6
    <3>5. ASSUME U \ {z} \in Fails PROVE FALSE
      <4>1. Cardinality(U \ {z}) \in Sizes
        BY <3>5
      <4>2. QED  BY <2>3, <3>3, <4>1
    <3>6. QED  BY <3>4, <3>5
  <2>11. g[U \ {c}] = g[(U \ {c}) \ {y}] + w[y]
    BY <2>9, <2>10
  <2>12. g[U \ {y}] = g[(U \ {y}) \ {c}] + w[c]
    BY <2>9, <2>10
  <2>13. (U \ {c}) \ {y} = (U \ {y}) \ {c}
    OBVIOUS
  <2>14. PICK V \in SUBSET S : V = (U \ {y}) \ {c}
    BY <2>6
  <2>15. g[V] \in Int /\ w[c] \in Int /\ w[y] \in Int
    OBVIOUS
  <2>16. g[U] = (g[V] + w[y]) + w[c] /\ g[U \ {y}] = g[V] + w[c]
    BY <2>8, <2>11, <2>12, <2>13, <2>14
  <2>17. QED  BY <2>5, <2>15, <2>16
<1>3. QED  BY <1>2

-----------------------------------------------------------------------------
(* The size of a set of nets *)

Weight == [n \in Nets |-> Len(Net(n).sinks)]
AnyOf == [T \in (SUBSET Nets) \ {{}} |-> CHOOSE n \in T : TRUE]

\* What Init has chosen is one of the inputs.
InputOk == input \in Inputs

LEMMA InputFacts ==
  ASSUME InputOk
  PROVE  /\ input.numThread \in Nat \ {0} /\ input.isRuntimeFirst \in BOOLEAN
         /\ \A n \in Nets : Net(n).source \in Tile /\ Net(n).sinks \in Seq(Tile)
         /\ Weight \in [Nets -> Nat]
<1>1. /\ input.numThread \in Nat \ {0} /\ input.isRuntimeFirst \in BOOLEAN
      /\ \A n \in Nets : Net(n).source \in Tile /\ Net(n).sinks \in Seq(Tile)
  BY ScheduleAssumption DEF InputOk, Net
<1>2. QED  BY <1>1 DEF Weight

\* Size(T) is the fold that sums up the weights of T.
LEMMA SizeFolds ==
  ASSUME NEW T
  PROVE  \E iter : /\ iter = CHOOSE i : i = [U \in SUBSET T |-> IF U = {} THEN 0
                        ELSE i[U \ {CHOOSE n \in U : TRUE}] + Len(Net(CHOOSE n \in U : TRUE).sinks)]
                   /\ Size(T) = iter[T]
BY DEF Size, FoldSet, MapThenFoldSet

LEMMA SizeSums ==
  ASSUME InputOk, NEW T \in SUBSET Nets
  PROVE  \E g \in [SUBSET T -> Int] : Sums(g, SUBSET T, Weight, AnyOf) /\ Size(T) = g[T]
<1>1. Picks(AnyOf, T)
  BY DEF Picks, AnyOf
<1>2. IsFiniteSet(T)
  BY ScheduleAssumption, FS_Subset
<1> DEFINE w == [n \in T |-> Weight[n]]
<1>3. w \in [T -> Int]
  BY InputFacts
<1> HIDE DEF w
<1>4. PICK g \in [SUBSET T -> Int] : Sums(g, SUBSET T, w, AnyOf)
  BY <1>1, <1>2, <1>3, SumsExist
<1>5. ASSUME NEW U \in SUBSET T
      PROVE  g[U] = IF U = {} THEN 0
                    ELSE g[U \ {CHOOSE n \in U : TRUE}] + Len(Net(CHOOSE n \in U : TRUE).sinks)
  <2>1. CASE U = {}
    BY <1>4, <2>1 DEF Sums
  <2>2. CASE U # {}
    <3>1. PICK n : n = CHOOSE m \in U : TRUE
      OBVIOUS
    <3>2. n \in U /\ AnyOf[U] = n
      BY <2>2, <3>1 DEF AnyOf
    <3>3. w[n] = Len(Net(n).sinks)
      BY <3>2 DEF w, Weight
    <3>4. g[U] = g[U \ {n}] + w[n]
      BY <1>4, <2>2, <3>2 DEF Sums
    <3>5. QED  BY <2>2, <3>1, <3>3, <3>4
  <2>3. QED  BY <2>1, <2>2
<1> DEFINE F(i) == [U \in SUBSET T |-> IF U = {} THEN 0
                      ELSE i[U \ {CHOOSE n \in U : TRUE}] + Len(Net(CHOOSE n \in U : TRUE).sinks)]
<1>6. g = F(g)
  BY <1>5
<1>7. PICK iter : iter = (CHOOSE i : i = F(i)) /\ Size(T) = iter[T]
  BY SizeFolds
<1>8. iter = F(iter)
  BY <1>6, <1>7
<1>9. Sums(iter, SUBSET T, w, AnyOf)
  <2>1. ASSUME NEW U \in SUBSET T PROVE iter[U] = IF U = {} THEN 0 ELSE iter[U \ {AnyOf[U]}] + w[AnyOf[U]]
    <3>1. iter[U] = F(iter)[U]
      BY <1>8
    <3>2. CASE U = {}
      BY <3>1, <3>2
    <3>3. CASE U # {}
      <4>1. PICK n : n = CHOOSE m \in U : TRUE
        OBVIOUS
      <4>2. n \in U /\ AnyOf[U] = n
        BY <3>3, <4>1 DEF AnyOf
      <4>3. w[n] = Len(Net(n).sinks)
        BY <4>2 DEF w, Weight
      <4>4. iter[U] = iter[U \ {n}] + Len(Net(n).sinks)
        BY <3>1, <3>3, <4>1
      <4>5. QED  BY <3>3, <4>2, <4>3, <4>4
    <3>4. QED  BY <3>2, <3>3
  <2>2. QED  BY <2>1 DEF Sums
<1>10. Size(T) = g[T]
  BY <1>1, <1>2, <1>4, <1>7, <1>9, SumsAgree
<1>11. Sums(g, SUBSET T, Weight, AnyOf)
  <2>1. ASSUME NEW U \in SUBSET T, U # {} PROVE w[AnyOf[U]] = Weight[AnyOf[U]]
    BY <1>1, <2>1 DEF Picks, w
  <2>2. QED  BY <1>4, <2>1 DEF Sums
<1>12. QED  BY <1>10, <1>11

\* A net that is added to a set adds its own size.
LEMMA SizeAdds ==
  ASSUME InputOk
  PROVE  /\ Size({}) = 0
         /\ \A T \in SUBSET Nets : Size(T) \in Int
         /\ \A n \in Nets : Size({n}) \in Nat
         /\ \A T \in SUBSET Nets, n \in Nets : n \notin T => Size(T \cup {n}) = Size(T) + Size({n})
<1>1. PICK g \in [SUBSET Nets -> Int] : Sums(g, SUBSET Nets, Weight, AnyOf)
  BY SizeSums
<1>2. Weight \in [Nets -> Int] /\ \A n \in Nets : Weight[n] \in Nat
  BY InputFacts
<1>3. ASSUME NEW T \in SUBSET Nets PROVE Size(T) = g[T]
  <2>1. PICK h \in [SUBSET T -> Int] : Sums(h, SUBSET T, Weight, AnyOf) /\ Size(T) = h[T]
    BY SizeSums
  <2>2. Sums(g, SUBSET T, Weight, AnyOf)
    BY <1>1 DEF Sums
  <2>3. Picks(AnyOf, T) /\ IsFiniteSet(T)
    BY ScheduleAssumption, FS_Subset DEF Picks, AnyOf
  <2>4. h[T] = g[T]
    BY <2>1, <2>2, <2>3, SumsAgree
  <2>5. QED  BY <2>1, <2>4
<1>4. g[{}] = 0
  BY <1>1 DEF Sums
<1>5. ASSUME NEW T \in SUBSET Nets, NEW n \in Nets, n \notin T
      PROVE  g[T \cup {n}] = g[T] + Weight[n]
  <2>1. Picks(AnyOf, Nets) /\ IsFiniteSet(Nets)
    BY ScheduleAssumption DEF Picks, AnyOf
  <2>2. PICK U \in SUBSET Nets : U = T \cup {n}
    OBVIOUS
  <2>3. U \ {n} = T /\ n \in U
    BY <1>5, <2>2
  <2>4. g[U] = g[U \ {n}] + Weight[n]
    BY <1>1, <1>2, <2>1, <2>3, SumsAdd
  <2>5. QED  BY <2>2, <2>3, <2>4
<1>6. ASSUME NEW n \in Nets PROVE g[{n}] = Weight[n]
  <2>1. {} \in SUBSET Nets /\ n \notin {} /\ {} \cup {n} = {n}
    OBVIOUS
  <2>2. g[{n}] = 0 + Weight[n]
    BY <1>4, <1>5, <2>1
  <2>3. QED  BY <1>2, <2>2
<1>7. ASSUME NEW n \in Nets PROVE Size({n}) = Weight[n]
  BY <1>3, <1>6
<1>8. ASSUME NEW T \in SUBSET Nets, NEW n \in Nets, n \notin T
      PROVE  Size(T \cup {n}) = Size(T) + Size({n})
  <2>1. PICK U \in SUBSET Nets : U = T \cup {n}
    OBVIOUS
  <2>2. Size(U) = g[U] /\ Size(T) = g[T] /\ Size({n}) = Weight[n]
    BY <1>3, <1>7
  <2>3. g[U] = g[T] + Weight[n]
    BY <1>5, <1>8, <2>1
  <2>4. QED  BY <2>1, <2>2, <2>3
<1>9. QED  BY <1>2, <1>3, <1>4, <1>7, <1>8

-----------------------------------------------------------------------------
(* The boxes *)

Interval == [lo : Int, hi : Int]
\* b is a box, and no bound of it is beyond the device but by one tile.
IsBox(b) == \A a \in Axes : b[a] \in Interval
InDevice(b) == \A a \in Axes : b[a].lo >= -1 /\ b[a].hi <= Layout[a]

LEMMA BoundsOfAxes ==
  ASSUME NEW a \in Axes
  PROVE  /\ Layout[a] \in Nat /\ Margin[a] \in Nat \ {0}
         /\ \A tile \in Tile : tile[a] \in 0..(Layout[a] - 1)
BY BoxAssumption DEF Axes, Tile

LEMMA GreatestOfIndices ==
  ASSUME NEW n \in Nat, NEW T \in (SUBSET (1..n)) \ {{}}
  PROVE  Max(T) \in T
<1> DEFINE Rests == {n - i : i \in T}
<1>1. Rests \subseteq Nat /\ Rests # {}
  OBVIOUS
<1>2. PICK m \in Rests : \A r \in Rests : m <= r
  BY <1>1, LeastNumber
<1>3. PICK i \in T : m = n - i
  OBVIOUS
<1>4. ASSUME NEW j \in T PROVE i >= j
  <2>1. n - j \in Rests
    OBVIOUS
  <2>2. n - i <= n - j
    BY <1>2, <1>3, <2>1
  <2>3. i \in Int /\ j \in Int
    OBVIOUS
  <2>4. QED  BY <2>2, <2>3
<1>5. QED  BY <1>4 DEF Max

LEMMA TotalFolds ==
  ASSUME NEW seq, NEW a
  PROVE  \E iter : /\ iter = CHOOSE i : i = [U \in SUBSET (DOMAIN seq) |-> IF U = {} THEN 0
                        ELSE i[U \ {Max(U)}] + seq[Max(U)][a]]
                   /\ Total(seq, a) = iter[DOMAIN seq]
BY DEF Total, FoldLeft, MapThenFoldSet

LEMMA TotalIsNumber ==
  ASSUME NEW seq \in Seq(Tile), NEW a \in Axes
  PROVE  Total(seq, a) \in Int
<1> DEFINE D == DOMAIN seq
           w == [i \in D |-> seq[i][a]]
           pick == [T \in (SUBSET D) \ {{}} |-> Max(T)]
           F(i) == [U \in SUBSET (DOMAIN seq) |-> IF U = {} THEN 0
                      ELSE i[U \ {Max(U)}] + seq[Max(U)][a]]
<1>1. D = 1..Len(seq) /\ Len(seq) \in Nat /\ IsFiniteSet(D)
  BY FS_Interval
<1>2. w \in [D -> Int]
  BY BoundsOfAxes
<1>3. Picks(pick, D)
  BY <1>1, GreatestOfIndices DEF Picks
<1>4. \A U \in (SUBSET D) \ {{}} : pick[U] = Max(U) /\ w[pick[U]] = seq[Max(U)][a]
  BY <1>3 DEF Picks
<1> HIDE DEF w, pick, D
<1>5. PICK g \in [SUBSET D -> Int] : Sums(g, SUBSET D, w, pick)
  BY <1>1, <1>2, <1>3, SumsExist
<1>6. ASSUME NEW U \in SUBSET D
      PROVE  g[U] = IF U = {} THEN 0 ELSE g[U \ {Max(U)}] + seq[Max(U)][a]
  <2>1. CASE U = {}
    BY <1>5, <2>1 DEF Sums
  <2>2. CASE U # {}
    <3>1. g[U] = g[U \ {pick[U]}] + w[pick[U]]
      BY <1>5, <2>2 DEF Sums
    <3>2. QED  BY <1>4, <2>2, <3>1
  <2>3. QED  BY <2>1, <2>2
<1>7. g = F(g)
  BY <1>6 DEF D
<1>8. PICK iter : /\ iter = CHOOSE i : i = F(i)
                  /\ Total(seq, a) = iter[DOMAIN seq]
  BY TotalFolds
<1>9. iter = F(iter)
  BY <1>7, <1>8
<1>10. Sums(iter, SUBSET D, w, pick)
  <2>1. ASSUME NEW U \in SUBSET D PROVE iter[U] = IF U = {} THEN 0 ELSE iter[U \ {pick[U]}] + w[pick[U]]
    <3>1. iter[U] = F(iter)[U] /\ U \in SUBSET (DOMAIN seq)
      BY <1>9 DEF D
    <3>2. CASE U = {}
      BY <3>1, <3>2
    <3>3. CASE U # {}
      <4>1. iter[U] = iter[U \ {Max(U)}] + seq[Max(U)][a]
        BY <3>1, <3>3
      <4>2. QED  BY <1>4, <3>3, <4>1
    <3>4. QED  BY <3>2, <3>3
  <2>2. QED  BY <2>1 DEF Sums
<1>11. D = DOMAIN seq
  BY DEF D
<1>12. iter[D] \in Int
  BY <1>1, <1>2, <1>3, <1>10, SumsAreNumbers
<1>13. QED  BY <1>8, <1>11, <1>12

LEMMA CenterIsNumber ==
  ASSUME NEW net, net.source \in Tile, net.sinks \in Seq(Tile), NEW a \in Axes
  PROVE  Center(net)[a] \in Int
<1>1. PICK total : total = Total(net.sinks, a)
  OBVIOUS
<1>2. total \in Int
  BY <1>1, TotalIsNumber
<1>3. net.source[a] \in Int
  BY BoundsOfAxes
<1>4. Len(net.sinks) + 1 \in Nat \ {0}
  OBVIOUS
<1>5. Center(net)[a] = ((net.source[a] + total) + (Len(net.sinks) + 1) - 1) \div (Len(net.sinks) + 1)
  BY <1>1 DEF Center
<1>6. QED  BY <1>2, <1>3, <1>4, <1>5

\* A set of numbers with a lower bound has a least one.
LEMMA LeastOfSet ==
  ASSUME NEW T, T \subseteq Int, T # {}, NEW b \in Int, \A v \in T : b <= v
  PROVE  Least(T) \in T /\ \A v \in T : Least(T) <= v
<1> DEFINE Above == {v - b : v \in T}
<1>1. Above \subseteq Nat /\ Above # {}
  <2>1. \A v \in T : v \in Int /\ v - b \in Nat
    OBVIOUS
  <2>2. QED  BY <2>1
<1>2. PICK m \in Above : \A r \in Above : m <= r
  BY <1>1, LeastNumber
<1>3. PICK u \in T : m = u - b
  OBVIOUS
<1>4. ASSUME NEW v \in T PROVE u <= v
  <2>1. v - b \in Above
    OBVIOUS
  <2>2. u - b <= v - b
    BY <1>2, <1>3, <2>1
  <2>3. u \in Int /\ v \in Int
    OBVIOUS
  <2>4. QED  BY <2>2, <2>3
<1>5. QED  BY <1>4 DEF Least

LEMMA GreatestOfSet ==
  ASSUME NEW T, T \subseteq Int, T # {}, NEW b \in Int, \A v \in T : v <= b
  PROVE  Greatest(T) \in T /\ \A v \in T : v <= Greatest(T)
<1> DEFINE Below == {b - v : v \in T}
<1>1. Below \subseteq Nat /\ Below # {}
  OBVIOUS
<1>2. PICK m \in Below : \A r \in Below : m <= r
  BY <1>1, LeastNumber
<1>3. PICK u \in T : m = b - u
  OBVIOUS
<1>4. ASSUME NEW v \in T PROVE v <= u
  <2>1. b - v \in Below
    OBVIOUS
  <2>2. b - u <= b - v
    BY <1>2, <1>3, <2>1
  <2>3. u \in Int /\ v \in Int
    OBVIOUS
  <2>4. QED  BY <2>2, <2>3
<1>5. QED  BY <1>4 DEF Greatest

LEMMA ClippedFacts ==
  ASSUME NEW a \in Axes, NEW lo \in Int, NEW hi \in Int
  PROVE  /\ Clipped(a, lo, hi) \in Interval
         /\ Clipped(a, lo, hi).lo = IF lo < 0 THEN -1 ELSE lo
         /\ Clipped(a, lo, hi).hi = IF hi > Layout[a] THEN Layout[a] ELSE hi
<1>1. Layout[a] \in Int
  BY BoundsOfAxes
<1>2. QED  BY <1>1 DEF Clipped, Interval

\* The box of a connection holds both of its pins, and the widened one holds
\* them strictly.
Holds(box, tile) == \A a \in Axes : box[a].lo <= tile[a] /\ tile[a] <= box[a].hi

LEMMA ConnectionBoxHolds ==
  ASSUME NEW net, net.source \in Tile, net.sinks \in Seq(Tile), NEW k \in 1..Len(net.sinks)
  PROVE  /\ IsBox(ConnectionBox(net, k)) /\ InDevice(ConnectionBox(net, k))
         /\ Holds(ConnectionBox(net, k), net.source)
         /\ Holds(ConnectionBox(net, k), net.sinks[k])
<1>1. ASSUME NEW a \in Axes
      PROVE  LET i == ConnectionBox(net, k)[a]
             IN  /\ i \in Interval /\ i.lo >= -1 /\ i.hi <= Layout[a]
                 /\ i.lo <= net.source[a] /\ net.source[a] <= i.hi
                 /\ i.lo <= net.sinks[k][a] /\ net.sinks[k][a] <= i.hi
  <2>1. PICK c, s, t : c = Center(net)[a] /\ s = net.source[a] /\ t = net.sinks[k][a]
    OBVIOUS
  <2>2. c \in Int
    BY <2>1, CenterIsNumber
  <2>3. net.sinks[k] \in Tile
    OBVIOUS
  <2>4. s \in 0..(Layout[a] - 1) /\ t \in 0..(Layout[a] - 1) /\ Layout[a] \in Nat
    BY <2>1, <2>3, BoundsOfAxes
  <2> DEFINE ends == {c, s, t}
             low == IF c < 0 THEN c ELSE 0
             high == IF c > Layout[a] THEN c ELSE Layout[a]
  <2>5. ends \subseteq Int /\ ends # {} /\ low \in Int /\ high \in Int
    BY <2>2, <2>4
  <2>6. \A v \in ends : low <= v /\ v <= high
    BY <2>2, <2>4
  <2>7. ConnectionBox(net, k)[a] = Clipped(a, Least(ends), Greatest(ends))
    BY <2>1 DEF ConnectionBox
  <2> HIDE DEF low, high
  <2>8. Least(ends) \in ends /\ \A v \in ends : Least(ends) <= v
    BY <2>5, <2>6, LeastOfSet
  <2>9. Greatest(ends) \in ends /\ \A v \in ends : v <= Greatest(ends)
    BY <2>5, <2>6, GreatestOfSet
  <2>10. PICK l, g : l = Least(ends) /\ g = Greatest(ends)
    OBVIOUS
  <2>11. l \in Int /\ g \in Int /\ l <= s /\ l <= t /\ s <= g /\ t <= g
    BY <2>2, <2>4, <2>8, <2>9, <2>10
  <2>12. ConnectionBox(net, k)[a] = Clipped(a, l, g)
    BY <2>7, <2>10
  <2>13. QED  BY <2>1, <2>4, <2>11, <2>12, ClippedFacts
<1>2. QED  BY <1>1 DEF IsBox, InDevice, Holds

LEMMA WidenedBoxHolds ==
  ASSUME NEW box, IsBox(box), NEW tile \in Tile, Holds(box, tile)
  PROVE  /\ IsBox(WidenedBox(box)) /\ InDevice(WidenedBox(box))
         /\ isAccessible(tile, WidenedBox(box))
<1>1. ASSUME NEW a \in Axes
      PROVE  LET i == WidenedBox(box)[a]
             IN  /\ i \in Interval /\ i.lo >= -1 /\ i.hi <= Layout[a]
                 /\ i.lo < tile[a] /\ tile[a] < i.hi
  <2>1. PICK l, h : l = box[a].lo /\ h = box[a].hi
    OBVIOUS
  <2>2. l \in Int /\ h \in Int /\ l <= tile[a] /\ tile[a] <= h
    BY <2>1 DEF IsBox, Interval, Holds
  <2>3. Layout[a] \in Nat /\ Margin[a] \in Nat \ {0} /\ tile[a] \in 0..(Layout[a] - 1)
    BY BoundsOfAxes
  <2>4. PICK m \in Nat \ {0} : m = Margin[a]
    BY <2>3
  <2>5. WidenedBox(box)[a] = Clipped(a, l - m, h + m)
    BY <2>1, <2>4 DEF WidenedBox
  <2>6. l - m \in Int /\ h + m \in Int
    BY <2>2
  <2>7. QED  BY <2>2, <2>3, <2>5, <2>6, ClippedFacts
<1>2. QED  BY <1>1 DEF IsBox, InDevice, isAccessible

\* The box of a net covers the boxes of its connections.
LEMMA NetBoxCovers ==
  ASSUME NEW net, net.source \in Tile, net.sinks \in Seq(Tile), NEW boxes,
         \A k \in DOMAIN boxes : IsBox(boxes[k]) /\ InDevice(boxes[k])
  PROVE  /\ IsBox(NetBox(net, boxes))
         /\ \A k \in DOMAIN boxes, a \in Axes : Within(boxes[k][a], NetBox(net, boxes)[a])
<1>1. ASSUME NEW a \in Axes
      PROVE  /\ NetBox(net, boxes)[a] \in Interval
             /\ \A k \in DOMAIN boxes : Within(boxes[k][a], NetBox(net, boxes)[a])
  <2>1. PICK c \in Int : c = Center(net)[a]
    BY CenterIsNumber
  <2> DEFINE los == {c} \cup {boxes[k][a].lo : k \in DOMAIN boxes}
             his == {c} \cup {boxes[k][a].hi : k \in DOMAIN boxes}
             low == IF c < -1 THEN c ELSE -1
             high == IF c > Layout[a] THEN c ELSE Layout[a]
  <2>2. Layout[a] \in Nat
    BY BoundsOfAxes
  <2>3. low \in Int /\ high \in Int /\ low <= c /\ low <= -1 /\ c <= high /\ Layout[a] <= high
    BY <2>2
  <2>4. \A k \in DOMAIN boxes : /\ boxes[k][a].lo \in Int /\ boxes[k][a].lo >= -1
                                /\ boxes[k][a].hi \in Int /\ boxes[k][a].hi <= Layout[a]
    BY DEF IsBox, InDevice, Interval
  <2> HIDE DEF low, high
  <2>5. los \subseteq Int /\ his \subseteq Int /\ los # {} /\ his # {}
    BY <2>4
  <2>6. \A v \in los : low <= v
    BY <2>3, <2>4
  <2>7. \A v \in his : v <= high
    BY <2>2, <2>3, <2>4
  <2>8. NetBox(net, boxes)[a] = [lo |-> Least(los), hi |-> Greatest(his)]
    BY <2>1 DEF NetBox
  <2>9. \A k \in DOMAIN boxes : boxes[k][a].lo \in los /\ boxes[k][a].hi \in his
    OBVIOUS
  <2> HIDE DEF los, his
  <2>10. Least(los) \in los /\ \A v \in los : Least(los) <= v
    BY <2>3, <2>5, <2>6, LeastOfSet
  <2>11. Greatest(his) \in his /\ \A v \in his : v <= Greatest(his)
    BY <2>3, <2>5, <2>7, GreatestOfSet
  <2>12. PICK l, h : l = Least(los) /\ h = Greatest(his)
    OBVIOUS
  <2>13. l \in Int /\ h \in Int /\ \A k \in DOMAIN boxes : l <= boxes[k][a].lo /\ boxes[k][a].hi <= h
    BY <2>5, <2>9, <2>10, <2>11, <2>12
  <2>14. NetBox(net, boxes)[a] = [lo |-> l, hi |-> h]
    BY <2>8, <2>12
  <2>15. QED  BY <2>13, <2>14 DEF Within, Interval
<1>2. QED  BY <1>1 DEF IsBox

-----------------------------------------------------------------------------
(* The invariant *)

\* The boxes: a connection's holds its two pins, strictly once it is widened,
\* and is within that of its net.
BoxInv ==
  /\ DOMAIN connBox = Connected
  /\ \A n \in Connected :
       /\ DOMAIN connBox[n] = DOMAIN Net(n).sinks
       /\ IsBox(netBox[n])
       /\ \A k \in DOMAIN connBox[n] :
            /\ IsBox(connBox[n][k]) /\ InDevice(connBox[n][k])
            /\ \A a \in Axes : Within(connBox[n][k][a], netBox[n][a])
            /\ \A pin \in {Net(n).source, Net(n).sinks[k]} :
                 IF pc = "widen" THEN Holds(connBox[n][k], pin)
                                 ELSE isAccessible(pin, connBox[n][k])

\* The steps of each mode, and what has not been filled before a step.
PhaseInv ==
  /\ pc \in IF input.isRuntimeFirst THEN {"widen", "cut", "assign", "place", "done"}
            ELSE {"widen", "label", "cluster", "batch", "done", "aborted"}
  /\ labeled \subseteq Nets
  /\ input.isRuntimeFirst \/ pc \in {"widen", "label"} => labeled = {}
  /\ netIdsForThreads \in [Threads -> SUBSET Nets]
  /\ pc \in {"widen", "label", "cluster", "cut"} => \A t \in Threads : netIdsForThreads[t] = {}
  /\ pc \in {"assign", "place"} \/ (pc = "done" /\ input.isRuntimeFirst) => queue = <<>>
  /\ level \in Nat /\ (pc \in {"widen", "cut"} => level = 0)

Regions == [box : [Axes -> Interval], level : Levels, nets : SUBSET Connected]
Subbox(b, c) == \A a \in Axes : Within(b[a], c[a])
Beside(b, c) == \E a \in Axes : b[a].hi <= c[a].lo \/ c[a].hi <= b[a].lo

RegionTypes ==
  /\ queue \in Seq(Regions) /\ levels \in [Levels -> Seq(Regions)]
  /\ \A l \in Levels : \A j \in DOMAIN levels[l] : levels[l][j].level = l

\* Only the nets of the first region may reach beyond its box.
KeepsNets(r) == r.level # 0 => \A n \in r.nets : isContainsNet(r.box, n)
\* A region lies in one of the level above, which has been cut.
HasParent(r) ==
  r.level # 0 => /\ r.level - 1 \in Levels
                 /\ \E j \in DOMAIN levels[r.level - 1] :
                      Subbox(r.box, levels[r.level - 1][j].box)
ApartFrom(r, s) ==
  /\ r.nets \cap s.nets = {}
  /\ r.level = s.level => r.level # 0 /\ Beside(r.box, s.box)

RegionInv ==
  /\ RegionTypes
  /\ pc = "widen" => queue = <<[box |-> Device, level |-> 0, nets |-> Connected]>>
                     /\ \A l \in Levels : levels[l] = <<>>
  /\ \A n \in Connected : \E p \in Places : n \in Region(p).nets
  /\ \A p \in Places : KeepsNets(Region(p)) /\ HasParent(Region(p))
  /\ \A p, q \in Places : p # q => ApartFrom(Region(p), Region(q))

\* The nets of level l have been given to threads, but for those still to place.
Given(n, l) == n \in NetsOf(l) /\ (l < level \/ (l = level /\ pc = "place" /\ n \notin toPlace))
NoRoom(n, l) ==
  /\ Len(levels[l]) < input.numThread
  /\ \A t \in Threads : Size({n} \cup (netIdsForThreads[t] \cap NetsOf(l))) > upperBoundNetNum(l)

OnOneThread ==
  \A s, t \in Threads : s # t => netIdsForThreads[s] \cap netIdsForThreads[t] = {}

DealtInv ==
  input.isRuntimeFirst =>
    /\ \A t \in Threads : \A n \in netIdsForThreads[t] : \E l \in Levels : Given(n, l)
    /\ \A l \in Levels : \A n \in NetsOf(l) :
         Given(n, l) => (\E t \in Threads : n \in netIdsForThreads[t]) \/ NoRoom(n, l)
    /\ pc = "place" =>
         /\ level \in Levels /\ toPlace \subseteq NetsOf(level) /\ Len(levels[level]) < input.numThread
         /\ DOMAIN partitionFanout = Threads
         /\ \A t \in Threads : partitionFanout[t] = Size(netIdsForThreads[t] \cap NetsOf(level))
    /\ pc = "done" => level \notin Levels

\* The batches of thread t hold its nets, each once, in even shares.
BatchesOf(t) ==
  /\ \A b \in 1..numBatches : netIdBatchesForThreads[b][t] \subseteq netIdsForThreads[t]
  /\ \A n \in netIdsForThreads[t] : \E b \in 1..numBatches :
       /\ n \in netIdBatchesForThreads[b][t]
       /\ \A c \in 1..numBatches : n \in netIdBatchesForThreads[c][t] => c = b
  /\ \A a, b \in 1..numBatches :
       Cardinality(netIdBatchesForThreads[a][t]) <= Cardinality(netIdBatchesForThreads[b][t]) + 1

BatchInv ==
  /\ tid \in Nat \ {0} /\ (pc \in {"widen", "label", "cluster"} => tid = 1)
  /\ pc \in {"batch", "done", "aborted"} /\ ~input.isRuntimeFirst =>
       /\ netIdBatchesForThreads \in Seq([Threads -> SUBSET Nets])
       /\ \A n \in Nets \ labeled : \E t \in Threads : n \in netIdsForThreads[t]
       /\ \A t \in Threads : netIdsForThreads[t] \cap labeled = {}
       /\ \A t \in Threads : t < tid => BatchesOf(t)
       /\ pc = "done" => tid \notin Threads

IInv == InputOk /\ BoxInv /\ PhaseInv /\ RegionInv /\ OnOneThread /\ DealtInv /\ BatchInv

-----------------------------------------------------------------------------
(* The boxes through the steps *)

\* Every step after the boxes have been widened keeps the input and the boxes.
KeepsBoxes == UNCHANGED <<input, connBox, netBox>> /\ pc # "widen" /\ pc' # "widen"

LEMMA StepKinds ==
  ASSUME Next
  PROVE  updateIndirectConnectionBBox \/ KeepsBoxes
BY DEF Next, updateIndirectConnectionBBox, LabelNets, Cluster, CutBatches, EndBatches, CutRegion, EndCuts,
       DealLevel, StartLevel, PlaceNet, EndLevel, EndAssign, KeepsBoxes

LEMMA BoxInit == ASSUME Init PROVE InputOk /\ BoxInv
<1>1. InputOk
  BY DEF Init, InputOk
<1>2. ASSUME NEW n \in Connected
      PROVE  /\ n \in Nets /\ Net(n).source \in Tile /\ Net(n).sinks \in Seq(Tile)
             /\ connBox[n] = [k \in DOMAIN Net(n).sinks |-> ConnectionBox(Net(n), k)]
             /\ netBox[n] = NetBox(Net(n), connBox[n])
  BY <1>1, InputFacts DEF Init, Connected
<1>3. ASSUME NEW n \in Connected, NEW k \in DOMAIN Net(n).sinks
      PROVE  /\ IsBox(connBox[n][k]) /\ InDevice(connBox[n][k])
             /\ Holds(connBox[n][k], Net(n).source) /\ Holds(connBox[n][k], Net(n).sinks[k])
  <2>1. PICK net : net = Net(n)
    OBVIOUS
  <2>2. net.source \in Tile /\ net.sinks \in Seq(Tile) /\ k \in 1..Len(net.sinks)
    <3>1. net.source \in Tile /\ net.sinks \in Seq(Tile) /\ k \in DOMAIN net.sinks
      BY <1>2, <2>1
    <3>2. QED  BY <3>1
  <2>3. connBox[n][k] = ConnectionBox(net, k)
    BY <1>2, <2>1
  <2>4. QED  BY <2>1, <2>2, <2>3, ConnectionBoxHolds
<1>4. ASSUME NEW n \in Connected
      PROVE  IsBox(netBox[n]) /\ \A k \in DOMAIN connBox[n], a \in Axes :
                                    Within(connBox[n][k][a], netBox[n][a])
  <2>1. PICK net : net = Net(n)
    OBVIOUS
  <2>2. PICK boxes : boxes = connBox[n]
    OBVIOUS
  <2>3. net.source \in Tile /\ net.sinks \in Seq(Tile) /\ netBox[n] = NetBox(net, boxes)
    BY <1>2, <2>1, <2>2
  <2>4. \A k \in DOMAIN boxes : IsBox(boxes[k]) /\ InDevice(boxes[k])
    BY <1>2, <1>3, <2>2
  <2>5. QED  BY <2>2, <2>3, <2>4, NetBoxCovers
<1>5. pc = "widen" /\ DOMAIN connBox = Connected
  BY DEF Init
<1>6. \A n \in Connected : DOMAIN connBox[n] = DOMAIN Net(n).sinks
  BY <1>2
<1>7. QED  BY <1>1, <1>3, <1>4, <1>5, <1>6 DEF BoxInv

LEMMA BoxWiden ==
  ASSUME InputOk, BoxInv, updateIndirectConnectionBBox
  PROVE  BoxInv'
<1>1. ASSUME NEW n \in Connected
      PROVE  /\ n \in Nets /\ Net(n).source \in Tile /\ Net(n).sinks \in Seq(Tile)
             /\ DOMAIN connBox[n] = DOMAIN Net(n).sinks
             /\ connBox'[n] = [k \in DOMAIN connBox[n] |-> WidenedBox(connBox[n][k])]
             /\ netBox'[n] = NetBox(Net(n), connBox'[n])
  BY InputFacts DEF BoxInv, updateIndirectConnectionBBox, Connected
<1>2. ASSUME NEW n \in Connected, NEW k \in DOMAIN Net(n).sinks
      PROVE  /\ IsBox(connBox'[n][k]) /\ InDevice(connBox'[n][k])
             /\ isAccessible(Net(n).source, connBox'[n][k])
             /\ isAccessible(Net(n).sinks[k], connBox'[n][k])
  <2>1. PICK box, source, sink : box = connBox[n][k] /\ source = Net(n).source /\ sink = Net(n).sinks[k]
    OBVIOUS
  <2>2. source \in Tile /\ sink \in Tile
    <3>1. PICK sinks \in Seq(Tile) : sinks = Net(n).sinks
      BY <1>1
    <3>2. k \in DOMAIN sinks /\ sink = sinks[k]
      BY <2>1, <3>1
    <3>3. sink \in Tile
      BY <3>2
    <3>4. source \in Tile
      BY <1>1, <2>1
    <3>5. QED  BY <3>3, <3>4
  <2>3. IsBox(box) /\ Holds(box, source) /\ Holds(box, sink)
    BY <1>1, <2>1 DEF BoxInv, updateIndirectConnectionBBox
  <2>4. connBox'[n][k] = WidenedBox(box)
    BY <1>1, <2>1
  <2>5. QED  BY <2>1, <2>2, <2>3, <2>4, WidenedBoxHolds
<1>3. ASSUME NEW n \in Connected
      PROVE  IsBox(netBox'[n]) /\ \A k \in DOMAIN connBox'[n], a \in Axes :
                                     Within(connBox'[n][k][a], netBox'[n][a])
  <2>1. PICK net : net = Net(n)
    OBVIOUS
  <2>2. PICK boxes : boxes = connBox'[n]
    OBVIOUS
  <2>3. net.source \in Tile /\ net.sinks \in Seq(Tile) /\ netBox'[n] = NetBox(net, boxes)
    BY <1>1, <2>1, <2>2
  <2>4. \A k \in DOMAIN boxes : IsBox(boxes[k]) /\ InDevice(boxes[k])
    BY <1>1, <1>2, <2>2
  <2>5. QED  BY <2>2, <2>3, <2>4, NetBoxCovers
<1>4. pc' # "widen" /\ DOMAIN connBox' = Connected /\ input' = input
  BY DEF updateIndirectConnectionBBox
<1>5. \A n \in Connected : DOMAIN connBox'[n] = DOMAIN Net(n).sinks
  BY <1>1
<1>6. Connected' = Connected /\ \A n \in Nets : Net(n)' = Net(n)
  BY <1>4 DEF Connected, Net
<1>7. \A n \in Connected : Net(n)' = Net(n)
  BY <1>4 DEF Net
<1>8. QED  BY <1>2, <1>3, <1>4, <1>5, <1>6, <1>7 DEF BoxInv

LEMMA BoxKeeps ==
  ASSUME BoxInv, KeepsBoxes
  PROVE  BoxInv'
<1>1. input' = input /\ connBox' = connBox /\ netBox' = netBox /\ pc # "widen" /\ pc' # "widen"
  BY DEF KeepsBoxes
<1>2. Connected' = Connected /\ \A n : Net(n)' = Net(n)
  BY <1>1 DEF Connected, Net
<1>3. QED  BY <1>1, <1>2 DEF BoxInv

LEMMA BoxNext ==
  ASSUME InputOk, BoxInv, [Next]_vars
  PROVE  InputOk' /\ BoxInv'
<1>1. CASE UNCHANGED vars
  <2>1. input' = input /\ connBox' = connBox /\ netBox' = netBox /\ pc' = pc
    BY <1>1 DEF vars
  <2>2. Connected' = Connected /\ \A n : Net(n)' = Net(n)
    BY <2>1 DEF Connected, Net
  <2>3. QED  BY <2>1, <2>2 DEF BoxInv, InputOk
<1>2. CASE Next
  <2>1. input' = input
    BY <1>2, StepKinds DEF KeepsBoxes, updateIndirectConnectionBBox
  <2>2. BoxInv'
    BY <1>2, StepKinds, BoxWiden, BoxKeeps
  <2>3. QED  BY <2>1, <2>2 DEF InputOk
<1>3. QED  BY <1>1, <1>2

LEMMA BoxesReach == ASSUME BoxInv PROVE PinsInReach
BY DEF BoxInv, PinsInReach

-----------------------------------------------------------------------------
(* The steps of a mode *)

\* NumLevels is a number, so that there is a first level.
LEMMA LevelsFacts ==
  ASSUME InputOk
  PROVE  NumLevels \in Nat \ {0} /\ 0 \in Levels /\ Levels \subseteq Nat
<1> DEFINE K == {k \in 0..input.numThread : 2^k < input.numThread}
<1>1. input.numThread \in Nat
  BY InputFacts
<1>2. IsFiniteSet(0..input.numThread) /\ K \in SUBSET (0..input.numThread)
  BY <1>1, FS_Interval
<1>3. Cardinality(K) \in Nat
  BY <1>2, FS_Subset, FS_CardinalityType
<1>4. NumLevels = 1 + Cardinality(K)
  BY DEF NumLevels
<1>5. QED  BY <1>3, <1>4 DEF Levels

LEMMA RegionNets ==
  ASSUME RegionTypes, NEW l \in Levels
  PROVE  /\ levels[l] \in Seq(Regions)
         /\ \A j \in DOMAIN levels[l] : levels[l][j] \in Regions
         /\ NetsOf(l) \subseteq Connected /\ NetsOf(l) \subseteq Nets
<1>1. levels[l] \in Seq(Regions)
  BY DEF RegionTypes
<1>2. \A j \in DOMAIN levels[l] : levels[l][j] \in Regions
  BY <1>1
<1>3. \A j \in DOMAIN levels[l] : levels[l][j].nets \subseteq Connected
  BY <1>2 DEF Regions
<1>4. QED  BY <1>1, <1>2, <1>3 DEF NetsOf, Connected

LEMMA PhaseInit == ASSUME Init PROVE PhaseInv
BY DEF Init, PhaseInv

LEMMA PhaseNext ==
  ASSUME InputOk, PhaseInv, RegionTypes, DealtInv, [Next]_vars
  PROVE  PhaseInv'
<1>0. input' = input /\ Threads' = Threads /\ input.isRuntimeFirst \in BOOLEAN
  BY InputFacts, StepKinds DEF KeepsBoxes, updateIndirectConnectionBBox, vars, Threads
<1>1. CASE UNCHANGED vars
  BY <1>0, <1>1 DEF vars, regionVars, PhaseInv
<1>2. CASE updateIndirectConnectionBBox
  BY <1>0, <1>2 DEF updateIndirectConnectionBBox, regionVars, PhaseInv
<1>3. CASE LabelNets
  BY <1>0, <1>3 DEF LabelNets, regionVars, PhaseInv, Connected
<1>4. CASE Cluster
  <2>1. netIdsForThreads' \in [Threads -> SUBSET Nets]
    BY <1>4 DEF Cluster, netIdsToPartition
  <2>2. QED  BY <1>0, <1>4, <2>1 DEF Cluster, regionVars, PhaseInv
<1>5. CASE CutBatches
  <2>1. pc = "batch" /\ pc' \in {"batch", "aborted"} /\ UNCHANGED <<labeled, regionVars, netIdsForThreads>>
    BY <1>5 DEF CutBatches
  <2>2. QED  BY <1>0, <2>1 DEF regionVars, PhaseInv
<1>6. CASE EndBatches
  BY <1>0, <1>6 DEF EndBatches, regionVars, PhaseInv
<1>7. CASE CutRegion
  <2>1. pc = "cut" /\ UNCHANGED <<pc, labeled, level, netIdsForThreads>>
    BY <1>7 DEF CutRegion
  <2>2. QED  BY <1>0, <2>1 DEF PhaseInv
<1>8. CASE EndCuts
  BY <1>0, <1>8 DEF EndCuts, regionVars, PhaseInv
<1>9. CASE DealLevel
  <2>1. netIdsForThreads' \in [Threads -> SUBSET Nets]
    <3>1. \A j \in DOMAIN levels[level] : levels[level][j].nets \subseteq Nets
      BY <1>9, RegionNets DEF DealLevel, Regions, Connected
    <3>2. QED  BY <1>9, <3>1 DEF DealLevel, PhaseInv
  <2>2. QED  BY <1>0, <1>9, <2>1 DEF DealLevel, PhaseInv
<1>10. CASE StartLevel
  BY <1>0, <1>10 DEF StartLevel, PhaseInv
<1>11. CASE PlaceNet
  <2>1. netIdsForThreads' \in [Threads -> SUBSET Nets]
    <3>1. pc = "place" /\ input.isRuntimeFirst
      BY <1>0, <1>11 DEF PlaceNet, PhaseInv
    <3>2. toPlace \subseteq Nets
      BY <3>1, RegionNets DEF DealtInv
    <3>3. netIdsForThreads \in [Threads -> SUBSET Nets]
      BY DEF PhaseInv
    <3>4. netIdsForThreads' = netIdsForThreads \/
            \E n \in Nets : \E t \in Threads : netIdsForThreads' = [netIdsForThreads EXCEPT ![t] = @ \cup {n}]
      BY <1>11, <3>2 DEF PlaceNet, Preferred, HasRoom
    <3>5. QED  BY <3>3, <3>4
  <2>2. QED  BY <1>0, <1>11, <2>1 DEF PlaceNet, PhaseInv
<1>12. CASE EndLevel
  BY <1>0, <1>12 DEF EndLevel, PhaseInv
<1>13. CASE EndAssign
  BY <1>0, <1>13 DEF EndAssign, regionVars, PhaseInv
<1>14. QED  BY <1>1, <1>2, <1>3, <1>4, <1>5, <1>6, <1>7, <1>8, <1>9, <1>10, <1>11, <1>12, <1>13 DEF Next

-----------------------------------------------------------------------------
(* The regions *)

LEMMA PlaceFacts ==
  /\ \A p \in Places : \E l \in Lanes : \E j \in DOMAIN Lane(l) : p = <<l, j>> /\ Region(p) = Lane(l)[j]
  /\ \A l \in Lanes : \A j \in DOMAIN Lane(l) : <<l, j>> \in Places /\ Region(<<l, j>>) = Lane(l)[j]
BY DEF Places, Region

LEMMA RegionInit == ASSUME Init PROVE RegionInv
<1>1. InputOk
  BY BoxInit
<1>2. Device \in [Axes -> Interval]
  BY BoxAssumption DEF Device, Axes, Interval
<1> DEFINE root == [box |-> Device, level |-> 0, nets |-> Connected]
<1>3. root \in Regions
  BY <1>1, <1>2, LevelsFacts DEF Regions
<1>4. queue = <<root>> /\ levels = [l \in Levels |-> <<>>]
  BY DEF Init
<1>5. RegionTypes
  BY <1>3, <1>4 DEF RegionTypes
<1>6. -1 \notin Levels /\ Lane(-1) = <<root>> /\ \A l \in Levels : Lane(l) = <<>>
  BY <1>1, <1>4, LevelsFacts DEF Lane
<1>7. Places = {<<-1, 1>>} /\ Region(<<-1, 1>>) = root
  BY <1>6 DEF Places, Region, Lanes
<1>8. root.level = 0 /\ root.nets = Connected
  OBVIOUS
<1> HIDE DEF root
<1>9. \A p \in Places : KeepsNets(Region(p)) /\ HasParent(Region(p))
  BY <1>7, <1>8 DEF KeepsNets, HasParent
<1>10. \A n \in Connected : \E p \in Places : n \in Region(p).nets
  BY <1>7, <1>8
<1>11. queue = <<[box |-> Device, level |-> 0, nets |-> Connected]>> /\ \A l \in Levels : levels[l] = <<>>
  BY <1>4 DEF root
<1>12. QED  BY <1>5, <1>7, <1>9, <1>10, <1>11 DEF RegionInv

\* Where the regions are after a step that puts the first of the queue, as
\* rest, to its level and its children, kids, to the end of the queue.
Cuts1(rest, kids) ==
  /\ input' = input
  /\ levels' = [levels EXCEPT ![rest.level] = Append(@, rest)]
  /\ queue' = Tail(queue) \o kids

OldPlace(l, j, k) ==
  IF l = -1 THEN <<-1, j + 1>>
  ELSE IF l = k /\ j = Len(levels[k]) + 1 THEN <<-1, 1>> ELSE <<l, j>>

LEMMA CutMoves ==
  ASSUME InputOk, RegionTypes, queue # <<>>, NEW rest \in Regions, NEW kids \in Seq(Regions),
         Cuts1(rest, kids)
  PROVE  /\ RegionTypes' /\ Levels' = Levels /\ Lanes' = Lanes
         /\ \A l \in Levels : \A j \in DOMAIN levels[l] :
              j \in DOMAIN levels'[l] /\ levels'[l][j] = levels[l][j]
         /\ Len(levels[rest.level]) + 1 \in DOMAIN levels'[rest.level]
         /\ levels'[rest.level][Len(levels[rest.level]) + 1] = rest
         /\ \A j \in 2..Len(queue) : j - 1 \in DOMAIN queue' /\ queue'[j - 1] = queue[j]
         /\ \A i \in DOMAIN kids :
              (Len(queue) - 1) + i \in DOMAIN queue' /\ queue'[(Len(queue) - 1) + i] = kids[i]
         /\ \A l \in Lanes : \A j \in DOMAIN Lane(l)' :
              \/ /\ l = -1 /\ j - (Len(queue) - 1) \in DOMAIN kids
                 /\ Lane(l)'[j] = kids[j - (Len(queue) - 1)]
              \/ /\ l = -1 => j < Len(queue)
                 /\ OldPlace(l, j, rest.level) \in Places
                 /\ Lane(l)'[j] = IF OldPlace(l, j, rest.level) = <<-1, 1>> THEN rest
                                  ELSE Region(OldPlace(l, j, rest.level))
<1>1. Levels' = Levels /\ Lanes' = Lanes /\ -1 \notin Levels /\ rest.level \in Levels
  BY LevelsFacts DEF Cuts1, Levels, NumLevels, Lanes, Regions
<1>2. PICK k \in Levels : k = rest.level
  BY <1>1
<1>3. queue \in Seq(Regions) /\ levels \in [Levels -> Seq(Regions)]
  BY DEF RegionTypes
<1>4. levels' = [levels EXCEPT ![k] = Append(levels[k], rest)] /\ queue' = Tail(queue) \o kids
  BY <1>2 DEF Cuts1
<1>5. PICK m \in Nat : m = Len(levels[k])
  BY <1>2, <1>3
<1>6. PICK q \in Nat : q = Len(queue) - 1
  <2>1. Len(queue) \in Nat \ {0}
    BY <1>3
  <2>2. QED  BY <2>1
<1>7. /\ levels'[k] \in Seq(Regions) /\ DOMAIN levels'[k] = 1..(m + 1)
      /\ levels'[k][m + 1] = rest
      /\ \A j \in 1..m : levels'[k][j] = levels[k][j]
  <2>1. levels'[k] = Append(levels[k], rest) /\ levels[k] \in Seq(Regions)
    BY <1>2, <1>3, <1>4
  <2>2. QED  BY <1>5, <2>1
<1>8. \A l \in Levels \ {k} : levels'[l] = levels[l]
  BY <1>3, <1>4
<1>9. /\ queue' \in Seq(Regions) /\ DOMAIN queue' = 1..(q + Len(kids))
      /\ \A j \in 1..q : queue'[j] = queue[j + 1]
      /\ \A j \in (q + 1)..(q + Len(kids)) : queue'[j] = kids[j - q]
  <2>1. Tail(queue) \in Seq(Regions) /\ Len(Tail(queue)) = q /\ \A j \in 1..q : Tail(queue)[j] = queue[j + 1]
    BY <1>3, <1>6
  <2>2. PICK tail \in Seq(Regions) : tail = Tail(queue)
    BY <2>1
  <2>3. Len(tail) = q /\ queue' = tail \o kids
    BY <1>4, <2>1, <2>2
  <2>4. queue' \in Seq(Regions) /\ Len(queue') = q + Len(kids)
    BY <2>3, ConcatProperties
  <2>5. \A j \in 1..q : queue'[j] = tail[j]
    BY <2>3
  <2>6. \A j \in (q + 1)..(q + Len(kids)) : queue'[j] = kids[j - q]
    BY <2>3
  <2>7. QED  BY <2>1, <2>2, <2>4, <2>5, <2>6
<1>10. RegionTypes'
  <2>1. levels' \in [Levels -> Seq(Regions)]
    BY <1>3, <1>4, <1>7
  <2>2. ASSUME NEW l \in Levels, NEW j \in DOMAIN levels'[l] PROVE levels'[l][j].level = l
    <3>1. CASE l = k /\ j = m + 1
      BY <1>2, <1>7, <3>1
    <3>2. CASE l = k /\ j # m + 1
      <4>1. j \in 1..m
        BY <1>7, <3>2
      <4>2. j \in DOMAIN levels[k]
        BY <1>3, <1>5, <4>1
      <4>3. QED  BY <1>7, <3>2, <4>1, <4>2 DEF RegionTypes
    <3>3. CASE l # k
      BY <1>8, <3>3 DEF RegionTypes
    <3>4. QED  BY <3>1, <3>2, <3>3
  <2>3. Regions' = Regions
    BY <1>1 DEF Regions, Connected, Net, Cuts1, Axes, Interval
  <2>4. QED  BY <1>1, <1>9, <2>1, <2>2, <2>3 DEF RegionTypes
<1>11. ASSUME NEW l \in Levels, NEW j \in DOMAIN levels[l]
       PROVE  j \in DOMAIN levels'[l] /\ levels'[l][j] = levels[l][j]
  <2>1. CASE l = k
    <3>1. j \in 1..m
      BY <1>3, <1>5, <2>1
    <3>2. QED  BY <1>7, <2>1, <3>1
  <2>2. CASE l # k
    BY <1>8, <2>2
  <2>3. QED  BY <2>1, <2>2
<1>12. ASSUME NEW l \in Lanes, NEW j \in DOMAIN Lane(l)'
       PROVE  \/ l = -1 /\ j - q \in DOMAIN kids /\ Lane(l)'[j] = kids[j - q]
              \/ /\ l = -1 => j < q + 1
                 /\ OldPlace(l, j, k) \in Places
                 /\ Lane(l)'[j] = IF OldPlace(l, j, k) = <<-1, 1>> THEN rest
                                  ELSE Region(OldPlace(l, j, k))
  <2>1. CASE l = -1
    <3>1. Lane(l)' = queue' /\ Lane(l) = queue
      BY <2>1 DEF Lane
    <3>2. CASE j \in 1..q
      <4>1. j + 1 \in DOMAIN queue /\ j + 1 # 1 /\ Lane(l)'[j] = queue[j + 1]
        BY <1>3, <1>6, <1>9, <3>1, <3>2
      <4>2. OldPlace(l, j, k) = <<-1, j + 1>>
        BY <2>1 DEF OldPlace
      <4>3. <<-1, j + 1>> \in Places /\ Region(<<-1, j + 1>>) = queue[j + 1]
        BY <2>1, <3>1, <4>1, PlaceFacts
      <4>4. <<-1, j + 1>> # <<-1, 1>>
        BY <4>1
      <4>5. QED  BY <3>2, <4>1, <4>2, <4>3, <4>4
    <3>3. CASE j \notin 1..q
      <4>1. j \in (q + 1)..(q + Len(kids))
        BY <1>9, <3>1, <3>3
      <4>2. j - q \in DOMAIN kids
        BY <4>1
      <4>3. QED  BY <1>9, <2>1, <3>1, <4>1, <4>2
    <3>4. QED  BY <3>2, <3>3
  <2>2. CASE l # -1
    <3>1. l \in Levels /\ Lane(l)' = levels'[l] /\ Lane(l) = levels[l]
      BY <2>2 DEF Lane, Lanes
    <3>2. CASE l = k /\ j = m + 1
      <4>1. OldPlace(l, j, k) = <<-1, 1>>
        BY <1>5, <2>2, <3>2 DEF OldPlace
      <4>2. 1 \in DOMAIN queue /\ Lane(-1) = queue /\ -1 \in Lanes
        BY <1>3 DEF Lane, Lanes
      <4>3. <<-1, 1>> \in Places
        BY <4>2, PlaceFacts
      <4>4. QED  BY <1>7, <2>2, <3>1, <3>2, <4>1, <4>3
    <3>3. CASE ~(l = k /\ j = m + 1)
      <4>1. OldPlace(l, j, k) = <<l, j>>
        BY <1>5, <2>2, <3>3 DEF OldPlace
      <4>2. j \in DOMAIN levels[l] /\ levels'[l][j] = levels[l][j]
        <5>1. CASE l = k
          <6>1. j \in 1..m
            BY <1>7, <3>1, <3>3, <5>1
          <6>2. j \in DOMAIN levels[k]
            BY <1>3, <1>5, <6>1
          <6>3. QED  BY <1>7, <5>1, <6>1, <6>2
        <5>2. CASE l # k
          BY <1>8, <3>1, <5>2
        <5>3. QED  BY <5>1, <5>2
      <4>3. <<l, j>> \in Places /\ Region(<<l, j>>) = levels[l][j]
        BY <3>1, <4>2, PlaceFacts
      <4>4. <<l, j>> # <<-1, 1>>
        BY <2>2
      <4>5. QED  BY <2>2, <3>1, <4>1, <4>2, <4>3, <4>4
    <3>4. QED  BY <3>2, <3>3
  <2>3. QED  BY <2>1, <2>2
<1>13. Len(queue) - 1 = q /\ Len(queue) = q + 1
  BY <1>3, <1>6
<1>14. \A j \in 2..Len(queue) : j - 1 \in DOMAIN queue' /\ queue'[j - 1] = queue[j]
  <2>1. ASSUME NEW j \in 2..Len(queue) PROVE j - 1 \in DOMAIN queue' /\ queue'[j - 1] = queue[j]
    <3>1. j - 1 \in 1..q /\ (j - 1) + 1 = j
      BY <1>13
    <3>2. j - 1 \in 1..(q + Len(kids))
      BY <3>1
    <3>3. QED  BY <1>9, <3>1, <3>2
  <2>2. QED  BY <2>1
<1>15. \A i \in DOMAIN kids : q + i \in DOMAIN queue' /\ queue'[q + i] = kids[i]
  <2>1. ASSUME NEW i \in DOMAIN kids PROVE q + i \in DOMAIN queue' /\ queue'[q + i] = kids[i]
    <3>1. q + i \in (q + 1)..(q + Len(kids)) /\ (q + i) - q = i /\ q + i \in 1..(q + Len(kids))
      OBVIOUS
    <3>2. QED  BY <1>9, <3>1
  <2>2. QED  BY <2>1
<1>16. QED  BY <1>1, <1>2, <1>5, <1>7, <1>10, <1>11, <1>12, <1>13, <1>14, <1>15

LEMMA OldPlacesDiffer ==
  ASSUME NEW k, NEW l, NEW j \in Nat, NEW m, NEW i \in Nat, l = -1 => j # 0, m = -1 => i # 0,
         <<l, j>> # <<m, i>>, k # -1
  PROVE  OldPlace(l, j, k) # OldPlace(m, i, k)
BY DEF OldPlace

\* Regions that lie side by side do so in every part of them.
LEMMA PartsBeside ==
  ASSUME NEW b \in [Axes -> Interval], NEW c \in [Axes -> Interval], Beside(b, c),
         NEW d \in [Axes -> Interval], Subbox(d, b), NEW e \in [Axes -> Interval], Subbox(e, c)
  PROVE  Beside(d, e) /\ Beside(e, d)
<1>1. PICK a \in Axes : b[a].hi <= c[a].lo \/ c[a].hi <= b[a].lo
  BY DEF Beside
<1>2. /\ b[a].lo \in Int /\ b[a].hi \in Int /\ c[a].lo \in Int /\ c[a].hi \in Int
      /\ d[a].lo \in Int /\ d[a].hi \in Int /\ e[a].lo \in Int /\ e[a].hi \in Int
  BY DEF Interval
<1>3. b[a].lo <= d[a].lo /\ d[a].hi <= b[a].hi /\ c[a].lo <= e[a].lo /\ e[a].hi <= c[a].hi
  BY DEF Subbox, Within
<1>4. d[a].hi <= e[a].lo \/ e[a].hi <= d[a].lo
  BY <1>1, <1>2, <1>3
<1>5. QED  BY <1>4 DEF Beside

LEMMA RegionCut ==
  ASSUME InputOk, RegionInv, queue # <<>>, pc = "cut", pc' = pc, netBox' = netBox,
         NEW rest \in Regions, NEW kids \in Seq(Regions), NEW first, first = Head(queue),
         rest.box = first.box, rest.level = first.level, rest.nets \subseteq first.nets,
         \A i \in DOMAIN kids :
           /\ kids[i].level = first.level + 1 /\ Subbox(kids[i].box, first.box)
           /\ kids[i].nets \subseteq first.nets \ rest.nets /\ KeepsNets(kids[i]),
         \A i, j \in DOMAIN kids : i # j => ApartFrom(kids[i], kids[j]),
         \A n \in first.nets \ rest.nets : \E i \in DOMAIN kids : n \in kids[i].nets,
         Cuts1(rest, kids)
  PROVE  RegionInv'
<1>1. RegionTypes /\ rest.level \in Levels /\ -1 \notin Levels /\ Levels \subseteq Nat
  BY LevelsFacts DEF RegionInv, Regions
<1>2. PICK k \in Levels : k = rest.level
  BY <1>1
<1>3. queue \in Seq(Regions) /\ levels \in [Levels -> Seq(Regions)]
  BY <1>1 DEF RegionTypes
<1>4. first \in Regions /\ <<-1, 1>> \in Places /\ Region(<<-1, 1>>) = first
  <2>1. 1 \in DOMAIN queue /\ first = queue[1] /\ first \in Regions
    BY <1>3
  <2>2. -1 \in Lanes /\ Lane(-1) = queue
    BY DEF Lane, Lanes
  <2>3. QED  BY <2>1, <2>2, PlaceFacts
<1>5. PICK q \in Nat : q = Len(queue) - 1
  <2>1. Len(queue) \in Nat \ {0}
    BY <1>3
  <2>2. QED  BY <2>1
<1>6. Len(queue) = q + 1
  BY <1>3, <1>5
<1> DEFINE R(l, j) == Lane(l)'[j]
           IsKid(l, j) == l = -1 /\ j - q \in DOMAIN kids /\ R(l, j) = kids[j - q]
           Old(l, j) == OldPlace(l, j, k)
           IsOld(l, j) == /\ l = -1 => j < q + 1
                          /\ Old(l, j) \in Places
                          /\ R(l, j) = IF Old(l, j) = <<-1, 1>> THEN rest ELSE Region(Old(l, j))
<1>7. \A l \in Lanes : \A j \in DOMAIN Lane(l)' : IsKid(l, j) \/ IsOld(l, j)
  BY <1>1, <1>2, <1>5, <1>6, CutMoves
<1>8. /\ RegionTypes' /\ Levels' = Levels /\ Lanes' = Lanes
      /\ \A l \in Levels : \A j \in DOMAIN levels[l] :
           j \in DOMAIN levels'[l] /\ levels'[l][j] = levels[l][j]
  BY <1>1, CutMoves
<1>9. Len(levels[k]) + 1 \in DOMAIN levels'[k] /\ levels'[k][Len(levels[k]) + 1] = rest
  BY <1>1, <1>2, CutMoves
<1>10. Connected' = Connected /\ \A r : KeepsNets(r)' = KeepsNets(r)
  BY DEF Cuts1, Connected, Net, KeepsNets, isContainsNet
<1>11. \A l \in Lanes : Lane(l)' \in Seq(Regions)
  <2>1. queue' \in Seq(Regions)' /\ levels' \in [Levels' -> Seq(Regions)']
    BY <1>8 DEF RegionTypes
  <2>2. Regions' = Regions
    BY <1>8, <1>10 DEF Regions, Axes, Interval
  <2>3. QED  BY <1>8, <2>1, <2>2 DEF Lane, Lanes
<1>12. \A l \in Lanes : \A j \in DOMAIN Lane(l)' : R(l, j) \in Regions /\ j \in Nat \ {0}
  BY <1>11
<1>13. \A p \in Places : KeepsNets(Region(p)) /\ HasParent(Region(p))
  BY DEF RegionInv
<1>14. \A p, r \in Places : p # r => ApartFrom(Region(p), Region(r))
  BY DEF RegionInv
<1>15. \A p \in Places : Region(p) \in Regions
  <2>1. \A l \in Lanes : Lane(l) \in Seq(Regions)
    BY <1>3 DEF Lane, Lanes
  <2>2. \A l \in Lanes : \A j \in DOMAIN Lane(l) : Lane(l)[j] \in Regions
    BY <2>1
  <2>3. QED  BY <2>2, PlaceFacts
<1> HIDE DEF R, IsKid, IsOld, Old
<1>16. ASSUME NEW l \in Lanes, NEW j \in DOMAIN Lane(l)', NEW s, s = R(l, j)
       PROVE  KeepsNets(s)' /\ HasParent(s)'
  <2>1. CASE IsKid(l, j)
    <3>1. s \in Regions
      BY <1>12, <1>16
    <3>2. s.level = k + 1 /\ Subbox(s.box, rest.box) /\ KeepsNets(s)
      BY <1>2, <1>16, <2>1 DEF IsKid
    <3>3. s.level - 1 = k /\ s.level \in Levels
      BY <1>1, <3>1, <3>2 DEF Regions
    <3>4. HasParent(s)'
      BY <1>8, <1>9, <3>2, <3>3 DEF HasParent
    <3>5. QED  BY <1>10, <3>2, <3>4
  <2>2. CASE IsOld(l, j)
    <3>1. PICK p \in Places : p = Old(l, j)
      BY <2>2 DEF IsOld
    <3>2. PICK t : t = Region(p)
      OBVIOUS
    <3>3. s.level = t.level /\ s.box = t.box /\ s.nets \subseteq t.nets
      BY <1>4, <1>16, <2>2, <3>1, <3>2 DEF IsOld
    <3>4. KeepsNets(t) /\ HasParent(t)
      BY <1>13, <3>2
    <3>5. KeepsNets(s)
      BY <3>3, <3>4 DEF KeepsNets
    <3>6. HasParent(s)'
      BY <1>8, <3>3, <3>4 DEF HasParent
    <3>7. QED  BY <1>10, <3>5, <3>6
  <2>3. QED  BY <1>7, <2>1, <2>2
<1>17. ASSUME NEW l \in Lanes, NEW j \in DOMAIN Lane(l)', IsKid(l, j),
              NEW m \in Lanes, NEW i \in DOMAIN Lane(m)', IsOld(m, i)
       PROVE  ApartFrom(R(l, j), R(m, i)) /\ ApartFrom(R(m, i), R(l, j))
  <2>1. PICK kid \in Regions : kid = R(l, j)
    BY <1>12
  <2>2. kid.level = k + 1 /\ Subbox(kid.box, first.box) /\ kid.nets \subseteq first.nets \ rest.nets
    BY <1>2, <1>17, <2>1 DEF IsKid
  <2>3. PICK p \in Places : p = Old(m, i)
    BY <1>17 DEF IsOld
  <2>4. k \in Nat
    BY <1>1
  <2>5. CASE p = <<-1, 1>>
    <3>1. R(m, i) = rest
      BY <1>17, <2>3, <2>5 DEF IsOld
    <3>2. QED  BY <1>2, <2>1, <2>2, <2>4, <3>1 DEF ApartFrom
  <2>6. CASE p # <<-1, 1>>
    <3>1. PICK s \in Regions : s = R(m, i) /\ s = Region(p)
      BY <1>15, <1>17, <2>3, <2>6 DEF IsOld
    <3>2. ApartFrom(s, first)
      BY <1>4, <1>14, <2>6, <3>1
    <3>3. s.nets \cap kid.nets = {}
      BY <2>2, <3>2 DEF ApartFrom
    <3>4. ASSUME s.level = kid.level PROVE s.level # 0 /\ Beside(s.box, kid.box) /\ Beside(kid.box, s.box)
      <4>1. s.level = k + 1 /\ s.level - 1 = k /\ s.level # 0
        BY <2>2, <2>4, <3>4
      <4>2. HasParent(s)
        BY <1>13, <3>1
      <4>3. PICK h \in DOMAIN levels[k] : Subbox(s.box, levels[k][h].box)
        BY <4>1, <4>2 DEF HasParent
      <4>4. PICK parent \in Regions : parent = levels[k][h] /\ parent.level = k
        BY <1>1, <1>3 DEF RegionTypes
      <4>5. <<k, h>> \in Places /\ Region(<<k, h>>) = parent /\ <<k, h>> # <<-1, 1>>
        <5>1. k # -1 /\ k \in Lanes /\ Lane(k) = levels[k]
          BY <1>1 DEF Lane, Lanes
        <5>2. QED  BY <4>4, <5>1, PlaceFacts
      <4>6. ApartFrom(parent, first)
        BY <1>4, <1>14, <4>5
      <4>7. Beside(parent.box, first.box)
        BY <1>2, <4>4, <4>6 DEF ApartFrom
      <4>8. QED
        <5>1. /\ parent.box \in [Axes -> Interval] /\ first.box \in [Axes -> Interval]
              /\ s.box \in [Axes -> Interval] /\ kid.box \in [Axes -> Interval]
          BY <1>4 DEF Regions
        <5>2. Subbox(s.box, parent.box)
          BY <4>3, <4>4
        <5>3. QED  BY <2>2, <4>1, <4>7, <5>1, <5>2, PartsBeside
    <3>5. QED  BY <2>1, <3>1, <3>3, <3>4 DEF ApartFrom
  <2>7. QED  BY <2>5, <2>6
<1>18. ASSUME NEW l \in Lanes, NEW j \in DOMAIN Lane(l)', NEW m \in Lanes, NEW i \in DOMAIN Lane(m)',
              <<l, j>> # <<m, i>>
       PROVE  ApartFrom(R(l, j), R(m, i))
  <2>1. CASE IsKid(l, j) /\ IsKid(m, i)
    <3>1. j - q # i - q
      BY <1>12, <1>18, <2>1 DEF IsKid
    <3>2. QED  BY <2>1, <3>1 DEF IsKid
  <2>2. CASE IsOld(l, j) /\ IsOld(m, i)
    <3>1. Old(l, j) # Old(m, i)
      BY <1>1, <1>12, <1>18, OldPlacesDiffer DEF Old
    <3>2. PICK p \in Places, r \in Places : p = Old(l, j) /\ r = Old(m, i)
      BY <2>2 DEF IsOld
    <3>3. ApartFrom(Region(p), Region(r))
      BY <1>14, <3>1, <3>2
    <3>4. PICK s, t, u, v : s = R(l, j) /\ t = R(m, i) /\ u = Region(p) /\ v = Region(r)
      OBVIOUS
    <3>5. s.level = u.level /\ s.box = u.box /\ s.nets \subseteq u.nets
      BY <1>4, <2>2, <3>2, <3>4 DEF IsOld
    <3>6. t.level = v.level /\ t.box = v.box /\ t.nets \subseteq v.nets
      BY <1>4, <2>2, <3>2, <3>4 DEF IsOld
    <3>7. ApartFrom(s, t)
      BY <3>3, <3>4, <3>5, <3>6 DEF ApartFrom
    <3>8. QED  BY <3>4, <3>7
  <2>3. CASE IsKid(l, j) /\ IsOld(m, i)
    BY <1>17, <2>3
  <2>4. CASE IsOld(l, j) /\ IsKid(m, i)
    BY <1>17, <2>4
  <2>5. QED  BY <1>7, <2>1, <2>2, <2>3, <2>4
<1>19. ASSUME NEW n \in Connected
       PROVE  \E l \in Lanes : \E j \in DOMAIN Lane(l)' : n \in R(l, j).nets
  <2>1. PICK p \in Places : n \in Region(p).nets
    BY DEF RegionInv
  <2>2. PICK l \in Lanes : \E j \in DOMAIN Lane(l) : p = <<l, j>> /\ Region(p) = Lane(l)[j]
    BY PlaceFacts
  <2>3. PICK j \in DOMAIN Lane(l) : p = <<l, j>> /\ Region(p) = Lane(l)[j]
    BY <2>2
  <2>4. -1 \in Lanes /\ k \in Lanes /\ Lane(-1)' = queue' /\ Lane(-1) = queue /\ Lane(k)' = levels'[k]
    BY <1>1 DEF Lane, Lanes
  <2>5. CASE l = -1 /\ j = 1
    <3>1. n \in first.nets
      BY <1>4, <2>1, <2>3, <2>5
    <3>2. CASE n \in rest.nets
      BY <1>9, <2>4, <3>2 DEF R
    <3>3. CASE n \notin rest.nets
      <4>1. PICK i \in DOMAIN kids : n \in kids[i].nets
        BY <3>1, <3>3
      <4>2. (Len(queue) - 1) + i \in DOMAIN queue' /\ queue'[(Len(queue) - 1) + i] = kids[i]
        BY <1>1, CutMoves
      <4>3. QED  BY <2>4, <4>1, <4>2 DEF R
    <3>4. QED  BY <3>2, <3>3
  <2>6. CASE l = -1 /\ j # 1
    <3>1. j \in 2..Len(queue)
      BY <1>3, <2>3, <2>4, <2>6
    <3>2. j - 1 \in DOMAIN queue' /\ queue'[j - 1] = queue[j]
      BY <1>1, <3>1, CutMoves
    <3>3. QED  BY <2>1, <2>3, <2>4, <2>6, <3>2 DEF R
  <2>7. CASE l # -1
    <3>1. l \in Levels /\ Lane(l) = levels[l] /\ Lane(l)' = levels'[l]
      BY <2>7 DEF Lane, Lanes
    <3>2. QED  BY <1>8, <2>1, <2>3, <3>1 DEF R
  <2>8. QED  BY <2>5, <2>6, <2>7
<1>20. /\ \A p \in Places' : \E l \in Lanes : \E j \in DOMAIN Lane(l)' : p = <<l, j>> /\ Region(p)' = R(l, j)
       /\ \A l \in Lanes : \A j \in DOMAIN Lane(l)' : <<l, j>> \in Places' /\ Region(<<l, j>>)' = R(l, j)
  BY <1>8 DEF Places, Region, R
<1>21. \A p \in Places' : (KeepsNets(Region(p)) /\ HasParent(Region(p)))'
  <2>1. ASSUME NEW p \in Places' PROVE (KeepsNets(Region(p)) /\ HasParent(Region(p)))'
    <3>1. PICK l \in Lanes : \E j \in DOMAIN Lane(l)' : p = <<l, j>> /\ Region(p)' = R(l, j)
      BY <1>20
    <3>2. PICK j \in DOMAIN Lane(l)' : p = <<l, j>> /\ Region(p)' = R(l, j)
      BY <3>1
    <3>3. PICK s : s = R(l, j)
      OBVIOUS
    <3>4. KeepsNets(s)' /\ HasParent(s)' /\ Region(p)' = s
      BY <1>16, <3>2, <3>3
    <3>5. QED  BY <3>4 DEF KeepsNets, HasParent
  <2>2. QED  BY <2>1
<1>22. \A p, r \in Places' : p # r => ApartFrom(Region(p)', Region(r)')
  BY <1>18, <1>20
<1>23. \A n \in Connected' : \E p \in Places' : n \in Region(p)'.nets
  BY <1>10, <1>19, <1>20
<1>24. pc' # "widen"
  OBVIOUS
<1>25. QED
  <2>1. \A p, r \in Places' : p # r => ApartFrom(Region(p), Region(r))'
    BY <1>22 DEF ApartFrom, Beside
  <2>2. QED  BY <1>8, <1>21, <1>23, <1>24, <2>1 DEF RegionInv

LEMMA RegionKeeps ==
  ASSUME RegionInv, input' = input, queue' = queue, levels' = levels, netBox' = netBox,
         pc' = "widen" => pc = "widen"
  PROVE  RegionInv'
<1>1. Connected' = Connected /\ Levels' = Levels /\ Lanes' = Lanes /\ Regions' = Regions
  BY DEF Connected, Net, Levels, NumLevels, Lanes, Regions, Axes, Interval
<1>2. \A l : Lane(l)' = Lane(l)
  BY DEF Lane
<1>3. Places' = Places /\ \A p : Region(p)' = Region(p)
  BY <1>1, <1>2 DEF Places, Region
<1>4. \A r : KeepsNets(r)' = KeepsNets(r) /\ HasParent(r)' = HasParent(r)
  BY <1>1 DEF KeepsNets, isContainsNet, HasParent
<1>5. RegionTypes'
  BY <1>1 DEF RegionInv, RegionTypes
<1>6. \A p \in Places : (KeepsNets(Region(p)) /\ HasParent(Region(p)))'
  <2>1. ASSUME NEW p \in Places PROVE (KeepsNets(Region(p)) /\ HasParent(Region(p)))'
    <3>1. PICK s : s = Region(p)
      OBVIOUS
    <3>2. KeepsNets(s)' /\ HasParent(s)' /\ Region(p)' = s
      BY <1>3, <1>4, <3>1 DEF RegionInv
    <3>3. QED  BY <3>2 DEF KeepsNets, HasParent
  <2>2. QED  BY <2>1
<1>7. \A p, q \in Places : p # q => ApartFrom(Region(p), Region(q))'
  BY <1>3 DEF RegionInv, ApartFrom, Beside
<1>8. QED  BY <1>1, <1>3, <1>5, <1>6, <1>7 DEF RegionInv

LEMMA RegionWiden ==
  ASSUME InputOk, RegionInv, updateIndirectConnectionBBox
  PROVE  RegionInv'
<1> DEFINE root == [box |-> Device, level |-> 0, nets |-> Connected]
<1>1. /\ pc = "widen" /\ pc' # "widen" /\ input' = input /\ queue' = queue /\ levels' = levels
  BY DEF updateIndirectConnectionBBox, regionVars
<1>2. queue = <<root>> /\ \A l \in Levels : levels[l] = <<>>
  BY <1>1 DEF RegionInv
<1>3. -1 \notin Levels /\ Lane(-1) = <<root>> /\ \A l \in Levels : Lane(l) = <<>>
  BY <1>2, LevelsFacts DEF Lane
<1>4. Places = {<<-1, 1>>} /\ Region(<<-1, 1>>) = root /\ root.level = 0
  BY <1>3 DEF Places, Region, Lanes
<1>5. Connected' = Connected /\ Levels' = Levels /\ Lanes' = Lanes /\ Regions' = Regions
  BY <1>1 DEF Connected, Net, Levels, NumLevels, Lanes, Regions, Axes, Interval
<1>6. Places' = Places /\ \A p : Region(p)' = Region(p)
  BY <1>1, <1>5 DEF Places, Region, Lane
<1>7. RegionTypes'
  BY <1>1, <1>5 DEF RegionInv, RegionTypes
<1> HIDE DEF root
<1>8. \A p \in Places : (KeepsNets(Region(p)) /\ HasParent(Region(p)))'
  BY <1>4, <1>6 DEF KeepsNets, HasParent
<1>9. \A p, q \in Places : p # q => ApartFrom(Region(p), Region(q))'
  BY <1>4
<1>10. \A n \in Connected' : \E p \in Places' : n \in Region(p)'.nets
  BY <1>5, <1>6 DEF RegionInv
<1>11. QED  BY <1>1, <1>6, <1>7, <1>8, <1>9, <1>10 DEF RegionInv

\* The two halves of a box lie in it, side by side.
LEMMA HalvesOfBox ==
  ASSUME NEW b \in [Axes -> Interval], NEW c, NEW a \in Axes, NEW v \in Int, c = <<a, v>>,
         b[a].lo <= v, v <= b[a].hi
  PROVE  /\ Lower(b, c) \in [Axes -> Interval] /\ Upper(b, c) \in [Axes -> Interval]
         /\ Subbox(Lower(b, c), b) /\ Subbox(Upper(b, c), b)
         /\ Beside(Lower(b, c), Upper(b, c)) /\ Beside(Upper(b, c), Lower(b, c))
<1>1. /\ Lower(b, c) \in [Axes -> Interval]
      /\ \A d \in Axes : Lower(b, c)[d].lo = b[d].lo /\ Lower(b, c)[d].hi = IF d = a THEN v ELSE b[d].hi
  BY DEF Lower, Interval
<1>2. /\ Upper(b, c) \in [Axes -> Interval]
      /\ \A d \in Axes : Upper(b, c)[d].hi = b[d].hi /\ Upper(b, c)[d].lo = IF d = a THEN v ELSE b[d].lo
  BY DEF Upper, Interval
<1>3. \A d \in Axes : b[d].lo \in Int /\ b[d].hi \in Int
  BY DEF Interval
<1>4. Subbox(Lower(b, c), b) /\ Subbox(Upper(b, c), b)
  BY <1>1, <1>2, <1>3 DEF Subbox, Within
<1>5. Lower(b, c)[a].hi = v /\ Upper(b, c)[a].lo = v
  BY <1>1, <1>2
<1>6. QED  BY <1>1, <1>2, <1>4, <1>5 DEF Beside

LEMMA RegionCutRegion ==
  ASSUME InputOk, RegionInv, CutRegion
  PROVE  RegionInv'
<1>1. pc = "cut" /\ queue # <<>> /\ input' = input /\ netBox' = netBox /\ pc' = pc
  BY DEF CutRegion
<1>2. PICK r : r = Head(queue)
  OBVIOUS
<1>3. r \in Regions
  BY <1>1, <1>2 DEF RegionInv, RegionTypes
<1>4. CASE r.level + 1 \in Levels /\ Cuts(r) # {}
  <2>1. PICK c \in BestCuts(r) :
          LET left == {n \in r.nets : isContainsNet(Lower(r.box, c), n)}
              right == {n \in r.nets \ left : isContainsNet(Upper(r.box, c), n)}
          IN  /\ AppendTo(r.level, [r EXCEPT !.nets = @ \ (left \cup right)])
              /\ queue' = Tail(queue) \o
                   <<Child(r, Lower(r.box, c), left), Child(r, Upper(r.box, c), right)>>
    BY <1>2, <1>4 DEF CutRegion
  <2> DEFINE left == {n \in r.nets : isContainsNet(Lower(r.box, c), n)}
             right == {n \in r.nets \ left : isContainsNet(Upper(r.box, c), n)}
  <2>2. PICK L, U : L = left /\ U = right
    OBVIOUS
  <2>3. L \subseteq r.nets /\ U \subseteq r.nets /\ L \cap U = {}
    BY <2>2
  <2>4. PICK a \in Axes : \E v \in r.box[a].lo .. r.box[a].hi - 1 : c = <<a, v>>
    BY <2>1 DEF BestCuts, Cuts
  <2>5. PICK v \in r.box[a].lo .. r.box[a].hi - 1 : c = <<a, v>>
    BY <2>4
  <2>6. r.box \in [Axes -> Interval] /\ r.box[a].lo \in Int /\ r.box[a].hi \in Int
    BY <1>3 DEF Regions, Interval
  <2>7. v \in Int /\ r.box[a].lo <= v /\ v <= r.box[a].hi
    BY <2>5, <2>6
  <2>8. PICK lo, up : lo = Lower(r.box, c) /\ up = Upper(r.box, c)
    OBVIOUS
  <2>9. /\ lo \in [Axes -> Interval] /\ up \in [Axes -> Interval]
        /\ Subbox(lo, r.box) /\ Subbox(up, r.box) /\ Beside(lo, up) /\ Beside(up, lo)
    BY <2>5, <2>6, <2>7, <2>8, HalvesOfBox
  <2> DEFINE rest == [r EXCEPT !.nets = @ \ (L \cup U)]
             kids == <<Child(r, lo, L), Child(r, up, U)>>
  <2>10. /\ rest \in Regions /\ rest.box = r.box /\ rest.level = r.level
         /\ rest.nets = r.nets \ (L \cup U)
    BY <1>3 DEF Regions
  <2>11. /\ Child(r, lo, L) \in Regions /\ Child(r, lo, L).box = lo
         /\ Child(r, lo, L).level = r.level + 1 /\ Child(r, lo, L).nets = L
    BY <1>3, <1>4, <2>3, <2>9 DEF Regions, Child
  <2>12. /\ Child(r, up, U) \in Regions /\ Child(r, up, U).box = up
         /\ Child(r, up, U).level = r.level + 1 /\ Child(r, up, U).nets = U
    BY <1>3, <1>4, <2>3, <2>9 DEF Regions, Child
  <2>13. /\ kids \in Seq(Regions) /\ DOMAIN kids = {1, 2}
         /\ kids[1] = Child(r, lo, L) /\ kids[2] = Child(r, up, U)
    BY <2>11, <2>12
  <2>14. queue' = Tail(queue) \o kids /\ levels' = [levels EXCEPT ![r.level] = Append(@, rest)]
    BY <2>1, <2>2, <2>8 DEF AppendTo
  <2> HIDE DEF rest, kids, left, right
  <2>15. Cuts1(rest, kids)
    BY <1>1, <2>10, <2>14 DEF Cuts1
  <2>16. KeepsNets(kids[1]) /\ KeepsNets(kids[2])
    <3>1. (\A n \in L : isContainsNet(lo, n)) /\ \A n \in U : isContainsNet(up, n)
      BY <2>2, <2>8 DEF left, right
    <3>2. KeepsNets(Child(r, lo, L)) /\ KeepsNets(Child(r, up, U))
      BY <2>11, <2>12, <3>1 DEF KeepsNets
    <3>3. QED  BY <2>13, <3>2
  <2>17. \A i \in DOMAIN kids :
           /\ kids[i].level = r.level + 1 /\ Subbox(kids[i].box, r.box)
           /\ kids[i].nets \subseteq r.nets \ rest.nets /\ KeepsNets(kids[i])
    BY <2>3, <2>9, <2>10, <2>11, <2>12, <2>13, <2>16
  <2>18. r.level + 1 # 0
    BY <1>3, LevelsFacts DEF Regions
  <2>19. \A i, j \in DOMAIN kids : i # j => ApartFrom(kids[i], kids[j])
    BY <2>3, <2>9, <2>11, <2>12, <2>13, <2>18 DEF ApartFrom
  <2>20. \A n \in r.nets \ rest.nets : \E i \in DOMAIN kids : n \in kids[i].nets
    BY <2>10, <2>11, <2>12, <2>13
  <2>21. rest.nets \subseteq r.nets
    BY <2>10
  <2>22. QED  BY <1>1, <1>2, <2>10, <2>13, <2>15, <2>17, <2>19, <2>20, <2>21, RegionCut
<1>5. CASE ~(r.level + 1 \in Levels /\ Cuts(r) # {})
  <2>1. AppendTo(r.level, r) /\ queue' = Tail(queue)
    BY <1>2, <1>5 DEF CutRegion
  <2>2. queue \in Seq(Regions)
    BY DEF RegionInv, RegionTypes
  <2>3. Tail(queue) \in Seq(Regions)
    BY <1>1, <2>2
  <2>4. queue' = Tail(queue) \o <<>>
    BY <2>1, <2>3, ConcatEmptySeq
  <2>5. Cuts1(r, <<>>)
    BY <1>1, <2>1, <2>4 DEF Cuts1, AppendTo
  <2>6. <<>> \in Seq(Regions) /\ DOMAIN <<>> = {}
    OBVIOUS
  <2>7. QED  BY <1>1, <1>2, <1>3, <2>5, <2>6, RegionCut
<1>6. QED  BY <1>4, <1>5

LEMMA RegionNext ==
  ASSUME InputOk, PhaseInv, RegionInv, [Next]_vars
  PROVE  RegionInv'
<1>1. CASE updateIndirectConnectionBBox
  BY <1>1, RegionWiden
<1>2. CASE CutRegion
  BY <1>2, RegionCutRegion
<1>3. CASE ~updateIndirectConnectionBBox /\ ~CutRegion
  <2>1. queue' = queue /\ levels' = levels
    BY <1>3 DEF Next, vars, regionVars, LabelNets, Cluster, CutBatches, EndBatches, EndCuts, DealLevel,
                StartLevel, PlaceNet, EndLevel, EndAssign
  <2>2. input' = input /\ netBox' = netBox /\ (pc' = "widen" => pc = "widen")
    BY <1>3, StepKinds DEF KeepsBoxes, vars
  <2>3. QED  BY <2>1, <2>2, RegionKeeps
<1>4. QED  BY <1>1, <1>2, <1>3

\* The nets of the regions of a level lie in their boxes, and these side by side.
LEMMA RegionsAreApart ==
  ASSUME InputOk, BoxInv, RegionInv
  PROVE  RegionsApart
<1>1. \A p \in Places : Region(p) \in Regions
  <2>1. queue \in Seq(Regions) /\ levels \in [Levels -> Seq(Regions)]
    BY DEF RegionInv, RegionTypes
  <2>2. \A l \in Lanes : \A j \in DOMAIN Lane(l) : Lane(l)[j] \in Regions
    BY <2>1 DEF Lane, Lanes
  <2>3. QED  BY <2>2, PlaceFacts
<1>2. UNION {Region(p).nets : p \in Places} = Connected
  <2>1. \A p \in Places : Region(p).nets \subseteq Connected
    BY <1>1 DEF Regions
  <2>2. \A n \in Connected : \E p \in Places : n \in Region(p).nets
    BY DEF RegionInv
  <2>3. QED  BY <2>1, <2>2
<1>3. ASSUME NEW p \in Places, NEW q \in Places, p # q,
             NEW n \in Region(p).nets, NEW m \in Region(q).nets
      PROVE  /\ n # m
             /\ Region(p).level = Region(q).level =>
                  \E a \in Axes : ~ShareInner(netBox[n][a], netBox[m][a])
  <2>1. PICK r \in Regions, s \in Regions : r = Region(p) /\ s = Region(q)
    BY <1>1
  <2>2. ApartFrom(r, s) /\ KeepsNets(r) /\ KeepsNets(s)
    BY <1>3, <2>1 DEF RegionInv
  <2>3. n # m
    BY <2>1, <2>2 DEF ApartFrom
  <2>4. ASSUME r.level = s.level PROVE \E a \in Axes : ~ShareInner(netBox[n][a], netBox[m][a])
    <3>1. PICK a \in Axes : r.box[a].hi <= s.box[a].lo \/ s.box[a].hi <= r.box[a].lo
      BY <2>2, <2>4 DEF ApartFrom, Beside
    <3>2. Within(netBox[n][a], r.box[a]) /\ Within(netBox[m][a], s.box[a])
      BY <2>1, <2>2, <2>4 DEF ApartFrom, KeepsNets, isContainsNet
    <3>3. n \in Connected /\ m \in Connected
      BY <2>1 DEF Regions
    <3>4. /\ netBox[n][a].lo \in Int /\ netBox[n][a].hi \in Int
          /\ netBox[m][a].lo \in Int /\ netBox[m][a].hi \in Int
      BY <3>3 DEF BoxInv, IsBox, Interval
    <3>5. r.box[a].lo \in Int /\ r.box[a].hi \in Int /\ s.box[a].lo \in Int /\ s.box[a].hi \in Int
      BY DEF Regions, Interval
    <3>6. ~ShareInner(netBox[n][a], netBox[m][a])
      BY <3>1, <3>2, <3>4, <3>5 DEF Within, ShareInner
    <3>7. QED  BY <3>6
  <2>5. QED  BY <2>1, <2>3, <2>4
<1>4. QED  BY <1>2, <1>3 DEF RegionsApart

-----------------------------------------------------------------------------
(* The nets of the threads *)

LEMMA SizeSame ==
  ASSUME input' = input, NEW T
  PROVE  Size(T)' = Size(T)
BY DEF Size, FoldSet, MapThenFoldSet, Net

\* No net is in two regions, or in two levels.
LEMMA LevelsDisjoint ==
  ASSUME InputOk, RegionInv, NEW l \in Levels, NEW m \in Levels
  PROVE  /\ \A i \in DOMAIN levels[l], j \in DOMAIN levels[m] :
              <<l, i>> # <<m, j>> => levels[l][i].nets \cap levels[m][j].nets = {}
         /\ l # m => NetsOf(l) \cap NetsOf(m) = {}
<1>1. /\ l \in Lanes /\ m \in Lanes /\ Lane(l) = levels[l] /\ Lane(m) = levels[m]
  BY LevelsFacts DEF Lane, Lanes
<1>2. ASSUME NEW i \in DOMAIN levels[l], NEW j \in DOMAIN levels[m], <<l, i>> # <<m, j>>
      PROVE  levels[l][i].nets \cap levels[m][j].nets = {}
  <2>1. /\ <<l, i>> \in Places /\ Region(<<l, i>>) = levels[l][i]
        /\ <<m, j>> \in Places /\ Region(<<m, j>>) = levels[m][j]
    BY <1>1, PlaceFacts
  <2>2. ApartFrom(levels[l][i], levels[m][j])
    BY <1>2, <2>1 DEF RegionInv
  <2>3. QED  BY <2>2 DEF ApartFrom
<1>3. QED  BY <1>2 DEF NetsOf

LEMMA DealtStart ==
  ASSUME level' = 0, pc' \notin {"place", "done"}, Levels' \subseteq Nat,
         \A t \in Threads' : netIdsForThreads'[t] = {}
  PROVE  OnOneThread' /\ DealtInv'
<1>1. \A n, l : l \in Nat => ~Given(n, l)'
  BY DEF Given
<1>2. QED  BY <1>1 DEF OnOneThread, DealtInv

LEMMA SameRegions ==
  ASSUME UNCHANGED <<input, levels>>
  PROVE  /\ Threads' = Threads /\ Levels' = Levels
         /\ \A l : NetsOf(l)' = NetsOf(l) /\ upperBoundNetNum(l)' = upperBoundNetNum(l)
         /\ \A T : Size(T)' = Size(T)
<1>1. /\ Threads' = Threads /\ Levels' = Levels /\ \A l : NetsOf(l)' = NetsOf(l)
  BY DEF Threads, Levels, NumLevels, NetsOf
<1>2. \A T : Size(T)' = Size(T)
  BY SizeSame
<1>3. QED  BY <1>1, <1>2 DEF upperBoundNetNum

LEMMA NoRoomKept ==
  ASSUME UNCHANGED <<input, levels>>, NEW n, NEW l, NoRoom(n, l),
         \A t \in Threads : netIdsForThreads'[t] \cap NetsOf(l) = netIdsForThreads[t] \cap NetsOf(l)
  PROVE  NoRoom(n, l)'
BY SameRegions DEF NoRoom

LEMMA DealtSame ==
  ASSUME OnOneThread, DealtInv, UNCHANGED <<input, levels, netIdsForThreads, level, toPlace, partitionFanout>>,
         pc' = pc \/ {pc, pc'} \cap {"place", "done"} = {}
  PROVE  OnOneThread' /\ DealtInv'
<1>1. Threads' = Threads /\ Levels' = Levels /\ \A l : NetsOf(l)' = NetsOf(l)
  BY SameRegions
<1>2. \A n, l : Given(n, l)' = Given(n, l)
  BY <1>1 DEF Given
<1>3. \A n, l : NoRoom(n, l)' = NoRoom(n, l)
  BY SameRegions DEF NoRoom
<1>4. OnOneThread'
  BY <1>1 DEF OnOneThread
<1>5. \A T : Size(T)' = Size(T)
  BY SizeSame
<1>6. QED  BY <1>1, <1>2, <1>3, <1>4, <1>5 DEF DealtInv

LEMMA DealtDealLevel ==
  ASSUME InputOk, PhaseInv, RegionInv, OnOneThread, DealtInv, DealLevel
  PROVE  OnOneThread' /\ DealtInv'
<1> DEFINE Dealt(t) == UNION {levels[level][j].nets : j \in {k \in DOMAIN levels[level] :
                                               (k - 1) % input.numThread = t - 1}}
<1>1. /\ pc = "assign" /\ pc' = "assign" /\ level \in Levels /\ level \in Nat /\ level' = level + 1
      /\ input.isRuntimeFirst /\ UNCHANGED <<input, levels, toPlace, partitionFanout>>
      /\ netIdsForThreads' = [t \in Threads |-> netIdsForThreads[t] \cup Dealt(t)]
  BY InputFacts DEF DealLevel, PhaseInv
<1>2. /\ Threads' = Threads /\ Levels' = Levels /\ \A l : NetsOf(l)' = NetsOf(l)
  BY <1>1, SameRegions
<1>3. /\ input.numThread \in Nat \ {0} /\ Levels \subseteq Nat
      /\ \A j \in DOMAIN levels[level] : j \in Nat \ {0}
  <2>1. levels[level] \in Seq(Regions)
    BY <1>1 DEF RegionInv, RegionTypes
  <2>2. QED  BY <2>1, InputFacts, LevelsFacts
<1>4. \A t \in Threads : netIdsForThreads'[t] = netIdsForThreads[t] \cup Dealt(t)
  BY <1>1
<1>5. \A t \in Threads : \A n \in Dealt(t) : \E j \in DOMAIN levels[level] :
         n \in levels[level][j].nets /\ (j - 1) % input.numThread = t - 1
  OBVIOUS
<1>6. \A t \in Threads : Dealt(t) \subseteq NetsOf(level)
  BY <1>5 DEF NetsOf
<1>7. \A n \in NetsOf(level) : \E t \in Threads : n \in Dealt(t)
  <2>1. ASSUME NEW j \in DOMAIN levels[level]
        PROVE  \E t \in Threads : levels[level][j].nets \subseteq Dealt(t)
    <3>1. (j - 1) % input.numThread \in 0..(input.numThread - 1)
      BY <1>3
    <3>2. PICK t \in Threads : (j - 1) % input.numThread = t - 1
      BY <1>3, <3>1 DEF Threads
    <3>3. QED  BY <3>2
  <2>2. QED  BY <2>1 DEF NetsOf
<1> HIDE DEF Dealt
<1>8. \A t \in Threads : netIdsForThreads[t] \cap NetsOf(level) = {}
  <2>1. \A t \in Threads : \A n \in netIdsForThreads[t] : \E l \in Levels : n \in NetsOf(l) /\ l < level
    BY <1>1 DEF DealtInv, Given
  <2>2. \A l \in Levels : l < level => NetsOf(l) \cap NetsOf(level) = {}
    BY <1>1, <1>3, LevelsDisjoint
  <2>3. QED  BY <2>1, <2>2
<1>9. \A s, t \in Threads : s # t => Dealt(s) \cap Dealt(t) = {}
  <2>1. ASSUME NEW s \in Threads, NEW t \in Threads, NEW n \in Dealt(s) \cap Dealt(t)
        PROVE  s = t
    <3>1. PICK i \in DOMAIN levels[level] : n \in levels[level][i].nets /\ (i - 1) % input.numThread = s - 1
      BY <2>1, <1>5
    <3>2. PICK j \in DOMAIN levels[level] : n \in levels[level][j].nets /\ (j - 1) % input.numThread = t - 1
      BY <2>1, <1>5
    <3>3. i = j
      BY <3>1, <3>2, <1>1, LevelsDisjoint
    <3>4. s \in Int /\ t \in Int /\ s - 1 = t - 1
      BY <3>1, <3>2, <3>3 DEF Threads
    <3>5. QED  BY <3>4
  <2>2. QED  BY <2>1
<1>10. OnOneThread'
  <2>1. ASSUME NEW s \in Threads, NEW t \in Threads, s # t
        PROVE  netIdsForThreads'[s] \cap netIdsForThreads'[t] = {}
    <3>1. netIdsForThreads[s] \cap netIdsForThreads[t] = {}
      BY <2>1 DEF OnOneThread
    <3>2. QED  BY <2>1, <3>1, <1>4, <1>6, <1>8, <1>9
  <2>2. QED  BY <2>1, <1>2 DEF OnOneThread
<1>11. \A n, l : Given(n, l)' <=> n \in NetsOf(l) /\ l < level + 1
  BY <1>1, <1>2 DEF Given
<1>12. ASSUME NEW t \in Threads, NEW n \in netIdsForThreads'[t]
       PROVE  \E l \in Levels : Given(n, l)'
  <2>1. CASE n \in netIdsForThreads[t]
    <3>1. PICK l \in Levels : n \in NetsOf(l) /\ l < level
      BY <1>1, <2>1 DEF DealtInv, Given
    <3>2. l < level + 1
      BY <3>1, <1>1, <1>3
    <3>3. QED  BY <3>1, <3>2, <1>11
  <2>2. CASE n \in Dealt(t)
    <3>1. level < level + 1
      BY <1>1
    <3>2. QED  BY <2>2, <3>1, <1>1, <1>6, <1>11
  <2>3. QED  BY <1>12, <2>1, <2>2, <1>4
<1>13. ASSUME NEW l \in Levels, NEW n \in NetsOf(l), Given(n, l)'
       PROVE  (\E t \in Threads : n \in netIdsForThreads'[t]) \/ NoRoom(n, l)'
  <2>1. CASE l = level
    BY <2>1, <1>13, <1>4, <1>7
  <2>2. CASE l # level
    <3>1. l < level
      BY <2>2, <1>13, <1>11, <1>1, <1>3
    <3>2. Given(n, l)
      BY <3>1, <1>13 DEF Given
    <3>3. (\E t \in Threads : n \in netIdsForThreads[t]) \/ NoRoom(n, l)
      BY <3>2, <1>1, <1>13 DEF DealtInv
    <3>4. NetsOf(l) \cap NetsOf(level) = {}
      BY <2>2, <1>1, LevelsDisjoint
    <3>5. \A t \in Threads : netIdsForThreads'[t] \cap NetsOf(l) = netIdsForThreads[t] \cap NetsOf(l)
      BY <3>4, <1>4, <1>6
    <3>6. NoRoom(n, l) => NoRoom(n, l)'
      BY <3>5, <1>1, NoRoomKept
    <3>7. QED  BY <3>3, <3>6, <1>4
  <2>3. QED  BY <2>1, <2>2
<1>14. QED  BY <1>1, <1>2, <1>10, <1>12, <1>13 DEF DealtInv

LEMMA DealtStartLevel ==
  ASSUME InputOk, PhaseInv, RegionInv, OnOneThread, DealtInv, StartLevel
  PROVE  OnOneThread' /\ DealtInv'
<1>1. /\ pc = "assign" /\ pc' = "place" /\ level \in Levels /\ level' = level
      /\ input.isRuntimeFirst /\ UNCHANGED <<input, levels, netIdsForThreads>>
      /\ toPlace' = NetsOf(level) /\ partitionFanout' = [t \in Threads |-> 0]
      /\ Len(levels[level]) < input.numThread
  BY InputFacts DEF StartLevel, PhaseInv
<1>2. /\ Threads' = Threads /\ Levels' = Levels /\ \A l : NetsOf(l)' = NetsOf(l)
  BY <1>1, SameRegions
<1>3. \A T : Size(T)' = Size(T)
  BY <1>1, SizeSame
<1>4. \A n, l : Given(n, l)' = Given(n, l)
  BY <1>1, <1>2 DEF Given
<1>5. \A n, l : NoRoom(n, l)' = NoRoom(n, l)
  BY <1>1, SameRegions DEF NoRoom
<1>6. OnOneThread'
  BY <1>1, <1>2 DEF OnOneThread
<1>7. ASSUME NEW t \in Threads
      PROVE  partitionFanout'[t] = Size(netIdsForThreads[t] \cap NetsOf(level))'
  <2>1. \A n \in netIdsForThreads[t] : \E l \in Levels : n \in NetsOf(l) /\ l < level
    BY <1>1 DEF DealtInv, Given
  <2>2. \A l \in Levels : l < level => l # level /\ NetsOf(l) \cap NetsOf(level) = {}
    BY <1>1, LevelsDisjoint, LevelsFacts
  <2>3. netIdsForThreads[t] \cap NetsOf(level) = {}
    BY <2>1, <2>2
  <2>4. Size({}) = 0
    BY SizeAdds
  <2>5. partitionFanout'[t] = 0
    BY <1>1
  <2>6. NetsOf(level)' = NetsOf(level)
    BY <1>1 DEF NetsOf
  <2> DEFINE Placed == netIdsForThreads[t] \cap NetsOf(level)
  <2>7. Placed' = {}
    BY <1>1, <2>3, <2>6
  <2> HIDE DEF Placed
  <2>8. Size(Placed)' = Size({})
    BY <1>1, <2>7 DEF Size, FoldSet, MapThenFoldSet, Net
  <2>9. QED  BY <2>4, <2>5, <2>8 DEF Placed
<1>8. toPlace' \subseteq NetsOf(level)'
  BY <1>1 DEF NetsOf
<1>9. QED
  <2>1. DOMAIN partitionFanout' = Threads
    BY <1>1
  <2>2. \A t \in Threads : \A n \in netIdsForThreads'[t] : \E l \in Levels : Given(n, l)'
    BY <1>1, <1>4 DEF DealtInv
  <2>3. \A l \in Levels : \A n \in NetsOf(l) :
           Given(n, l)' => (\E t \in Threads : n \in netIdsForThreads'[t]) \/ NoRoom(n, l)'
    BY <1>1, <1>4, <1>5 DEF DealtInv
  <2>4. level' \in Levels' /\ Len(levels'[level']) < input'.numThread
    BY <1>1, <1>2
  <2>5. QED  BY <1>1, <1>2, <1>6, <1>7, <1>8, <2>1, <2>2, <2>3, <2>4 DEF DealtInv

\* A net that is still to place is on no thread, and is one of this level only.
LEMMA ToPlaceFacts ==
  ASSUME InputOk, PhaseInv, RegionInv, DealtInv, pc = "place", input.isRuntimeFirst, NEW n \in toPlace
  PROVE  /\ level \in Levels /\ level \in Nat /\ n \in NetsOf(level) /\ n \in Nets
         /\ \A t \in Threads : n \notin netIdsForThreads[t] /\ netIdsForThreads[t] \in SUBSET Nets
         /\ \A l \in Levels : n \in NetsOf(l) => l = level
         /\ upperBoundNetNum(level) \in Int
<1>1. level \in Levels /\ toPlace \subseteq NetsOf(level)
  BY DEF DealtInv
<1>2. NetsOf(level) \in SUBSET Nets
  BY <1>1, RegionNets DEF RegionInv
<1>3. \A l \in Levels : n \in NetsOf(l) => l = level
  BY <1>1, LevelsDisjoint
<1>4. \A t \in Threads : n \notin netIdsForThreads[t]
  <2>1. \A t \in Threads : n \in netIdsForThreads[t] => \E l \in Levels : Given(n, l)
    BY DEF DealtInv
  <2>2. ~(level < level)
    BY DEF PhaseInv
  <2>3. \A l \in Levels : ~Given(n, l)
    BY <1>3, <2>2 DEF Given
  <2>4. QED  BY <2>1, <2>3
<1>5. upperBoundNetNum(level) \in Int
  <2>1. Size(NetsOf(level)) \in Int /\ input.numThread \in Nat \ {0}
    BY <1>2, SizeAdds, InputFacts
  <2>2. QED  BY <2>1 DEF upperBoundNetNum
<1>6. QED  BY <1>1, <1>2, <1>3, <1>4, <1>5 DEF PhaseInv

\* The nets that have been given are those of before and the one that was placed.
LEMMA PlaceGives ==
  ASSUME UNCHANGED <<input, levels, level, pc>>, pc = "place",
         NEW n, n \in NetsOf(level), toPlace' = toPlace \ {n}
  PROVE  \A m, l : Given(m, l)' <=> Given(m, l) \/ (m = n /\ l = level)
<1>1. \A l : NetsOf(l)' = NetsOf(l)
  BY SameRegions
<1>2. QED  BY <1>1 DEF Given

LEMMA DealtNoRoom ==
  ASSUME InputOk, PhaseInv, RegionInv, OnOneThread, DealtInv, pc = "place", input.isRuntimeFirst,
         UNCHANGED <<input, levels, level, pc, netIdsForThreads, partitionFanout>>,
         NEW n \in toPlace, HasRoom(n) = {}, toPlace' = toPlace \ {n}
  PROVE  OnOneThread' /\ DealtInv'
<1>1. /\ Threads' = Threads /\ Levels' = Levels /\ \A l : NetsOf(l)' = NetsOf(l)
  BY SameRegions
<1>2. \A m, l : Given(m, l)' <=> Given(m, l) \/ (m = n /\ l = level)
  BY ToPlaceFacts, PlaceGives
<1>3. \A m, l : NoRoom(m, l)' = NoRoom(m, l)
  BY SameRegions DEF NoRoom
<1>4. NoRoom(n, level)
  <2>1. ASSUME NEW t \in Threads
        PROVE  Size({n} \cup (netIdsForThreads[t] \cap NetsOf(level))) > upperBoundNetNum(level)
    <3>1. PICK T \in SUBSET Nets : T = netIdsForThreads[t] \cap NetsOf(level)
      BY ToPlaceFacts
    <3>2. n \in Nets /\ n \notin T /\ upperBoundNetNum(level) \in Int
      BY <3>1, ToPlaceFacts
    <3>3. Size(T \cup {n}) = Size(T) + Size({n}) /\ Size(T) \in Int /\ Size({n}) \in Int
      BY <3>2, SizeAdds
    <3>4. partitionFanout[t] = Size(T)
      BY <3>1 DEF DealtInv
    <3>5. ~(partitionFanout[t] + Size({n}) <= upperBoundNetNum(level))
      BY DEF HasRoom
    <3>6. Size(T \cup {n}) > upperBoundNetNum(level)
      BY <3>2, <3>3, <3>4, <3>5
    <3>7. T \cup {n} = {n} \cup (netIdsForThreads[t] \cap NetsOf(level))
      BY <3>1
    <3>8. QED  BY <3>6, <3>7
  <2>2. QED  BY <2>1 DEF NoRoom, DealtInv
<1>5. ASSUME NEW t \in Threads
      PROVE  partitionFanout'[t] = Size(netIdsForThreads[t] \cap NetsOf(level))'
  <2>1. partitionFanout[t] = Size(netIdsForThreads[t] \cap NetsOf(level))
    BY DEF DealtInv
  <2>2. NetsOf(level)' = NetsOf(level)
    BY DEF NetsOf
  <2> DEFINE Placed == netIdsForThreads[t] \cap NetsOf(level)
  <2>3. Placed' = Placed
    BY <2>2
  <2>4. partitionFanout'[t] = Size(Placed)
    BY <2>1
  <2> HIDE DEF Placed
  <2>5. Size(Placed)' = Size(Placed)
    BY <2>3 DEF Size, FoldSet, MapThenFoldSet, Net
  <2>6. QED  BY <2>4, <2>5 DEF Placed
<1>6. OnOneThread'
  BY <1>1 DEF OnOneThread
<1>7. \A t \in Threads : \A m \in netIdsForThreads'[t] : \E l \in Levels : Given(m, l)'
  BY <1>2 DEF DealtInv
<1>8. \A l \in Levels : \A m \in NetsOf(l) :
         Given(m, l)' => (\E t \in Threads : m \in netIdsForThreads'[t]) \/ NoRoom(m, l)'
  BY <1>2, <1>3, <1>4 DEF DealtInv
<1>9. toPlace' \subseteq NetsOf(level)'
  BY DEF NetsOf, DealtInv
<1>10. level' \in Levels' /\ Len(levels'[level']) < input'.numThread /\ DOMAIN partitionFanout' = Threads
  BY <1>1 DEF DealtInv
<1>11. QED  BY <1>1, <1>5, <1>6, <1>7, <1>8, <1>9, <1>10 DEF DealtInv

LEMMA DealtRoom ==
  ASSUME InputOk, PhaseInv, RegionInv, OnOneThread, DealtInv, pc = "place", input.isRuntimeFirst,
         UNCHANGED <<input, levels, level, pc>>,
         NEW n \in toPlace, NEW t \in Threads, toPlace' = toPlace \ {n},
         netIdsForThreads' = [netIdsForThreads EXCEPT ![t] = @ \cup {n}],
         partitionFanout' = [partitionFanout EXCEPT ![t] = @ + Size({n})]
  PROVE  OnOneThread' /\ DealtInv'
<1>1. /\ Threads' = Threads /\ Levels' = Levels /\ \A l : NetsOf(l)' = NetsOf(l)
  BY SameRegions
<1>2. \A m, l : Given(m, l)' <=> Given(m, l) \/ (m = n /\ l = level)
  BY ToPlaceFacts, PlaceGives
<1>3. /\ netIdsForThreads'[t] = netIdsForThreads[t] \cup {n}
      /\ \A s \in Threads : s # t => netIdsForThreads'[s] = netIdsForThreads[s]
  BY DEF PhaseInv
<1>4. /\ DOMAIN partitionFanout' = Threads /\ partitionFanout'[t] = partitionFanout[t] + Size({n})
      /\ \A s \in Threads : s # t => partitionFanout'[s] = partitionFanout[s]
  BY DEF DealtInv
<1>5. OnOneThread'
  <2>1. \A s \in Threads : n \notin netIdsForThreads[s]
    BY ToPlaceFacts
  <2>2. \A r, s \in Threads : r # s => netIdsForThreads[r] \cap netIdsForThreads[s] = {}
    BY DEF OnOneThread
  <2>3. \A r, s \in Threads : r # s => netIdsForThreads'[r] \cap netIdsForThreads'[s] = {}
    BY <1>3, <2>1, <2>2
  <2>4. QED  BY <1>1, <2>3 DEF OnOneThread
<1>6. ASSUME NEW l \in Levels, NEW m \in NetsOf(l), Given(m, l), NoRoom(m, l)
      PROVE  NoRoom(m, l)'
  <2>1. CASE l # level
    <3>1. n \notin NetsOf(l)
      BY <2>1, ToPlaceFacts
    <3>2. \A s \in Threads : netIdsForThreads'[s] \cap NetsOf(l) = netIdsForThreads[s] \cap NetsOf(l)
      BY <1>3, <3>1
    <3>3. QED  BY <1>6, <3>2, NoRoomKept
  <2>2. CASE l = level
    <3>1. m \notin toPlace /\ m # n
      BY <1>6, <2>2, ToPlaceFacts DEF Given
    <3>2. ASSUME NEW s \in Threads
          PROVE  Size({m} \cup (netIdsForThreads'[s] \cap NetsOf(l))) > upperBoundNetNum(l)
      <4>1. PICK T \in SUBSET Nets : T = {m} \cup (netIdsForThreads[s] \cap NetsOf(l))
        BY RegionNets, ToPlaceFacts DEF RegionInv
      <4>2. n \in Nets /\ n \notin T /\ upperBoundNetNum(l) \in Int
        BY <3>1, <4>1, <2>2, ToPlaceFacts
      <4>3. Size(T \cup {n}) = Size(T) + Size({n}) /\ Size(T) \in Int /\ Size({n}) \in Nat
        BY <4>2, SizeAdds
      <4>4. Size(T) > upperBoundNetNum(l)
        BY <1>6, <4>1 DEF NoRoom
      <4>5. {m} \cup (netIdsForThreads'[s] \cap NetsOf(l)) = IF s = t THEN T \cup {n} ELSE T
        BY <1>3, <4>1, <2>2, ToPlaceFacts
      <4>6. Size(T \cup {n}) > upperBoundNetNum(l)
        BY <4>2, <4>3, <4>4
      <4>7. QED  BY <4>4, <4>5, <4>6
    <3>3. QED  BY <1>6, <3>2, SameRegions DEF NoRoom
  <2>3. QED  BY <2>1, <2>2
<1>7. ASSUME NEW s \in Threads
      PROVE  partitionFanout'[s] = Size(netIdsForThreads[s] \cap NetsOf(level))'
  <2>1. PICK T \in SUBSET Nets : T = netIdsForThreads[s] \cap NetsOf(level)
    BY ToPlaceFacts
  <2>2. partitionFanout[s] = Size(T)
    BY <2>1 DEF DealtInv
  <2>3. n \in Nets /\ n \notin T /\ n \in NetsOf(level)
    BY <2>1, ToPlaceFacts
  <2>4. Size(T \cup {n}) = Size(T) + Size({n})
    BY <2>3, SizeAdds
  <2>5. PICK U : U = IF s = t THEN T \cup {n} ELSE T
    OBVIOUS
  <2>6. partitionFanout'[s] = Size(U)
    BY <1>4, <2>2, <2>4, <2>5
  <2>7. NetsOf(level)' = NetsOf(level)
    BY DEF NetsOf
  <2> DEFINE Placed == netIdsForThreads[s] \cap NetsOf(level)
  <2>8. Placed' = U
    BY <1>3, <2>1, <2>3, <2>5, <2>7
  <2> HIDE DEF Placed
  <2>9. Size(Placed)' = Size(U)
    BY <2>8 DEF Size, FoldSet, MapThenFoldSet, Net
  <2>10. QED  BY <2>6, <2>9 DEF Placed
<1>8. \A s \in Threads : \A m \in netIdsForThreads'[s] : \E l \in Levels : Given(m, l)'
  <2>1. level \in Levels
    BY ToPlaceFacts
  <2>2. \A s \in Threads : \A m \in netIdsForThreads[s] : \E l \in Levels : Given(m, l)
    BY DEF DealtInv
  <2>3. QED  BY <1>2, <1>3, <2>1, <2>2
<1>9. ASSUME NEW l \in Levels, NEW m \in NetsOf(l), Given(m, l)'
      PROVE  (\E s \in Threads : m \in netIdsForThreads'[s]) \/ NoRoom(m, l)'
  <2>1. CASE m = n
    BY <2>1, <1>3
  <2>2. CASE m # n
    <3>1. Given(m, l)
      BY <2>2, <1>2, <1>9
    <3>2. (\E s \in Threads : m \in netIdsForThreads[s]) \/ NoRoom(m, l)
      BY <3>1, <1>9 DEF DealtInv
    <3>3. NoRoom(m, l) => NoRoom(m, l)'
      BY <3>1, <1>6
    <3>4. QED  BY <3>2, <3>3, <1>3
  <2>3. QED  BY <2>1, <2>2
<1>10. toPlace' \subseteq NetsOf(level)'
  BY DEF NetsOf, DealtInv
<1>11. level' \in Levels' /\ Len(levels'[level']) < input'.numThread
  BY <1>1 DEF DealtInv
<1>12. QED  BY <1>1, <1>4, <1>5, <1>7, <1>8, <1>9, <1>10, <1>11 DEF DealtInv

LEMMA DealtEndLevel ==
  ASSUME InputOk, PhaseInv, RegionInv, OnOneThread, DealtInv, EndLevel
  PROVE  OnOneThread' /\ DealtInv'
<1>1. /\ pc = "place" /\ pc' = "assign" /\ toPlace = {} /\ level' = level + 1 /\ level \in Nat
      /\ input.isRuntimeFirst /\ UNCHANGED <<input, levels, netIdsForThreads>> /\ Levels \subseteq Nat
  BY InputFacts, LevelsFacts DEF EndLevel, PhaseInv
<1>2. /\ Threads' = Threads /\ Levels' = Levels /\ \A l : NetsOf(l)' = NetsOf(l)
  BY <1>1, SameRegions
<1>3. \A l \in Levels : l < level + 1 <=> l < level \/ l = level
  BY <1>1
<1>4. \A l \in Levels : \A n : Given(n, l)' <=> Given(n, l)
  BY <1>1, <1>2, <1>3 DEF Given
<1>5. \A n, l : NoRoom(n, l)' = NoRoom(n, l)
  BY <1>1, SameRegions DEF NoRoom
<1>6. OnOneThread'
  BY <1>1, <1>2 DEF OnOneThread
<1>7. QED  BY <1>1, <1>2, <1>4, <1>5, <1>6 DEF DealtInv

LEMMA DealtEndAssign ==
  ASSUME InputOk, PhaseInv, RegionInv, OnOneThread, DealtInv, EndAssign
  PROVE  OnOneThread' /\ DealtInv'
<1>1. /\ pc = "assign" /\ pc' = "done" /\ level \notin Levels /\ level' = level
      /\ input.isRuntimeFirst /\ UNCHANGED <<input, levels, netIdsForThreads>>
  BY InputFacts DEF EndAssign, PhaseInv, regionVars
<1>2. /\ Threads' = Threads /\ Levels' = Levels /\ \A l : NetsOf(l)' = NetsOf(l)
  BY <1>1, SameRegions
<1>3. \A n, l : Given(n, l)' <=> Given(n, l)
  BY <1>1, <1>2 DEF Given
<1>4. \A n, l : NoRoom(n, l)' = NoRoom(n, l)
  BY <1>1, SameRegions DEF NoRoom
<1>5. OnOneThread'
  BY <1>1, <1>2 DEF OnOneThread
<1>6. QED  BY <1>1, <1>2, <1>3, <1>4, <1>5 DEF DealtInv

\* The clusters share no net: every net has one label.
LEMMA DealtBatches ==
  ASSUME InputOk, PhaseInv, OnOneThread, Cluster \/ CutBatches \/ EndBatches
  PROVE  OnOneThread' /\ DealtInv'
<1>1. input' = input /\ Threads' = Threads /\ ~input.isRuntimeFirst
  BY InputFacts DEF Cluster, CutBatches, EndBatches, PhaseInv, Threads
<1>2. CASE Cluster
  <2>1. PICK labels \in [netIdsToPartition -> Threads] :
          netIdsForThreads' = [t \in Threads |-> {n \in netIdsToPartition : labels[n] = t}]
    BY <1>2 DEF Cluster
  <2>2. QED  BY <1>1, <2>1 DEF OnOneThread, DealtInv
<1>3. CASE CutBatches \/ EndBatches
  BY <1>1, <1>3 DEF CutBatches, EndBatches, OnOneThread, DealtInv
<1>4. QED  BY <1>2, <1>3

LEMMA DealtInit == ASSUME Init PROVE OnOneThread /\ DealtInv
<1>1. \A t \in Threads : netIdsForThreads[t] = {}
  BY DEF Init
<1>2. level = 0 /\ pc = "widen" /\ Levels \subseteq Nat
  BY LevelsFacts DEF Init, InputOk
<1>3. \A n : \A l \in Levels : ~Given(n, l)
  BY <1>2 DEF Given
<1>4. QED  BY <1>1, <1>2, <1>3 DEF OnOneThread, DealtInv

LEMMA DealtNext ==
  ASSUME InputOk, PhaseInv, RegionInv, OnOneThread, DealtInv, [Next]_vars
  PROVE  OnOneThread' /\ DealtInv'
<1>1. Levels \subseteq Nat
  BY LevelsFacts
<1>2. CASE UNCHANGED vars
  BY <1>2, DealtSame DEF vars, regionVars
<1>3. CASE updateIndirectConnectionBBox \/ LabelNets \/ CutRegion
  <2>1. /\ input' = input /\ level' = level /\ netIdsForThreads' = netIdsForThreads
        /\ pc \in {"widen", "label", "cut"} /\ pc' \in {"cut", "label", "cluster"}
        /\ (pc = "label" => ~input.isRuntimeFirst)
    BY <1>3 DEF updateIndirectConnectionBBox, LabelNets, CutRegion, regionVars, PhaseInv
  <2>2. Threads' = Threads /\ Levels' = Levels
    BY <2>1 DEF Threads, Levels, NumLevels
  <2>3. \A t \in Threads' : netIdsForThreads'[t] = {}
    BY <2>1, <2>2 DEF PhaseInv
  <2>4. CASE pc = "label"
    BY <2>1, <2>2, <2>3, <2>4 DEF OnOneThread, DealtInv
  <2>5. CASE pc # "label"
    <3>1. level' = 0
      BY <2>1, <2>5 DEF PhaseInv
    <3>2. pc' \notin {"place", "done"}
      BY <2>1
    <3>3. QED  BY <3>1, <3>2, <2>2, <2>3, <1>1, DealtStart
  <2>6. QED  BY <2>4, <2>5
<1>4. CASE Cluster \/ CutBatches \/ EndBatches
  BY <1>4, DealtBatches
<1>5. CASE EndCuts
  BY <1>5, DealtSame DEF EndCuts, regionVars
<1>6. CASE PlaceNet
  <2>1. /\ pc = "place" /\ input.isRuntimeFirst /\ UNCHANGED <<input, levels, level, pc>>
    BY <1>6, InputFacts DEF PlaceNet, PhaseInv
  <2>2. PICK n \in toPlace :
          /\ toPlace' = toPlace \ {n}
          /\ IF HasRoom(n) = {}
             THEN UNCHANGED <<netIdsForThreads, partitionFanout>>
             ELSE \E t \in Preferred(n) :
                    /\ netIdsForThreads' = [netIdsForThreads EXCEPT ![t] = @ \cup {n}]
                    /\ partitionFanout' = [partitionFanout EXCEPT ![t] = @ + Size({n})]
    BY <1>6 DEF PlaceNet
  <2>3. CASE HasRoom(n) = {}
    BY <2>1, <2>2, <2>3, DealtNoRoom
  <2>4. CASE HasRoom(n) # {}
    <3>1. PICK t \in Preferred(n) :
            /\ netIdsForThreads' = [netIdsForThreads EXCEPT ![t] = @ \cup {n}]
            /\ partitionFanout' = [partitionFanout EXCEPT ![t] = @ + Size({n})]
      BY <2>2, <2>4
    <3>2. t \in Threads
      BY DEF Preferred, HasRoom
    <3>3. QED  BY <2>1, <2>2, <3>1, <3>2, DealtRoom
  <2>5. QED  BY <2>3, <2>4
<1>7. QED  BY <1>2, <1>3, <1>4, <1>5, <1>6, DealtDealLevel, DealtStartLevel, DealtEndLevel, DealtEndAssign DEF Next

\* In the end every level has been given out.
LEMMA LeftOutLacksRoom ==
  ASSUME InputOk, PhaseInv, RegionInv, DealtInv
  PROVE  LeftOutOnlyWithoutRoom
<1>1. SUFFICES ASSUME pc = "done", input.isRuntimeFirst,
                      NEW n \in Connected, \A t \in Threads : n \notin netIdsForThreads[t]
               PROVE  \E l \in Levels : n \in NetsOf(l) /\ NoRoom(n, l)
  BY DEF LeftOutOnlyWithoutRoom, NoRoom
<1>2. queue = <<>> /\ level \in Nat /\ level \notin Levels
  BY <1>1 DEF PhaseInv, DealtInv
<1>3. PICK l \in Levels : n \in NetsOf(l)
  <2>1. PICK p \in Places : n \in Region(p).nets
    BY <1>1 DEF RegionInv
  <2>2. PICK l \in Lanes : \E j \in DOMAIN Lane(l) : n \in Lane(l)[j].nets
    BY <2>1, PlaceFacts
  <2>3. l # -1
    BY <1>2, <2>2 DEF Lane
  <2>4. l \in Levels /\ \E j \in DOMAIN levels[l] : n \in levels[l][j].nets
    BY <2>2, <2>3 DEF Lanes, Lane
  <2>5. QED  BY <2>4 DEF NetsOf
<1>4. l < level
  <2>1. NumLevels \in Nat \ {0}
    BY LevelsFacts
  <2>2. QED  BY <1>2, <2>1 DEF Levels
<1>5. Given(n, l)
  BY <1>3, <1>4 DEF Given
<1>6. QED  BY <1>1, <1>3, <1>5 DEF DealtInv

-----------------------------------------------------------------------------
(* Even shares *)

\* The multiples of n that lie in an interval of c numbers are as many, give or take one.
Share(n, c, q) == {j \in 0..(c - 1) : (j * n) \div c = q}

LEMMA Quotient ==
  ASSUME NEW i \in Nat, NEW c \in Nat \ {0}, NEW q \in Nat
  PROVE  i \div c = q <=> q * c <= i /\ i < q * c + c
<1>1. PICK d \in Int : d = i \div c
  OBVIOUS
<1>2. d * c <= i /\ i < d * c + c
  BY <1>1
<1>3. ASSUME q * c <= i, i < q * c + c PROVE d = q
  <2>1. ~(d < q)
    <3>1. SUFFICES ASSUME d <= q - 1 PROVE FALSE
      OBVIOUS
    <3>2. PICK k \in Nat : q = d + 1 + k
      BY <3>1
    <3>3. q * c = d * c + c + k * c /\ k * c >= 0
      BY <3>2
    <3>4. QED  BY <3>3, <1>2, <1>3
  <2>2. ~(q < d)
    <3>1. SUFFICES ASSUME q <= d - 1 PROVE FALSE
      OBVIOUS
    <3>2. PICK k \in Nat : d = q + 1 + k
      BY <3>1
    <3>3. d * c = q * c + c + k * c /\ k * c >= 0
      BY <3>2
    <3>4. QED  BY <3>3, <1>2, <1>3
  <2>3. QED  BY <2>1, <2>2
<1>4. QED  BY <1>1, <1>2, <1>3

\* lo is the first number whose multiple is at least m.
LEMMA FirstMultiple ==
  ASSUME NEW n \in Nat \ {0}, NEW m \in Nat
  PROVE  \E lo \in Nat : lo * n >= m /\ lo * n < m + n /\ \A j \in Nat : j * n >= m <=> j >= lo
<1>1. PICK lo \in Nat : lo = (m + n - 1) \div n
  OBVIOUS
<1>2. lo * n <= m + n - 1 /\ m + n - 1 < lo * n + n
  <2>1. m + n - 1 \in Nat
    OBVIOUS
  <2>2. QED  BY <1>1, <2>1, Quotient
<1>3. lo * n >= m /\ lo * n < m + n
  BY <1>2
<1>4. ASSUME NEW j \in Nat, j >= lo PROVE j * n >= m
  <2>1. PICK k \in Nat : j = lo + k
    BY <1>4
  <2>2. j * n = lo * n + k * n /\ k * n >= 0
    BY <2>1
  <2>3. QED  BY <2>2, <1>3
<1>5. ASSUME NEW j \in Nat, j < lo PROVE j * n < m
  <2>1. PICK k \in Nat : lo = j + 1 + k
    BY <1>5
  <2>2. lo * n = j * n + n + k * n /\ k * n >= 0
    BY <2>1
  <2>3. QED  BY <2>2, <1>3
<1>6. QED  BY <1>3, <1>4, <1>5

\* The share of q is an interval of lo(q) .. lo(q+1) - 1, of about c / n numbers.
LEMMA ShareSize ==
  ASSUME NEW n \in Nat \ {0}, NEW c \in Nat \ {0}, NEW q \in 0..(n - 1)
  PROVE  /\ IsFiniteSet(Share(n, c, q)) /\ Cardinality(Share(n, c, q)) \in Nat
         /\ Cardinality(Share(n, c, q)) * n < c + n /\ c < Cardinality(Share(n, c, q)) * n + n
<1>1. q * c \in Nat /\ q * c + c \in Nat
  OBVIOUS
<1>2. PICK lo \in Nat : /\ lo * n >= q * c /\ lo * n < q * c + n
                        /\ \A j \in Nat : j * n >= q * c <=> j >= lo
  BY <1>1, FirstMultiple
<1>3. PICK hi \in Nat : /\ hi * n >= q * c + c /\ hi * n < q * c + c + n
                        /\ \A j \in Nat : j * n >= q * c + c <=> j >= hi
  BY <1>1, FirstMultiple
<1>4. \A j \in Nat : (j * n) \div c = q <=> j >= lo /\ j < hi
  <2>1. ASSUME NEW j \in Nat PROVE (j * n) \div c = q <=> j >= lo /\ j < hi
    <3>1. PICK i \in Nat : i = j * n
      OBVIOUS
    <3>2. i \div c = q <=> q * c <= i /\ i < q * c + c
      BY Quotient
    <3>3. (i >= q * c <=> j >= lo) /\ (i >= q * c + c <=> j >= hi)
      BY <3>1, <1>2, <1>3
    <3>4. QED  BY <3>1, <3>2, <3>3, <1>1
  <2>2. QED  BY <2>1
<1>5. hi <= c
  <2>1. c * n >= q * c + c
    <3>1. PICK k \in Nat : n = q + 1 + k
      OBVIOUS
    <3>2. c * n = q * c + c + c * k /\ c * k >= 0
      BY <3>1
    <3>3. QED  BY <3>2, <1>1
  <2>2. c \in Nat
    OBVIOUS
  <2>3. QED  BY <2>1, <2>2, <1>3
<1>6. lo <= hi
  <2>1. hi * n >= q * c
    BY <1>3, <1>1
  <2>2. QED  BY <2>1, <1>2
<1>7. Share(n, c, q) = lo..(hi - 1)
  <2>1. \A j : j \in Share(n, c, q) <=> j \in 0..(c - 1) /\ (j * n) \div c = q
    BY DEF Share
  <2>2. \A j \in 0..(c - 1) : j \in Nat
    OBVIOUS
  <2>3. \A j : j \in Share(n, c, q) <=> j \in 0..(c - 1) /\ j >= lo /\ j < hi
    BY <1>4, <2>1, <2>2
  <2>4. \A j : (j \in 0..(c - 1) /\ j >= lo /\ j < hi) <=> j \in lo..(hi - 1)
    BY <1>5
  <2>5. QED  BY <2>3, <2>4
<1>8. IsFiniteSet(Share(n, c, q)) /\ Cardinality(Share(n, c, q)) = hi - lo
  <2>1. PICK last \in Int : last = hi - 1
    OBVIOUS
  <2>2. /\ IsFiniteSet(lo..last)
        /\ Cardinality(lo..last) = IF lo > last THEN 0 ELSE last - lo + 1
    BY FS_Interval
  <2>3. Cardinality(lo..last) = hi - lo
    BY <2>1, <2>2, <1>6
  <2>4. QED  BY <2>1, <2>2, <2>3, <1>7
<1>9. PICK d \in Nat : d = hi - lo
  BY <1>6
<1>10. d * n = hi * n - lo * n
  BY <1>9
<1>11. d * n < c + n /\ c < d * n + n
  BY <1>10, <1>2, <1>3, <1>1
<1>12. QED  BY <1>8, <1>9, <1>11

LEMMA EvenShares ==
  ASSUME NEW n \in Nat \ {0}, NEW c \in Nat, NEW p \in 0..(n - 1), NEW q \in 0..(n - 1)
  PROVE  /\ IsFiniteSet(Share(n, c, p))
         /\ Cardinality(Share(n, c, p)) <= Cardinality(Share(n, c, q)) + 1
<1>1. CASE c = 0
  <2>1. Share(n, c, p) = {} /\ Share(n, c, q) = {}
    BY <1>1 DEF Share
  <2>2. QED  BY <2>1, FS_EmptySet
<1>2. CASE c # 0
  <2>1. PICK d \in Nat, e \in Nat : d = Cardinality(Share(n, c, p)) /\ e = Cardinality(Share(n, c, q))
    BY <1>2, ShareSize
  <2>2. IsFiniteSet(Share(n, c, p)) /\ d * n < c + n /\ c < e * n + n
    BY <1>2, <2>1, ShareSize
  <2>3. ~(d >= e + 2)
    <3>1. SUFFICES ASSUME d >= e + 2 PROVE FALSE
      OBVIOUS
    <3>2. PICK k \in Nat : d = e + 2 + k
      BY <3>1
    <3>3. d * n = e * n + n + n + k * n /\ k * n >= 0 /\ e * n \in Nat
      BY <3>2
    <3>4. QED  BY <3>3, <2>2
  <2>4. QED  BY <2>1, <2>2, <2>3
<1>3. QED  BY <1>1, <1>2

-----------------------------------------------------------------------------
(* The batches *)

\* One thread: cutting an order of its nets in the places of Share.
LEMMA CutIsEven ==
  ASSUME NEW nets, IsFiniteSet(nets), NEW order \in SetToSeqs(nets), NEW n \in Nat \ {0}, NEW cut,
         \A b \in 1..n : cut[b] = {order[i + 1] : i \in Share(n, Cardinality(nets), b - 1)},
         \A i \in 0..(Cardinality(nets) - 1) : ~((i * n) \div Cardinality(nets) >= n)
  PROVE  /\ \A b \in 1..n : cut[b] \subseteq nets
         /\ \A m \in nets : \E b \in 1..n : m \in cut[b] /\ \A d \in 1..n : m \in cut[d] => d = b
         /\ \A a, b \in 1..n : Cardinality(cut[a]) <= Cardinality(cut[b]) + 1
<1>1. PICK c \in Nat : c = Cardinality(nets)
  BY FS_CardinalityType
<1>2. order \in [1..c -> nets] /\ \A i, j \in 1..c : i # j => order[i] # order[j]
  BY <1>1 DEF SetToSeqs
<1>3. \A m \in nets : \E i \in 1..c : order[i] = m
  <2>1. order \in Injection(1..c, nets)
    BY <1>2 DEF Injection, IsInjective
  <2>2. Cardinality(1..c) = c
    BY FS_Interval
  <2>3. order \in Surjection(1..c, nets)
    BY <2>1, <2>2, <1>1, FS_Injection
  <2>4. QED  BY <2>3 DEF Surjection
<1>4. \A i \in 0..(c - 1) : (i * n) \div c \in 0..(n - 1)
  <2>1. ASSUME NEW i \in 0..(c - 1) PROVE (i * n) \div c \in 0..(n - 1)
    <3>1. PICK k \in Nat : k = i * n
      OBVIOUS
    <3>2. c \in Nat \ {0}
      OBVIOUS
    <3>3. k \div c \in Nat
      BY <3>2
    <3>4. ~(k \div c >= n)
      BY <1>1, <3>1
    <3>5. QED  BY <3>1, <3>3, <3>4
  <2>2. QED  BY <2>1
<1>5. \A b \in 1..n : cut[b] = {order[i + 1] : i \in Share(n, c, b - 1)}
  BY <1>1
<1>6. \A q : Share(n, c, q) \subseteq 0..(c - 1)
  BY DEF Share
<1>7. \A b \in 1..n : cut[b] \subseteq nets
  <2>1. \A i \in 0..(c - 1) : order[i + 1] \in nets
    BY <1>2
  <2>2. QED  BY <2>1, <1>5, <1>6
<1>8. ASSUME NEW m \in nets
      PROVE  \E b \in 1..n : m \in cut[b] /\ \A d \in 1..n : m \in cut[d] => d = b
  <2>1. PICK i \in 0..(c - 1) : order[i + 1] = m
    <3>1. PICK k \in 1..c : order[k] = m
      BY <1>3
    <3>2. k - 1 \in 0..(c - 1) /\ (k - 1) + 1 = k
      OBVIOUS
    <3>3. QED  BY <3>1, <3>2
  <2>2. PICK b \in 1..n : (i * n) \div c = b - 1
    <3>1. PICK q \in 0..(n - 1) : (i * n) \div c = q
      BY <1>4
    <3>2. q + 1 \in 1..n /\ q = (q + 1) - 1
      OBVIOUS
    <3>3. QED  BY <3>1, <3>2
  <2>3. m \in cut[b]
    <3>1. i \in Share(n, c, b - 1)
      BY <2>2 DEF Share
    <3>2. QED  BY <3>1, <2>1, <1>5
  <2>4. ASSUME NEW d \in 1..n, m \in cut[d] PROVE d = b
    <3>1. PICK j \in Share(n, c, d - 1) : order[j + 1] = m
      BY <2>4, <1>5
    <3>2. j \in 0..(c - 1) /\ (j * n) \div c = d - 1
      BY DEF Share
    <3>3. i + 1 \in 1..c /\ j + 1 \in 1..c
      BY <3>2
    <3>4. i + 1 = j + 1
      BY <3>1, <3>3, <2>1, <1>2
    <3>5. i = j
      BY <3>2, <3>4
    <3>6. d - 1 = b - 1
      BY <3>2, <3>5, <2>2
    <3>7. QED  BY <3>6
  <2>5. QED  BY <2>3, <2>4
<1>9. ASSUME NEW b \in 1..n
      PROVE  b - 1 \in 0..(n - 1) /\ Cardinality(cut[b]) = Cardinality(Share(n, c, b - 1))
  <2>1. b - 1 \in 0..(n - 1)
    OBVIOUS
  <2>2. PICK S : S = Share(n, c, b - 1)
    OBVIOUS
  <2>3. IsFiniteSet(S) /\ S \subseteq 0..(c - 1)
    BY <2>1, <2>2, <1>6, EvenShares
  <2>4. cut[b] = {order[i + 1] : i \in S}
    BY <2>2, <1>5
  <2> DEFINE f == [i \in S |-> order[i + 1]]
  <2>5. \A i, j \in S : order[i + 1] = order[j + 1] => i = j
    <3>1. ASSUME NEW i \in S, NEW j \in S, order[i + 1] = order[j + 1] PROVE i = j
      <4>1. i \in 0..(c - 1) /\ j \in 0..(c - 1)
        BY <2>3
      <4>2. i + 1 \in 1..c /\ j + 1 \in 1..c
        BY <4>1
      <4>3. i + 1 = j + 1
        BY <4>2, <3>1, <1>2
      <4>4. QED  BY <4>1, <4>3
    <3>2. QED  BY <3>1
  <2>6. f \in Bijection(S, cut[b])
    <3>1. f \in [S -> cut[b]]
      BY <2>4
    <3>2. \A i, j \in S : f[i] = f[j] => i = j
      BY <2>5
    <3>3. \A m \in cut[b] : \E i \in S : f[i] = m
      BY <2>4
    <3>4. QED  BY <3>1, <3>2, <3>3 DEF Bijection, Injection, IsInjective, Surjection
  <2>7. ExistsBijection(S, cut[b])
    BY <2>6 DEF ExistsBijection
  <2>8. Cardinality(cut[b]) = Cardinality(S)
    BY <2>3, <2>7, FS_Bijection
  <2>9. QED  BY <2>1, <2>2, <2>8
<1>10. \A a, b \in 1..n : Cardinality(cut[a]) <= Cardinality(cut[b]) + 1
  BY <1>9, EvenShares
<1>11. QED  BY <1>7, <1>8, <1>10

LEMMA BatchCluster ==
  ASSUME InputOk, PhaseInv, BatchInv, Cluster
  PROVE  BatchInv'
<1>1. /\ pc = "cluster" /\ pc' = "batch" /\ input' = input /\ labeled' = labeled /\ tid' = tid
      /\ ~input.isRuntimeFirst /\ tid = 1
  BY InputFacts DEF Cluster, PhaseInv, BatchInv
<1>2. Threads' = Threads /\ 1 \in Threads /\ \A t \in Threads : ~(t < 1)
  BY <1>1, InputFacts DEF Threads
<1>3. netIdBatchesForThreads' \in Seq([Threads -> SUBSET Nets])
  <2>1. Cardinality(Nets \ labeled) \in Nat
    BY ScheduleAssumption, FS_Difference, FS_CardinalityType
  <2>2. PICK d \in Nat \ {0} : d = NetsPerBatch * input.numThread
    BY ScheduleAssumption, InputFacts
  <2>3. PICK k \in Nat : k = Cardinality(Nets \ labeled) \div (NetsPerBatch * input.numThread)
    BY <2>1, <2>2
  <2>4. netIdBatchesForThreads' = [b \in 1..k |-> [t \in Threads |-> {}]]
    BY <1>1, <2>3 DEF Cluster
  <2>5. PICK none \in [Threads -> SUBSET Nets] : none = [t \in Threads |-> {}]
    OBVIOUS
  <2>6. [b \in 1..k |-> none] \in Seq([Threads -> SUBSET Nets])
    OBVIOUS
  <2>7. QED  BY <2>4, <2>5, <2>6
<1>4. PICK labels \in [netIdsToPartition -> Threads] :
        netIdsForThreads' = [t \in Threads |-> {n \in netIdsToPartition : labels[n] = t}]
  BY DEF Cluster
<1>5. \A n \in Nets \ labeled : \E t \in Threads : n \in netIdsForThreads'[t]
  BY <1>4 DEF netIdsToPartition
<1>6. \A t \in Threads : netIdsForThreads'[t] \cap labeled = {}
  BY <1>4 DEF netIdsToPartition
<1>7. QED  BY <1>1, <1>2, <1>3, <1>5, <1>6 DEF BatchInv

\* The batches are cut anew, each with the share of the thread at hand.
LEMMA BatchCut ==
  ASSUME InputOk, PhaseInv, BatchInv, CutBatches
  PROVE  BatchInv'
<1>1. /\ pc = "batch" /\ tid \in Threads /\ tid \in Nat \ {0} /\ ~input.isRuntimeFirst
      /\ UNCHANGED <<input, labeled, netIdsForThreads>>
      /\ netIdBatchesForThreads \in Seq([Threads -> SUBSET Nets])
      /\ \A m \in Nets \ labeled : \E t \in Threads : m \in netIdsForThreads[t]
      /\ \A t \in Threads : netIdsForThreads[t] \cap labeled = {}
      /\ \A t \in Threads : t < tid => BatchesOf(t)
  BY InputFacts DEF CutBatches, PhaseInv, BatchInv
<1>2. Threads' = Threads
  BY <1>1 DEF Threads
<1>3. CASE pc' = "aborted" /\ UNCHANGED <<netIdBatchesForThreads, tid>>
  <2>1. \A t \in Threads : BatchesOf(t) => BatchesOf(t)'
    BY <1>1, <1>3 DEF BatchesOf, numBatches
  <2>2. QED  BY <1>1, <1>2, <1>3, <2>1 DEF BatchInv
<1>4. CASE ~(pc' = "aborted" /\ UNCHANGED <<netIdBatchesForThreads, tid>>)
  <2>1. PICK s \in Threads, nets \in SUBSET Nets, n \in Nat :
          s = tid /\ nets = netIdsForThreads[s] /\ n = numBatches
    BY <1>1 DEF numBatches, PhaseInv
  <2>2. IsFiniteSet(nets)
    BY ScheduleAssumption, FS_Subset
  <2>3. PICK c \in Nat : c = Cardinality(nets)
    BY <2>2, FS_CardinalityType
  <2>4. /\ \A i \in 0..(c - 1) : ~(BatchId(i, nets) >= n)
        /\ tid' = tid + 1 /\ pc' = pc
    BY <1>4, <2>1, <2>3 DEF CutBatches
  <2>5. PICK order \in SetToSeqs(nets) : netIdBatchesForThreads' =
          [b \in 1..n |-> [netIdBatchesForThreads[b] EXCEPT ![s] =
             {order[i + 1] : i \in {j \in 0..(c - 1) : BatchId(j, nets) = b - 1}}]]
    BY <1>4, <2>1, <2>3 DEF CutBatches
  <2>6. PICK cut : cut = [b \in 1..n |-> {order[i + 1] : i \in Share(n, c, b - 1)}]
    OBVIOUS
  <2>7. \A i : BatchId(i, nets) = (i * n) \div c
    BY <2>1, <2>3 DEF BatchId
  <2>8. \A b \in 1..n : {j \in 0..(c - 1) : BatchId(j, nets) = b - 1} = Share(n, c, b - 1)
    BY <2>7 DEF Share
  <2>9. netIdBatchesForThreads' = [b \in 1..n |-> [netIdBatchesForThreads[b] EXCEPT ![s] = cut[b]]]
    BY <2>5, <2>6, <2>8
  <2>10. /\ \A b \in 1..n : cut[b] \subseteq nets
         /\ \A m \in nets : \E b \in 1..n : m \in cut[b] /\ \A d \in 1..n : m \in cut[d] => d = b
         /\ \A a, b \in 1..n : Cardinality(cut[a]) <= Cardinality(cut[b]) + 1
    <3>1. CASE n = 0
      <4>1. c = 0
        <5>1. SUFFICES ASSUME c \in Nat \ {0} PROVE FALSE
          OBVIOUS
        <5>2. 0 \in 0..(c - 1) /\ (0 * n) \div c = 0
          BY <3>1, <5>1
        <5>3. QED  BY <5>2, <3>1, <2>4, <2>7
      <4>2. nets = {}
        BY <4>1, <2>2, <2>3, FS_EmptySet
      <4>3. QED  BY <3>1, <4>2
    <3>2. CASE n # 0
      <4>1. n \in Nat \ {0}
        BY <3>2
      <4>2. \A i \in 0..(Cardinality(nets) - 1) : ~((i * n) \div Cardinality(nets) >= n)
        BY <2>3, <2>4, <2>7
      <4>3. \A b \in 1..n : cut[b] = {order[i + 1] : i \in Share(n, Cardinality(nets), b - 1)}
        BY <2>3, <2>6
      <4>4. QED  BY <4>1, <4>2, <4>3, <2>2, CutIsEven
    <3>3. QED  BY <3>1, <3>2
  <2>11. /\ netIdBatchesForThreads' \in Seq([Threads -> SUBSET Nets]) /\ numBatches' = n
         /\ \A b \in 1..n : /\ netIdBatchesForThreads'[b][s] = cut[b]
                            /\ \A t \in Threads : t # s =>
                                 netIdBatchesForThreads'[b][t] = netIdBatchesForThreads[b][t]
    <3>1. PICK old \in [1..n -> [Threads -> SUBSET Nets]] : \A b \in 1..n : old[b] = netIdBatchesForThreads[b]
      <4>1. \A b \in 1..n : netIdBatchesForThreads[b] \in [Threads -> SUBSET Nets]
        BY <1>1, <2>1 DEF numBatches
      <4>2. [b \in 1..n |-> netIdBatchesForThreads[b]] \in [1..n -> [Threads -> SUBSET Nets]]
        BY <4>1
      <4>3. QED  BY <4>2
    <3>2. netIdBatchesForThreads' = [b \in 1..n |-> [old[b] EXCEPT ![s] = cut[b]]]
      BY <2>9, <3>1
    <3>3. \A b \in 1..n : [old[b] EXCEPT ![s] = cut[b]] \in [Threads -> SUBSET Nets]
      BY <3>1, <2>10
    <3>4. [b \in 1..n |-> [old[b] EXCEPT ![s] = cut[b]]] \in Seq([Threads -> SUBSET Nets])
      BY <3>3
    <3>5. Len(netIdBatchesForThreads') = n
      BY <3>2
    <3>6. \A b \in 1..n : /\ netIdBatchesForThreads'[b][s] = cut[b]
                          /\ \A t \in Threads : t # s => netIdBatchesForThreads'[b][t] = old[b][t]
      BY <3>2
    <3>7. QED  BY <3>1, <3>2, <3>4, <3>5, <3>6 DEF numBatches
  <2>12. BatchesOf(s)'
    <3>1. netIdsForThreads'[s] = nets
      BY <1>1, <2>1
    <3>2. PICK new : new = netIdBatchesForThreads'
      OBVIOUS
    <3>3. numBatches' = n /\ \A b \in 1..n : new[b][s] = cut[b]
      BY <3>2, <2>11
    <3>4. \A b \in 1..n : new[b][s] \subseteq nets
      BY <3>3, <2>10
    <3>5. \A m \in nets : \E b \in 1..n : m \in new[b][s] /\ \A d \in 1..n : m \in new[d][s] => d = b
      BY <3>3, <2>10
    <3>6. \A a, b \in 1..n : Cardinality(new[a][s]) <= Cardinality(new[b][s]) + 1
      BY <3>3, <2>10
    <3>7. QED  BY <3>1, <3>2, <3>3, <3>4, <3>5, <3>6 DEF BatchesOf
  <2>13. ASSUME NEW t \in Threads, t < tid + 1 PROVE BatchesOf(t)'
    <3>1. CASE t = s
      BY <3>1, <2>12
    <3>2. CASE t # s
      <4>1. t < tid
        BY <2>1, <2>13, <3>2, <1>1 DEF Threads
      <4>2. BatchesOf(t)
        BY <4>1, <1>1
      <4>3. \A b \in 1..n : netIdBatchesForThreads'[b][t] = netIdBatchesForThreads[b][t]
        BY <2>11, <3>2
      <4>4. numBatches' = n /\ numBatches = n /\ netIdsForThreads' = netIdsForThreads
        BY <1>1, <2>1, <2>11
      <4>5. QED  BY <4>2, <4>3, <4>4 DEF BatchesOf
    <3>3. QED  BY <3>1, <3>2
  <2>14. tid' \in Nat \ {0}
    BY <1>1, <2>4
  <2>15. QED  BY <1>1, <1>2, <2>4, <2>11, <2>13, <2>14 DEF BatchInv
<1>5. QED  BY <1>3, <1>4

LEMMA BatchInit == ASSUME Init PROVE BatchInv
BY DEF Init, BatchInv

LEMMA BatchKeeps ==
  ASSUME BatchInv, UNCHANGED <<input, labeled, netIdsForThreads, netIdBatchesForThreads, tid>>,
         pc' = pc \/ (pc = "batch" /\ pc' = "done" /\ tid \notin Threads)
  PROVE  BatchInv'
<1>1. Threads' = Threads /\ \A t : BatchesOf(t) => BatchesOf(t)'
  BY DEF Threads, BatchesOf, numBatches
<1>2. QED  BY <1>1 DEF BatchInv

LEMMA BatchNext ==
  ASSUME InputOk, PhaseInv, BatchInv, [Next]_vars
  PROVE  BatchInv'
<1>0. input' = input /\ input.isRuntimeFirst \in BOOLEAN
  BY InputFacts, StepKinds DEF KeepsBoxes, updateIndirectConnectionBBox, vars
<1>1. CASE UNCHANGED vars
  BY <1>1, BatchKeeps DEF vars
<1>2. CASE updateIndirectConnectionBBox \/ LabelNets
  <2>1. pc \in {"widen", "label"} /\ pc' \in {"cut", "label", "cluster"} /\ tid' = tid
    BY <1>2 DEF updateIndirectConnectionBBox, LabelNets
  <2>2. QED  BY <2>1 DEF BatchInv
<1>3. CASE EndBatches
  BY <1>3, BatchKeeps DEF EndBatches
<1>4. CASE CutRegion \/ EndCuts \/ DealLevel \/ StartLevel \/ PlaceNet \/ EndLevel \/ EndAssign
  <2>1. pc \in {"cut", "assign", "place"} /\ pc' \in {"cut", "assign", "place", "done"} /\ tid' = tid
    BY <1>4 DEF CutRegion, EndCuts, DealLevel, StartLevel, PlaceNet, EndLevel, EndAssign
  <2>2. input.isRuntimeFirst
    BY <1>0, <2>1 DEF PhaseInv
  <2>3. QED  BY <1>0, <2>1, <2>2 DEF BatchInv
<1>5. QED  BY <1>1, <1>2, <1>3, <1>4, BatchCluster, BatchCut DEF Next

\* In the end every net is in one batch of its one thread.
LEMMA AllBatchesCut ==
  ASSUME InputOk, PhaseInv, OnOneThread, BatchInv
  PROVE  BatchesComplete
<1>1. SUFFICES ASSUME pc = "done", ~input.isRuntimeFirst
               PROVE  /\ \A n \in Nets \ labeled :
                           Cardinality({p \in (1..numBatches) \X Threads :
                                          n \in netIdBatchesForThreads[p[1]][p[2]]}) = 1
                      /\ \A a, b \in 1..numBatches : \A t \in Threads :
                           Cardinality(netIdBatchesForThreads[a][t])
                             <= Cardinality(netIdBatchesForThreads[b][t]) + 1
  BY DEF BatchesComplete
<1>2. \A t \in Threads : BatchesOf(t)
  <2>1. tid \notin Threads /\ tid \in Nat \ {0} /\ input.numThread \in Nat
    BY <1>1, InputFacts DEF BatchInv
  <2>2. \A t \in Threads : t < tid
    BY <2>1 DEF Threads
  <2>3. QED  BY <1>1, <2>2 DEF BatchInv
<1>3. ASSUME NEW n \in Nets \ labeled
      PROVE  Cardinality({p \in (1..numBatches) \X Threads :
                            n \in netIdBatchesForThreads[p[1]][p[2]]}) = 1
  <2>1. PICK t \in Threads : n \in netIdsForThreads[t]
    BY <1>1, <1>3 DEF BatchInv
  <2>2. PICK b \in 1..numBatches :
          /\ n \in netIdBatchesForThreads[b][t]
          /\ \A c \in 1..numBatches : n \in netIdBatchesForThreads[c][t] => c = b
    BY <2>1, <1>2 DEF BatchesOf
  <2>3. ASSUME NEW c \in 1..numBatches, NEW s \in Threads, n \in netIdBatchesForThreads[c][s]
        PROVE  c = b /\ s = t
    <3>1. n \in netIdsForThreads[s]
      BY <1>2, <2>3 DEF BatchesOf
    <3>2. s = t
      BY <3>1, <2>1 DEF OnOneThread
    <3>3. QED  BY <3>2, <2>2, <2>3
  <2>4. {p \in (1..numBatches) \X Threads : n \in netIdBatchesForThreads[p[1]][p[2]]} = {<<b, t>>}
    BY <2>1, <2>2, <2>3
  <2>5. QED  BY <2>4, FS_Singleton
<1>4. QED  BY <1>2, <1>3 DEF BatchesOf

\* Nothing is labeled while the clusters are still empty.
LEMMA LabeledApart ==
  ASSUME InputOk, PhaseInv, OnOneThread, BatchInv
  PROVE  OneThreadPerNet
<1>1. \A t \in Threads : netIdsForThreads[t] \cap labeled = {}
  <2>1. CASE input.isRuntimeFirst \/ pc \in {"widen", "label"}
    BY <2>1 DEF PhaseInv
  <2>2. CASE pc = "cluster"
    BY <2>2 DEF PhaseInv
  <2>3. CASE ~input.isRuntimeFirst /\ pc \in {"batch", "done", "aborted"}
    BY <2>3 DEF BatchInv
  <2>4. QED  BY <2>1, <2>2, <2>3 DEF PhaseInv
<1>2. QED  BY <1>1 DEF OneThreadPerNet, OnOneThread

-----------------------------------------------------------------------------
(* The theorems *)

\* The invariant that the five properties follow from, for the steps of partition()
\* in both modes (aStarRoute.cpp:382-412, stableFirstRouting.cpp:139-200 and
\* 491-544, runtimeFirstRouting.cpp:52-378).
THEOREM ScheduleInvariant == Spec => []IInv
<1>1. Init => IInv
  BY BoxInit, PhaseInit, RegionInit, DealtInit, BatchInit DEF IInv
<1>2. IInv /\ [Next]_vars => IInv'
  <2>1. SUFFICES ASSUME IInv, [Next]_vars PROVE IInv'
    OBVIOUS
  <2>2. InputOk /\ BoxInv /\ PhaseInv /\ RegionInv /\ OnOneThread /\ DealtInv /\ BatchInv /\ RegionTypes
    BY <2>1 DEF IInv, RegionInv
  <2>3. InputOk' /\ BoxInv'
    BY <2>1, <2>2, BoxNext
  <2>4. PhaseInv'
    BY <2>1, <2>2, PhaseNext
  <2>5. RegionInv'
    BY <2>1, <2>2, RegionNext
  <2>6. OnOneThread' /\ DealtInv'
    BY <2>1, <2>2, DealtNext
  <2>7. BatchInv'
    BY <2>1, <2>2, BatchNext
  <2>8. QED  BY <2>3, <2>4, <2>5, <2>6, <2>7 DEF IInv
<1>3. QED  BY <1>1, <1>2, PTL DEF Spec

\* On any device a search may enter the tiles of both of its pins, and its net's
\* box covers all that it may enter (aStarRoute.cpp:382-412, 650-655,
\* netlist.cpp:455-479).
THEOREM PinsAreInReach == Spec => []PinsInReach
<1>1. IInv => PinsInReach
  BY BoxesReach DEF IInv
<1>2. QED  BY <1>1, ScheduleInvariant, PTL

\* In neither mode do two threads get one net, nor does one get a labeled net
\* (connection.h:59-76, runtimeFirstRouting.cpp:43-49,
\* stableFirstRouting.cpp:24-26).
THEOREM NetsOnOneThread == Spec => []OneThreadPerNet
<1>1. IInv => OneThreadPerNet
  BY LabeledApart DEF IInv
<1>2. QED  BY <1>1, ScheduleInvariant, PTL

\* The cuts lose no net, and nets of two regions of one level share no inner
\* tile (runtimeFirstRouting.cpp:150-199).
THEOREM RegionsStayApart == Spec => []RegionsApart
<1>1. IInv => RegionsApart
  BY RegionsAreApart DEF IInv
<1>2. QED  BY <1>1, ScheduleInvariant, PTL

\* A net without a thread is of a level with too few regions and fitted on no
\* thread (runtimeFirstRouting.cpp:369-375).
THEOREM LeftOutForLackOfRoom == Spec => []LeftOutOnlyWithoutRoom
<1>1. IInv => LeftOutOnlyWithoutRoom
  BY LeftOutLacksRoom DEF IInv
<1>2. QED  BY <1>1, ScheduleInvariant, PTL

\* A partition that ends has put every net that is not labeled in one batch of
\* one thread, in even shares (stableFirstRouting.cpp:155-199).
THEOREM BatchesAreComplete == Spec => []BatchesComplete
<1>1. IInv => BatchesComplete
  BY AllBatchesCut DEF IInv
<1>2. QED  BY <1>1, ScheduleInvariant, PTL

=============================================================================
