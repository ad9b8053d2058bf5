----------------------- MODULE ContextAssemblerProofs -----------------------
(***************************************************************************)
(* Proofs about ContextAssembler, for any budget, limits and contents of   *)
(* the stores.  Two facts carry them.  The account of what is left out     *)
(* only grows with it, so that what had no room never gets any             *)
(* (NoRoomStays); and the accepted records are in the order of the queue,  *)
(* so that those that begin with all above a record are just those above   *)
(* it (AllHeld).  Sums over finite sets come first: the fold that defines  *)
(* them takes its elements in an order of its own, and the proofs in the   *)
(* order in which records are left out.  That a source which holds more    *)
(* than ReadLimit records gives just ReadLimit is SourceRead: no two of its*)
(* records have the same place in the order of reading.                    *)
(***************************************************************************)
EXTENDS ContextAssembler, FiniteSetTheorems, SequenceTheorems, WellFoundedInduction, TLAPS

(* Induction over the natural numbers, of a set of them.                   *)
LEMMA EveryNatural ==
  ASSUME NEW S \in SUBSET Nat, 0 \in S, \A n \in S : n + 1 \in S
  PROVE  S = Nat
<1>1. IsWellFoundedOn(OpToRel(<, Nat), Nat)
  BY NatLessThanWellFounded
<1>2. CASE Nat \ S # {}
  <2>1. PICK m \in Nat \ S : \A j \in Nat \ S : <<j, m>> \notin OpToRel(<, Nat)
    BY <1>1, <1>2, WFMin
  <2>2. \A j \in Nat \ S : ~(j < m)
    BY <2>1 DEF OpToRel
  <2>3. m # 0 /\ m - 1 \in Nat /\ m - 1 < m
    <3>1. m \in Nat /\ m \notin S
      OBVIOUS
    <3>2. m # 0
      BY <3>1
    <3>3. QED
      BY <3>1, <3>2
  <2>4. m - 1 \in S /\ (m - 1) + 1 = m
    BY <2>2, <2>3
  <2>5. QED
    BY <2>1, <2>4
<1>3. QED
  BY <1>2

-----------------------------------------------------------------------------
(* Sums over finite sets.                                                  *)

(* The recursion by which the fold adds up f over S, in the order of       *)
(* CHOOSE, ...                                                             *)
Iterates(h, f, S) ==
  h = [s \in SUBSET S |->
         IF s = {} THEN 0 ELSE f[CHOOSE x \in s : TRUE] + h[s \ {CHOOSE x \in s : TRUE}]]

LEMMA SumIsIterated ==
  ASSUME NEW f, NEW S
  PROVE  SumFunctionOnSet(f, S) = (CHOOSE h : Iterates(h, f, S))[S]
BY DEF SumFunctionOnSet, FoldFunctionOnSet, MapThenFoldSet, Iterates

(* ... and what it comes to, in whatever order.                            *)
Adds(h, f, S) ==
  /\ h \in [SUBSET S -> Int]
  /\ h[{}] = 0
  /\ \A s \in SUBSET S : \A y \in s : h[s] = f[y] + h[s \ {y}]

LEMMA AddsExists ==
  ASSUME NEW f, NEW S, IsFiniteSet(S), \A x \in S : f[x] \in Int
  PROVE  \E h : Adds(h, f, S)
<1> DEFINE Good(T) == IsFiniteSet(T) /\ (\A x \in T : f[x] \in Int)
           K == {n \in Nat : \A T : Good(T) /\ Cardinality(T) = n => \E h : Adds(h, f, T)}
<1>1. 0 \in K
  <2> SUFFICES ASSUME NEW T, Good(T), Cardinality(T) = 0 PROVE \E h : Adds(h, f, T)
    OBVIOUS
  <2>1. T = {}
    BY FS_EmptySet
  <2> DEFINE h == [s \in SUBSET T |-> 0]
  <2>2. Adds(h, f, T)
    BY <2>1 DEF Adds
  <2>3. QED
    BY <2>2
<1>2. ASSUME NEW n \in K PROVE n + 1 \in K
  <2> SUFFICES ASSUME NEW T, Good(T), Cardinality(T) = n + 1 PROVE \E h : Adds(h, f, T)
    OBVIOUS
  <2>1. PICK x : x \in T
    BY FS_EmptySet
  <2> DEFINE R == T \ {x}
  <2>2. Good(R) /\ Cardinality(R) = n
    <3>1. IsFiniteSet(R) /\ Cardinality(R) = (n + 1) - 1
      BY <2>1, FS_RemoveElement
    <3>2. QED
      BY <3>1
  <2>3. PICK g : Adds(g, f, R)
    BY <2>2
  <2> DEFINE h == [s \in SUBSET T |-> IF x \in s THEN f[x] + g[s \ {x}] ELSE g[s]]
  <2>4. f[x] \in Int /\ g \in [SUBSET R -> Int] /\ g[{}] = 0
    BY <2>1, <2>3 DEF Adds
  <2>5. \A s \in SUBSET T : s \ {x} \in SUBSET R /\ (x \notin s => s \in SUBSET R)
    OBVIOUS
  <2>6. h \in [SUBSET T -> Int] /\ h[{}] = 0
    BY <2>4, <2>5
  <2>7. ASSUME NEW s \in SUBSET T, NEW y \in s PROVE h[s] = f[y] + h[s \ {y}]
    <3>1. CASE y = x
      <4>1. h[s] = f[x] + g[s \ {x}] /\ h[s \ {x}] = g[s \ {x}]
        BY <2>7, <3>1
      <4>2. QED
        BY <3>1, <4>1
    <3>2. CASE y # x /\ x \in s
      <4>1. h[s] = f[x] + g[s \ {x}] /\ h[s \ {y}] = f[x] + g[(s \ {y}) \ {x}]
        BY <2>7, <3>2
      <4>2. (s \ {y}) \ {x} = (s \ {x}) \ {y} /\ y \in s \ {x} /\ s \ {x} \in SUBSET R
        BY <2>7, <3>2
      <4>3. g[s \ {x}] = f[y] + g[(s \ {x}) \ {y}]
        BY <2>3, <4>2 DEF Adds
      <4>4. f[y] \in Int /\ g[(s \ {x}) \ {y}] \in Int
        BY <2>4, <2>7, <4>2
      <4> HIDE DEF h
      <4>5. h[s] = f[x] + (f[y] + g[(s \ {x}) \ {y}])
        BY <4>1, <4>3, Zenon
      <4>6. h[s \ {y}] = f[x] + g[(s \ {x}) \ {y}]
        BY <4>1, <4>2, Zenon
      <4>7. QED
        BY <2>4, <4>4, <4>5, <4>6
    <3>3. CASE x \notin s
      <4>1. s \in SUBSET R /\ s \ {y} \in SUBSET T /\ x \notin s \ {y}
        BY <2>7, <3>3
      <4>2. h[s] = g[s] /\ h[s \ {y}] = g[s \ {y}]
        BY <2>7, <3>3, <4>1
      <4>3. \A r \in SUBSET R : \A z \in r : g[r] = f[z] + g[r \ {z}]
        BY <2>3 DEF Adds
      <4>4. g[s] = f[y] + g[s \ {y}]
        BY <4>1, <4>3
      <4>5. QED
        BY <4>2, <4>4
    <3>4. QED
      BY <3>1, <3>2, <3>3
  <2>8. Adds(h, f, T)
    BY <2>6, <2>7 DEF Adds
  <2>9. QED
    BY <2>8
<1> HIDE DEF K
<1>3. K \in SUBSET Nat
  BY DEF K
<1>4. K = Nat
  BY <1>1, <1>2, <1>3, EveryNatural
<1>5. Cardinality(S) \in K /\ Good(S)
  BY <1>4, FS_CardinalityType
<1>6. QED
  BY <1>5 DEF K

LEMMA SumIsAdded ==
  ASSUME NEW f, NEW S, IsFiniteSet(S), NEW h, Adds(h, f, S)
  PROVE  SumFunctionOnSet(f, S) = h[S]
<1>1. Iterates(h, f, S)
  <2> DEFINE g == [s \in SUBSET S |->
        IF s = {} THEN 0 ELSE f[CHOOSE x \in s : TRUE] + h[s \ {CHOOSE x \in s : TRUE}]]
  <2>1. ASSUME NEW s \in SUBSET S PROVE h[s] = g[s]
    <3>1. CASE s = {}
      BY <3>1 DEF Adds
    <3>2. CASE s # {}
      <4>1. (CHOOSE x \in s : TRUE) \in s
        BY <3>2
      <4>2. QED
        BY <3>2, <4>1 DEF Adds
    <3>3. QED
      BY <3>1, <3>2
  <2>2. h = [s \in SUBSET S |-> h[s]]
    BY DEF Adds
  <2>3. h = g
    BY <2>1, <2>2
  <2>4. QED
    BY <2>3 DEF Iterates
<1> DEFINE g == CHOOSE k : Iterates(k, f, S)
<1>2. Iterates(g, f, S)
  BY <1>1
<1> DEFINE K == {n \in Nat : \A s \in SUBSET S : Cardinality(s) = n => g[s] = h[s]}
<1> HIDE DEF g
<1>3. 0 \in K
  <2> SUFFICES ASSUME NEW s \in SUBSET S, Cardinality(s) = 0 PROVE g[s] = h[s]
    OBVIOUS
  <2>1. s = {}
    BY FS_EmptySet, FS_Subset
  <2>2. g[s] = 0
    BY <1>2, <2>1 DEF Iterates
  <2>3. QED
    BY <2>1, <2>2 DEF Adds
<1>4. ASSUME NEW n \in K PROVE n + 1 \in K
  <2> SUFFICES ASSUME NEW s \in SUBSET S, Cardinality(s) = n + 1 PROVE g[s] = h[s]
    OBVIOUS
  <2> DEFINE x == CHOOSE y \in s : TRUE
  <2>1. s # {} /\ IsFiniteSet(s)
    BY FS_EmptySet, FS_Subset
  <2>2. x \in s
    BY <2>1
  <2>3. s \ {x} \in SUBSET S /\ Cardinality(s \ {x}) = n
    <3>1. Cardinality(s \ {x}) = (n + 1) - 1
      BY <2>1, <2>2, FS_RemoveElement
    <3>2. QED
      BY <3>1
  <2>4. g[s] = f[x] + g[s \ {x}]
    BY <1>2, <2>1 DEF Iterates
  <2>5. h[s] = f[x] + h[s \ {x}]
    BY <2>2 DEF Adds
  <2>6. g[s \ {x}] = h[s \ {x}]
    BY <2>3
  <2>7. QED
    BY <2>4, <2>5, <2>6
<1>5. K \in SUBSET Nat
  OBVIOUS
<1> HIDE DEF K
<1>6. Cardinality(S) \in K
  BY <1>3, <1>4, <1>5, EveryNatural, FS_CardinalityType
<1>7. g[S] = h[S]
  BY <1>6 DEF K
<1>8. QED
  BY <1>7, SumIsIterated DEF g

(* What the rest needs of sums: of nothing, of one more or less, of the    *)
(* same numbers, and of numbers none of which is negative.                 *)
LEMMA SumOfNone == ASSUME NEW f PROVE SumFunctionOnSet(f, {}) = 0
<1>1. IsFiniteSet({})
  BY FS_EmptySet
<1>2. PICK h : Adds(h, f, {})
  BY <1>1, AddsExists
<1>3. SumFunctionOnSet(f, {}) = h[{}]
  BY <1>1, <1>2, SumIsAdded
<1>4. QED
  BY <1>2, <1>3 DEF Adds

LEMMA SumRemove ==
  ASSUME NEW f, NEW S, IsFiniteSet(S), \A x \in S : f[x] \in Int, NEW y \in S
  PROVE  /\ SumFunctionOnSet(f, S) = f[y] + SumFunctionOnSet(f, S \ {y})
         /\ SumFunctionOnSet(f, S \ {y}) \in Int
<1>1. PICK h : Adds(h, f, S)
  BY AddsExists
<1> DEFINE R == S \ {y}
           g == [s \in SUBSET R |-> h[s]]
<1>2. IsFiniteSet(R)
  BY FS_RemoveElement
<1>3. Adds(g, f, R)
  <2>1. /\ h \in [SUBSET S -> Int] /\ h[{}] = 0
        /\ \A s \in SUBSET S : \A x \in s : h[s] = f[x] + h[s \ {x}]
    BY <1>1 DEF Adds
  <2>2. g \in [SUBSET R -> Int] /\ g[{}] = 0
    BY <2>1
  <2>3. ASSUME NEW s \in SUBSET R, NEW x \in s PROVE g[s] = f[x] + g[s \ {x}]
    <3>1. s \in SUBSET S /\ s \ {x} \in SUBSET R
      OBVIOUS
    <3>2. g[s] = h[s] /\ g[s \ {x}] = h[s \ {x}]
      BY <3>1
    <3>3. QED
      BY <2>1, <3>1, <3>2
  <2>4. QED
    BY <2>2, <2>3 DEF Adds
<1>4. SumFunctionOnSet(f, S) = h[S] /\ SumFunctionOnSet(f, R) = g[R]
  BY <1>1, <1>2, <1>3, SumIsAdded
<1>5. g[R] = h[R] /\ h[R] \in Int /\ h[S] = f[y] + h[R]
  BY <1>1 DEF Adds
<1>6. QED
  BY <1>4, <1>5

LEMMA SumIsInteger ==
  ASSUME NEW f, NEW S, IsFiniteSet(S), \A x \in S : f[x] \in Int
  PROVE  SumFunctionOnSet(f, S) \in Int
<1>1. PICK h : Adds(h, f, S)
  BY AddsExists
<1>2. SumFunctionOnSet(f, S) = h[S]
  BY <1>1, SumIsAdded
<1>3. h[S] \in Int
  BY <1>1 DEF Adds
<1>4. QED
  BY <1>2, <1>3

LEMMA SumAgrees ==
  ASSUME NEW f, NEW g, NEW S, IsFiniteSet(S),
         \A x \in S : f[x] \in Int /\ g[x] = f[x]
  PROVE  SumFunctionOnSet(g, S) = SumFunctionOnSet(f, S)
<1>1. PICK h : Adds(h, f, S)
  BY AddsExists
<1>2. Adds(h, g, S)
  BY <1>1 DEF Adds
<1>3. QED
  BY <1>1, <1>2, SumIsAdded

(* One of the numbers grows by d.                                          *)
LEMMA SumBumped ==
  ASSUME NEW f, NEW g, NEW S, IsFiniteSet(S), \A x \in S : f[x] \in Int,
         NEW y \in S, NEW d \in Int, g[y] = f[y] + d,
         \A x \in S \ {y} : g[x] = f[x]
  PROVE  SumFunctionOnSet(g, S) = SumFunctionOnSet(f, S) + d
<1> DEFINE R == S \ {y}
<1>1. IsFiniteSet(R) /\ (\A x \in R : f[x] \in Int /\ g[x] = f[x])
  BY FS_RemoveElement
<1>2. SumFunctionOnSet(g, R) = SumFunctionOnSet(f, R)
  BY <1>1, SumAgrees
<1>3. \A x \in S : g[x] \in Int
  OBVIOUS
<1>4. /\ SumFunctionOnSet(f, S) = f[y] + SumFunctionOnSet(f, R)
      /\ SumFunctionOnSet(f, R) \in Int
  BY SumRemove
<1>5. SumFunctionOnSet(g, S) = g[y] + SumFunctionOnSet(g, R)
  BY <1>3, SumRemove
<1>6. f[y] \in Int
  OBVIOUS
<1>7. QED
  BY <1>2, <1>4, <1>5, <1>6

(* One more number.                                                        *)
LEMMA SumInserted ==
  ASSUME NEW f, NEW S, IsFiniteSet(S), \A x \in S : f[x] \in Int,
         NEW y, y \notin S, f[y] \in Int
  PROVE  SumFunctionOnSet(f, S \cup {y}) = SumFunctionOnSet(f, S) + f[y]
<1> DEFINE T == S \cup {y}
<1>1. IsFiniteSet(T)
  BY FS_AddElement
<1>2. (\A x \in T : f[x] \in Int) /\ y \in T /\ T \ {y} = S
  OBVIOUS
<1>3. /\ SumFunctionOnSet(f, T) = f[y] + SumFunctionOnSet(f, T \ {y})
      /\ SumFunctionOnSet(f, T \ {y}) \in Int
  BY <1>1, <1>2, SumRemove
<1>4. SumFunctionOnSet(f, T \ {y}) = SumFunctionOnSet(f, S)
  BY <1>2, Zenon
<1>5. QED
  BY <1>3, <1>4

LEMMA SumIsNatural ==
  ASSUME NEW f, NEW S, IsFiniteSet(S), \A x \in S : f[x] \in Nat
  PROVE  SumFunctionOnSet(f, S) \in Nat
<1>1. PICK h : Adds(h, f, S)
  BY AddsExists
<1> DEFINE K == {n \in Nat : \A s \in SUBSET S : Cardinality(s) = n => h[s] >= 0}
<1>2. 0 \in K
  <2> SUFFICES ASSUME NEW s \in SUBSET S, Cardinality(s) = 0 PROVE h[s] >= 0
    OBVIOUS
  <2>1. s = {}
    BY FS_EmptySet, FS_Subset
  <2>2. QED
    BY <1>1, <2>1 DEF Adds
<1>3. ASSUME NEW n \in K PROVE n + 1 \in K
  <2> SUFFICES ASSUME NEW s \in SUBSET S, Cardinality(s) = n + 1 PROVE h[s] >= 0
    OBVIOUS
  <2>1. s # {} /\ IsFiniteSet(s)
    BY FS_EmptySet, FS_Subset
  <2>2. PICK x : x \in s
    BY <2>1
  <2>3. s \ {x} \in SUBSET S /\ Cardinality(s \ {x}) = n
    <3>1. Cardinality(s \ {x}) = (n + 1) - 1
      BY <2>1, <2>2, FS_RemoveElement
    <3>2. QED
      BY <3>1
  <2>4. h[s \ {x}] >= 0
    BY <2>3
  <2>5. h[s] = f[x] + h[s \ {x}] /\ h[s \ {x}] \in Int /\ f[x] \in Nat
    BY <1>1, <2>2, <2>3 DEF Adds
  <2>6. QED
    BY <2>4, <2>5
<1>4. K \in SUBSET Nat
  OBVIOUS
<1> HIDE DEF K
<1>5. Cardinality(S) \in K
  BY <1>2, <1>3, <1>4, EveryNatural, FS_CardinalityType
<1>6. h[S] >= 0 /\ h[S] \in Int
  BY <1>1, <1>5 DEF K, Adds
<1>7. QED
  BY <1>1, <1>6, SumIsAdded

(* Two of the numbers grow, or two more numbers come.                      *)
LEMMA SumBumpedTwice ==
  ASSUME NEW f, NEW g, NEW S, IsFiniteSet(S), \A x \in S : f[x] \in Int,
         NEW a \in S, NEW b \in S, a # b, NEW d \in Int, NEW e \in Int,
         g[a] = f[a] + d, g[b] = f[b] + e, \A x \in S \ {a, b} : g[x] = f[x]
  PROVE  SumFunctionOnSet(g, S) = SumFunctionOnSet(f, S) + d + e
<1> DEFINE h == [x \in S |-> IF x = a THEN f[a] + d ELSE f[x]]
<1>1. \A x \in S : h[x] \in Int
  OBVIOUS
<1>2. /\ h[a] = f[a] + d /\ g[b] = h[b] + e
      /\ \A x \in S \ {a} : h[x] = f[x]
      /\ \A x \in S \ {b} : g[x] = h[x]
  OBVIOUS
<1> HIDE DEF h
<1>3. SumFunctionOnSet(h, S) = SumFunctionOnSet(f, S) + d
  BY <1>2, SumBumped
<1>4. SumFunctionOnSet(g, S) = SumFunctionOnSet(h, S) + e
  BY <1>1, <1>2, SumBumped
<1>5. QED
  BY <1>3, <1>4

LEMMA SumInsertedTwice ==
  ASSUME NEW f, NEW S, IsFiniteSet(S), NEW a, NEW b, a \notin S, b \notin S, a # b,
         \A x \in S \cup {a, b} : f[x] \in Int
  PROVE  SumFunctionOnSet(f, S \cup {a, b}) = SumFunctionOnSet(f, S) + f[a] + f[b]
<1> DEFINE T == S \cup {a}
<1>1. IsFiniteSet(T)
  BY FS_AddElement
<1>2. (\A x \in T : f[x] \in Int) /\ b \notin T /\ f[a] \in Int /\ f[b] \in Int
  OBVIOUS
<1>3. SumFunctionOnSet(f, T) = SumFunctionOnSet(f, S) + f[a]
  BY <1>2, SumInserted
<1>4. SumFunctionOnSet(f, T \cup {b}) = SumFunctionOnSet(f, T) + f[b]
  BY <1>1, <1>2, SumInserted
<1>5. T \cup {b} = S \cup {a, b}
  OBVIOUS
<1>6. SumFunctionOnSet(f, S \cup {a, b}) = SumFunctionOnSet(f, T) + f[b]
  BY <1>4, <1>5, Zenon
<1>7. QED
  BY <1>3, <1>6

-----------------------------------------------------------------------------
(* Categories, counters and reasons.                                       *)

LEMMA CategoriesFinite == IsFiniteSet(Category)
<1>1. IsFiniteSet({})
  BY FS_EmptySet
<1>2. IsFiniteSet({} \cup {"facts"})
  BY <1>1, FS_AddElement
<1>3. IsFiniteSet(({} \cup {"facts"}) \cup {"active_goals"})
  BY <1>2, FS_AddElement
<1>4. IsFiniteSet((({} \cup {"facts"}) \cup {"active_goals"}) \cup {"established"})
  BY <1>3, FS_AddElement
<1> DEFINE three == (({} \cup {"facts"}) \cup {"active_goals"}) \cup {"established"}
<1> HIDE DEF three
<1>5. IsFiniteSet(three)
  BY <1>4 DEF three
<1>6. IsFiniteSet(three \cup {"memories"})
  BY <1>5, FS_AddElement
<1>7. IsFiniteSet((three \cup {"memories"}) \cup {"provisional"})
  BY <1>6, FS_AddElement
<1>8. IsFiniteSet(((three \cup {"memories"}) \cup {"provisional"}) \cup {"terminal_goals"})
  BY <1>7, FS_AddElement
<1>9. Category = ((three \cup {"memories"}) \cup {"provisional"}) \cup {"terminal_goals"}
  BY DEF Category, three
<1>10. QED
  BY <1>8, <1>9

LEMMA CounterNames ==
  Counter = Category \cup {"established_preferences", "provisional_preferences", "goals"}
<1>1. Range(SelectionCounter) =
        {"facts", "active_goals", "established_preferences", "memories",
         "provisional_preferences", "terminal_goals"}
  <2>1. DOMAIN SelectionCounter = Category
    BY DEF SelectionCounter
  <2>2. /\ SelectionCounter["facts"] = "facts"
        /\ SelectionCounter["active_goals"] = "active_goals"
        /\ SelectionCounter["established"] = "established_preferences"
        /\ SelectionCounter["memories"] = "memories"
        /\ SelectionCounter["provisional"] = "provisional_preferences"
        /\ SelectionCounter["terminal_goals"] = "terminal_goals"
    BY DEF SelectionCounter, Category
  <2> HIDE DEF SelectionCounter
  <2>3. QED
    BY <2>1, <2>2 DEF Range, Category
<1>2. Optional = {"facts", "goals", "memories"}
  BY DEF Optional, FailureReason
<1>3. QED
  BY <1>1, <1>2 DEF Counter, Category

LEMMA CountersFinite == IsFiniteSet(Counter)
<1>1. IsFiniteSet(Category \cup {"established_preferences"})
  BY CategoriesFinite, FS_AddElement
<1>2. IsFiniteSet((Category \cup {"established_preferences"}) \cup {"provisional_preferences"})
  BY <1>1, FS_AddElement
<1> DEFINE most == (Category \cup {"established_preferences"}) \cup {"provisional_preferences"}
<1> HIDE DEF most
<1>3. IsFiniteSet(most)
  BY <1>2 DEF most
<1>4. IsFiniteSet(most \cup {"goals"})
  BY <1>3, FS_AddElement
<1>5. Counter = most \cup {"goals"}
  BY CounterNames DEF most
<1>6. QED
  BY <1>4, <1>5

LEMMA ReasonNames ==
  Reason = {"budget_exceeded", "record_oversized", "source_limit", "fact_context_omitted",
            "goal_context_omitted", "memory_context_omitted", "not_relevant",
            "duplicate_record"}
<1>1. Range(FailureReason) =
        {"fact_context_omitted", "goal_context_omitted", "memory_context_omitted"}
  <2>1. DOMAIN FailureReason = {"facts", "goals", "memories"}
    BY DEF FailureReason
  <2>2. /\ FailureReason["facts"] = "fact_context_omitted"
        /\ FailureReason["goals"] = "goal_context_omitted"
        /\ FailureReason["memories"] = "memory_context_omitted"
    BY DEF FailureReason
  <2> HIDE DEF FailureReason
  <2>3. QED
    BY <2>1, <2>2 DEF Range
<1>2. QED
  BY <1>1 DEF Reason, TruncationReasons

LEMMA ReasonsFinite == IsFiniteSet(Reason)
<1>1. IsFiniteSet({})
  BY FS_EmptySet
<1>2. IsFiniteSet({} \cup {"budget_exceeded"})
  BY <1>1, FS_AddElement
<1>3. IsFiniteSet(({} \cup {"budget_exceeded"}) \cup {"record_oversized"})
  BY <1>2, FS_AddElement
<1> DEFINE two == ({} \cup {"budget_exceeded"}) \cup {"record_oversized"}
<1> HIDE DEF two
<1>4. IsFiniteSet(two)
  BY <1>3 DEF two
<1>5. IsFiniteSet(two \cup {"source_limit"})
  BY <1>4, FS_AddElement
<1>6. IsFiniteSet((two \cup {"source_limit"}) \cup {"fact_context_omitted"})
  BY <1>5, FS_AddElement
<1> DEFINE four == (two \cup {"source_limit"}) \cup {"fact_context_omitted"}
<1> HIDE DEF four
<1>7. IsFiniteSet(four)
  BY <1>6 DEF four
<1>8. IsFiniteSet(four \cup {"goal_context_omitted"})
  BY <1>7, FS_AddElement
<1>9. IsFiniteSet((four \cup {"goal_context_omitted"}) \cup {"memory_context_omitted"})
  BY <1>8, FS_AddElement
<1> DEFINE six == (four \cup {"goal_context_omitted"}) \cup {"memory_context_omitted"}
<1> HIDE DEF six
<1>10. IsFiniteSet(six)
  BY <1>9 DEF six
<1>11. IsFiniteSet(six \cup {"not_relevant"})
  BY <1>10, FS_AddElement
<1>12. IsFiniteSet((six \cup {"not_relevant"}) \cup {"duplicate_record"})
  BY <1>11, FS_AddElement
<1>13. Reason = (six \cup {"not_relevant"}) \cup {"duplicate_record"}
  BY ReasonNames DEF six, four, two
<1>14. QED
  BY <1>12, <1>13

LEMMA LengthsAreNatural ==
  /\ \A r \in Reason : ReasonLength[r] \in Nat
  /\ ReasonLength["budget_exceeded"] = 15
  /\ \A k \in Counter : CounterLength[k] \in Nat
<1>1. \A r \in Reason : ReasonLength[r] \in Nat
  BY ReasonNames DEF ReasonLength
<1>2. ReasonLength["budget_exceeded"] = 15
  BY ReasonNames DEF ReasonLength
<1>3. \A k \in Counter : CounterLength[k] \in Nat
  BY CounterNames DEF CounterLength, Category
<1>4. QED
  BY <1>1, <1>2, <1>3

LEMMA PowersFinite == IsFiniteSet(PowersOfTen)
<1> DEFINE most == 1000000000
<1>1. most \in Nat /\ \A p \in PowersOfTen : p \in Nat /\ 1 <= p /\ p <= most
  BY DEF PowersOfTen
<1> HIDE DEF most
<1>2. IsFiniteSet(1 .. most)
  BY <1>1, FS_Interval
<1>3. PowersOfTen \subseteq 1 .. most
  BY <1>1
<1>4. QED
  BY <1>2, <1>3, FS_Subset

LEMMA DigitsGrow ==
  /\ \A n : Digits(n) \in Nat /\ Digits(n) >= 1
  /\ \A n \in Nat : Digits(n) <= Digits(n + 1)
<1> DEFINE Upto(n) == {p \in PowersOfTen : p <= n}
<1>1. \A n : IsFiniteSet(Upto(n)) /\ Cardinality(Upto(n)) \in Nat
  <2> TAKE n
  <2>1. IsFiniteSet(Upto(n))
    BY PowersFinite, FS_Subset
  <2>2. QED
    BY <2>1, FS_CardinalityType
<1>2. \A n : Digits(n) = 1 + Cardinality(Upto(n))
  BY DEF Digits
<1>3. ASSUME NEW n \in Nat PROVE Cardinality(Upto(n)) <= Cardinality(Upto(n + 1))
  <2>1. \A p \in PowersOfTen : p \in Nat
    BY DEF PowersOfTen
  <2>2. \A p \in PowersOfTen : p <= n => p <= n + 1
    BY <2>1
  <2>3. Upto(n) \subseteq Upto(n + 1)
    BY <2>2
  <2>4. QED
    BY <1>1, <2>3, FS_Subset
<1> HIDE DEF Upto
<1>4. \A n : Digits(n) \in Nat /\ Digits(n) >= 1
  BY <1>1, <1>2
<1>5. \A n \in Nat : Digits(n) <= Digits(n + 1)
  <2> TAKE n \in Nat
  <2>1. Cardinality(Upto(n)) <= Cardinality(Upto(n + 1))
    BY <1>3
  <2>2. Cardinality(Upto(n)) \in Nat /\ Cardinality(Upto(n + 1)) \in Nat
    BY <1>1
  <2>3. Digits(n) = 1 + Cardinality(Upto(n)) /\ Digits(n + 1) = 1 + Cardinality(Upto(n + 1))
    BY <1>2
  <2>4. QED
    BY <2>1, <2>2, <2>3
<1>6. QED
  BY <1>4, <1>5

-----------------------------------------------------------------------------
(* The account of what is left out grows with it.                          *)

LEMMA ReasonsLengthGrows ==
  ASSUME NEW why \in SUBSET Reason
  PROVE  /\ ReasonsLength(why) \in Int
         /\ ReasonsLength(why \cup {"budget_exceeded"}) >=
              ReasonsLength(why) + IF "budget_exceeded" \in why THEN 0 ELSE 17
<1> DEFINE f == [r \in Reason |-> ReasonLength[r] + 3]
<1>1. \A r \in Reason : f[r] \in Int
  BY LengthsAreNatural
<1>2. f["budget_exceeded"] = 18 /\ "budget_exceeded" \in Reason
  BY LengthsAreNatural, ReasonNames
<1> HIDE DEF f
<1>3. /\ IsFiniteSet(why) /\ (\A r \in why : f[r] \in Int)
      /\ f["budget_exceeded"] \in Int
  BY <1>1, <1>2, ReasonsFinite, FS_Subset
<1>4. SumFunctionOnSet(f, why) \in Int
  BY <1>3, SumIsInteger
<1>5. ReasonsLength(why) = SumFunctionOnSet(f, why) - (IF why = {} THEN 0 ELSE 1)
  BY DEF ReasonsLength, f
<1>6. CASE "budget_exceeded" \in why
  <2>1. why \cup {"budget_exceeded"} = why
    BY <1>6
  <2>2. ReasonsLength(why) \in Int
    BY <1>4, <1>5
  <2>3. ReasonsLength(why \cup {"budget_exceeded"}) = ReasonsLength(why)
    BY <2>1, Zenon
  <2>4. QED
    BY <1>6, <2>2, <2>3
<1>7. CASE "budget_exceeded" \notin why
  <2> DEFINE more == why \cup {"budget_exceeded"}
  <2>1. SumFunctionOnSet(f, more) = SumFunctionOnSet(f, why) + 18
    BY <1>2, <1>3, <1>7, SumInserted
  <2>2. ReasonsLength(more) = SumFunctionOnSet(f, more) - (IF more = {} THEN 0 ELSE 1)
    BY DEF ReasonsLength, f
  <2>3. more # {}
    OBVIOUS
  <2>4. QED
    BY <1>4, <1>5, <1>7, <2>1, <2>2, <2>3
<1>8. QED
  BY <1>6, <1>7

LEMMA CountersLengthGrows ==
  ASSUME NEW count \in [Counter -> Nat], NEW k \in Counter
  PROVE  /\ CountersLength(count) \in Int
         /\ CountersLength([count EXCEPT ![k] = @ + 1]) >= CountersLength(count)
<1> DEFINE more == [count EXCEPT ![k] = @ + 1]
           Used(c) == {x \in Counter : c[x] > 0}
           F(c) == [x \in Counter |-> CounterLength[x] + 4 + Digits(c[x])]
           f == F(count)
           g == F(more)
           used == Used(count)
<1>1. \A x \in Counter : f[x] \in Nat /\ f[x] >= 5 /\ g[x] \in Nat /\ g[x] >= 5
  <2>1. \A x : Digits(x) \in Nat /\ Digits(x) >= 1
    BY DigitsGrow
  <2>2. \A x \in Counter : /\ f[x] = CounterLength[x] + 4 + Digits(count[x])
                           /\ g[x] = CounterLength[x] + 4 + Digits(more[x])
    OBVIOUS
  <2> HIDE DEF f, g, more
  <2>3. QED
    BY <2>1, <2>2, LengthsAreNatural
<1>2. \A x \in Counter \ {k} : g[x] = f[x]
  OBVIOUS
<1>3. g[k] >= f[k]
  <2>1. /\ f[k] = CounterLength[k] + 4 + Digits(count[k])
        /\ g[k] = CounterLength[k] + 4 + Digits(count[k] + 1)
    OBVIOUS
  <2>2. CounterLength[k] \in Nat /\ Digits(count[k]) \in Nat /\ Digits(count[k] + 1) \in Nat
    BY LengthsAreNatural, DigitsGrow
  <2>3. Digits(count[k]) <= Digits(count[k] + 1)
    BY DigitsGrow
  <2> HIDE DEF f, g
  <2>4. QED
    BY <2>1, <2>2, <2>3
<1>4. Used(more) = used \cup {k} /\ used \subseteq Counter
  OBVIOUS
<1>5. /\ CountersLength(count) = SumFunctionOnSet(f, used) - (IF used = {} THEN 0 ELSE 1)
      /\ CountersLength(more) =
           SumFunctionOnSet(g, Used(more)) - (IF Used(more) = {} THEN 0 ELSE 1)
  BY DEF CountersLength
<1> HIDE DEF f, g, used, Used, F
<1>6. IsFiniteSet(used) /\ (\A x \in used : f[x] \in Int) /\ (\A x \in used : g[x] \in Int)
  BY <1>1, <1>4, CountersFinite, FS_Subset
<1>7. SumFunctionOnSet(f, used) \in Int
  BY <1>6, SumIsInteger
<1>8. f[k] \in Nat /\ g[k] \in Nat /\ g[k] >= 5
  BY <1>1
<1>9. CountersLength(more) = SumFunctionOnSet(g, used \cup {k}) - 1
  <2>1. Used(more) # {}
    BY <1>4
  <2>2. SumFunctionOnSet(g, Used(more)) = SumFunctionOnSet(g, used \cup {k})
    BY <1>4, Zenon
  <2>3. QED
    BY <1>5, <2>1, <2>2
<1>10. CASE k \in used
  <2>1. SumFunctionOnSet(g, used) = SumFunctionOnSet(f, used) + (g[k] - f[k])
    <3>1. g[k] = f[k] + (g[k] - f[k]) /\ g[k] - f[k] \in Int
      BY <1>8
    <3>2. \A x \in used \ {k} : g[x] = f[x]
      BY <1>2, <1>4
    <3>3. QED
      BY <1>6, <1>10, <3>1, <3>2, SumBumped
  <2>2. used \cup {k} = used /\ used # {}
    BY <1>10
  <2>3. SumFunctionOnSet(g, used \cup {k}) = SumFunctionOnSet(g, used)
    BY <2>2, Zenon
  <2>4. QED
    BY <1>3, <1>5, <1>7, <1>8, <1>9, <2>1, <2>2, <2>3
<1>11. CASE k \notin used
  <2>1. SumFunctionOnSet(g, used \cup {k}) = SumFunctionOnSet(g, used) + g[k]
    BY <1>6, <1>8, <1>11, SumInserted
  <2>2. \A x \in used : f[x] \in Int /\ g[x] = f[x]
    BY <1>2, <1>4, <1>6, <1>11
  <2>3. SumFunctionOnSet(g, used) = SumFunctionOnSet(f, used)
    BY <1>6, <2>2, SumAgrees
  <2>4. QED
    BY <1>5, <1>7, <1>8, <1>9, <2>1, <2>3
<1>12. QED
  BY <1>10, <1>11

(* ... although "true" is shorter than "false".                            *)
LEMMA AccountGrows ==
  ASSUME NEW count \in [Counter -> Nat], NEW why \in SUBSET Reason, NEW k \in Counter
  PROVE  /\ AccountLength(count, why) \in Int
         /\ AccountLength([count EXCEPT ![k] = @ + 1], why \cup {"budget_exceeded"})
              >= AccountLength(count, why)
<1> DEFINE flag == IF why \cap TruncationReasons = {} THEN 5 ELSE 4
           more == [count EXCEPT ![k] = @ + 1]
           why2 == why \cup {"budget_exceeded"}
<1>1. "budget_exceeded" \in why2 \cap TruncationReasons
  BY DEF TruncationReasons
<1>2. AccountLength(count, why) = flag + ReasonsLength(why) + CountersLength(count)
  BY DEF AccountLength
<1>3. AccountLength(more, why2) = 4 + ReasonsLength(why2) + CountersLength(more)
  BY <1>1 DEF AccountLength
<1>4. CASE "budget_exceeded" \in why
  <2>1. flag = 4 /\ why2 = why
    BY <1>4 DEF TruncationReasons
  <2>2. ReasonsLength(why2) = ReasonsLength(why)
    BY <2>1, Zenon
  <2>3. more \in [Counter -> Nat]
    OBVIOUS
  <2> HIDE DEF flag, more, why2
  <2>4. /\ ReasonsLength(why) \in Int /\ CountersLength(count) \in Int
        /\ CountersLength(more) \in Int
    BY <2>3, ReasonsLengthGrows, CountersLengthGrows
  <2>5. CountersLength(more) >= CountersLength(count)
    BY CountersLengthGrows DEF more
  <2>6. AccountLength(more, why2) >= AccountLength(count, why) /\ AccountLength(count, why) \in Int
    BY <1>2, <1>3, <2>1, <2>2, <2>4, <2>5
  <2>7. QED
    BY <2>6 DEF more, why2
<1>5. CASE "budget_exceeded" \notin why
  <2>1. flag \in {4, 5}
    OBVIOUS
  <2>2. more \in [Counter -> Nat] /\ why2 \in SUBSET Reason
    BY ReasonNames
  <2> HIDE DEF flag, more, why2
  <2>3. /\ ReasonsLength(why) \in Int /\ CountersLength(count) \in Int
        /\ CountersLength(more) \in Int /\ ReasonsLength(why2) \in Int
    BY <2>2, ReasonsLengthGrows, CountersLengthGrows
  <2>4. CountersLength(more) >= CountersLength(count)
    BY CountersLengthGrows DEF more
  <2>5. ReasonsLength(why2) >= ReasonsLength(why) + 17
    BY <1>5, ReasonsLengthGrows DEF why2
  <2>6. AccountLength(more, why2) >= AccountLength(count, why) /\ AccountLength(count, why) \in Int
    BY <1>2, <1>3, <2>1, <2>3, <2>4, <2>5
  <2>7. QED
    BY <2>6 DEF more, why2
<1>6. QED
  BY <1>4, <1>5

(* What the queue and the bundle are made of.                              *)
CandidateRecord == [category : Category, index : Nat, length : Nat]

LEMMA JoinedIsInteger ==
  ASSUME NEW list \in Seq(CandidateRecord), NEW categories
  PROVE  /\ Joined(list, categories) \in Int
         /\ IsFiniteSet(Taken(list, categories))
<1> DEFINE f == [i \in DOMAIN list |-> list[i].length]
           own == Taken(list, categories)
<1>1. own \subseteq DOMAIN list /\ DOMAIN list = 1 .. Len(list) /\ Len(list) \in Nat
  BY DEF Taken
<1>2. IsFiniteSet(own)
  <2>1. IsFiniteSet(1 .. Len(list))
    BY <1>1, FS_Interval
  <2>2. QED
    BY <1>1, <2>1, FS_Subset
<1>3. ASSUME NEW i \in own PROVE f[i] \in Int
  <2>1. i \in DOMAIN list /\ list[i] \in CandidateRecord
    BY <1>1
  <2>2. f[i] = list[i].length
    BY <2>1
  <2>3. QED
    BY <2>1, <2>2 DEF CandidateRecord
<1> HIDE DEF f, own
<1>4. SumFunctionOnSet(f, own) \in Int
  BY <1>2, <1>3, SumIsInteger
<1>5. Cardinality(own) \in Int
  BY <1>2, FS_CardinalityType
<1>6. Joined(list, categories) =
        SumFunctionOnSet(f, own) + (IF own = {} THEN 0 ELSE Cardinality(own) - 1)
  BY DEF Joined, f, own
<1>7. QED
  BY <1>2, <1>4, <1>5, <1>6 DEF own

LEMMA ContentIsInteger ==
  ASSUME NEW list \in Seq(CandidateRecord)
  PROVE  ContentLength(list) \in Int
<1> DEFINE goals == Joined(list, {"active_goals", "terminal_goals"})
           first == Joined(list, {"established"})
           second == Joined(list, {"provisional"})
           memories == Joined(list, {"memories"})
           facts == Joined(list, {"facts"})
           f == [c \in Category |-> Digits(Cardinality(Taken(list, {c})))]
<1>1. /\ goals \in Int /\ first \in Int /\ second \in Int /\ memories \in Int /\ facts \in Int
  BY JoinedIsInteger
<1>2. SumFunction(f) \in Int
  <2>1. \A c \in Category : f[c] \in Int
    <3>1. \A c \in Category : f[c] = Digits(Cardinality(Taken(list, {c})))
      OBVIOUS
    <3>2. \A n : Digits(n) \in Int
      BY DigitsGrow
    <3>3. QED
      BY <3>1, <3>2, Zenon
  <2>2. DOMAIN f = Category
    OBVIOUS
  <2> HIDE DEF f
  <2>3. SumFunctionOnSet(f, Category) \in Int
    BY <2>1, CategoriesFinite, SumIsInteger
  <2>4. QED
    BY <2>2, <2>3 DEF SumFunction
<1>3. \A n : Digits(n) \in Int
  BY DigitsGrow
<1>4. CoreLength \in Int
  BY ContextAssumption
<1> DEFINE identity == CoreLength + first + second
           d1 == Digits(Budget)
           d2 == Digits(2 + goals)
           d3 == Digits(identity)
           d4 == Digits(2 + memories)
           d5 == Digits(2 + facts)
           counts == SumFunction(f)
<1>5. ContentLength(list) =
        77 + goals + identity + memories + facts + 294 + d1 + (d2 + d3 + d4 + d5) + (1 + counts)
  BY DEF ContentLength
<1>6. identity \in Int
  BY <1>1, <1>4
<1> HIDE DEF goals, first, second, memories, facts, f, identity
<1>7. d1 \in Int /\ d2 \in Int /\ d3 \in Int /\ d4 \in Int /\ d5 \in Int /\ counts \in Int
  BY <1>2, <1>3, Zenon
<1> HIDE DEF d1, d2, d3, d4, d5, counts
<1>8. QED
  BY <1>1, <1>5, <1>6, <1>7

(* What had no room beside a shorter account has none beside a longer one: *)
(* one more record counted as left out, with its reason, never shortens    *)
(* the bundle's JSON (ContextAssembler._finalize), so that no later step   *)
(* makes room for a record that was refused.                               *)
THEOREM NoRoomStays ==
  ASSUME NEW list \in Seq(CandidateRecord), NEW count \in [Counter -> Nat],
         NEW why \in SUBSET Reason, NEW k \in Counter, ~Fits(list, count, why)
  PROVE  ~Fits(list, [count EXCEPT ![k] = @ + 1], why \cup {"budget_exceeded"})
<1> DEFINE more == [count EXCEPT ![k] = @ + 1]
           why2 == why \cup {"budget_exceeded"}
<1>1. more \in [Counter -> Nat] /\ why2 \in SUBSET Reason
  BY ReasonNames
<1>2. AccountLength(count, why) \in Int /\ AccountLength(more, why2) >= AccountLength(count, why)
  BY AccountGrows
<1> HIDE DEF more, why2
<1>3. ContentLength(list) \in Int /\ AccountLength(more, why2) \in Int /\ Budget \in Int
  <2>1. AccountLength(more, why2) \in Int
    BY <1>1, AccountGrows
  <2>2. Budget \in Int
    BY ContextAssumption
  <2>3. QED
    BY <2>1, <2>2, ContentIsInteger
<1>4. ~(ContentLength(list) + AccountLength(count, why) <= Budget)
  BY DEF Fits, Encoded
<1>5. ~(ContentLength(list) + AccountLength(more, why2) <= Budget)
  BY <1>2, <1>3, <1>4
<1>6. QED
  BY <1>5 DEF Fits, Encoded, more, why2

-----------------------------------------------------------------------------
(* Candidates and their queue.                                             *)

LEMMA NthExists ==
  ASSUME NEW m \in Nat, NEW places \in SUBSET (1 .. m), NEW n \in 1 .. Cardinality(places)
  PROVE  Nth(places, n) \in places
<1> DEFINE Upto(i) == {j \in places : j <= i}
           K == {i \in Nat : Cardinality(Upto(i)) < n}
<1>0. \A j \in places : j \in Nat /\ 1 <= j /\ j <= m
  OBVIOUS
<1>1. IsFiniteSet(places)
  <2>1. IsFiniteSet(1 .. m)
    BY FS_Interval
  <2>2. QED
    BY <2>1, FS_Subset
<1>2. \A i : IsFiniteSet(Upto(i)) /\ Cardinality(Upto(i)) \in Nat
  <2> TAKE i
  <2>1. IsFiniteSet(Upto(i))
    BY <1>1, FS_Subset
  <2>2. QED
    BY <2>1, FS_CardinalityType
<1>3. 0 \in K
  <2>1. {j \in places : j <= 0} = {}
    <3> HIDE DEF K
    <3>1. \A j \in places : ~(j <= 0)
      BY <1>0
    <3>2. QED
      BY <3>1
  <2>2. Cardinality(Upto(0)) = 0
    BY <2>1, FS_EmptySet
  <2>3. QED
    BY <2>2
<1>4. m \notin K
  <2>1. {j \in places : j <= m} = places
    <3> HIDE DEF K
    <3>1. \A j \in places : j <= m
      BY <1>0
    <3>2. QED
      BY <3>1
  <2>2. Cardinality(Upto(m)) = Cardinality(places)
    BY <2>1, Zenon
  <2>3. Cardinality(places) \in Nat
    BY <1>1, FS_CardinalityType
  <2>4. QED
    BY <2>2, <2>3
<1>5. PICK i \in Nat : i \in K /\ i + 1 \notin K
  <2>1. CASE \A i \in K : i + 1 \in K
    <3>1. K \in SUBSET Nat
      OBVIOUS
    <3> HIDE DEF K
    <3>2. K = Nat
      BY <1>3, <2>1, <3>1, EveryNatural
    <3>3. QED
      BY <1>4, <3>2
  <2>2. QED
    BY <2>1
<1>6. Cardinality(Upto(i)) < n /\ ~(Cardinality(Upto(i + 1)) < n)
  BY <1>5
<1>7. CASE i + 1 \in places
  <2>1. Upto(i + 1) = Upto(i) \cup {i + 1} /\ i + 1 \notin Upto(i)
    <3>1. \A j \in places : j <= i + 1 <=> (j <= i \/ j = i + 1)
      BY <1>0
    <3>2. ~(i + 1 <= i)
      OBVIOUS
    <3>3. {j \in places : j <= i + 1} = {j \in places : j <= i} \cup {i + 1}
      BY <1>7, <3>1
    <3>4. QED
      BY <3>2, <3>3
  <2>2. Cardinality(Upto(i) \cup {i + 1}) = Cardinality(Upto(i)) + 1
    BY <1>2, <2>1, FS_AddElement
  <2>3. Cardinality(Upto(i + 1)) = Cardinality(Upto(i)) + 1
    BY <2>1, <2>2, Zenon
  <2>4. Cardinality(Upto(i)) \in Nat
    BY <1>2
  <2>5. Cardinality(Upto(i + 1)) = n
    BY <1>6, <2>3, <2>4
  <2>6. QED
    BY <1>7, <2>5 DEF Nth
<1>8. CASE i + 1 \notin places
  <2>1. Upto(i + 1) = Upto(i)
    <3>1. \A j \in places : j <= i + 1 <=> j <= i
      BY <1>0, <1>8
    <3>2. {j \in places : j <= i + 1} = {j \in places : j <= i}
      BY <3>1
    <3>3. QED
      BY <3>2
  <2>2. Cardinality(Upto(i + 1)) = Cardinality(Upto(i))
    BY <2>1, Zenon
  <2>3. QED
    BY <1>6, <2>2
<1>9. QED
  BY <1>7, <1>8

LEMMA OfferShape ==
  ASSUME offer \in Offers, NEW c \in Category
  PROVE  /\ offer[c] \in Seq(StoredRecord) /\ Limit[c] \in Nat
         /\ Len(offer[c]) \in Nat /\ DOMAIN offer[c] = 1 .. Len(offer[c])
         /\ IsFiniteSet(DOMAIN offer[c])
<1>1. offer[c] \in Seq(StoredRecord) /\ Limit[c] \in Nat
  BY ContextAssumption
<1> DEFINE records == offer[c]
<1> HIDE DEF records
<1>2. records \in Seq(StoredRecord)
  BY <1>1 DEF records
<1>3. Len(records) \in Nat /\ DOMAIN records = 1 .. Len(records)
  BY <1>2
<1>4. IsFiniteSet(DOMAIN records)
  BY <1>3, FS_Interval
<1>5. QED
  BY <1>1, <1>3, <1>4 DEF records

LEMMA RankedShape ==
  ASSUME offer \in Offers, NEW c \in Category
  PROVE  /\ Ranked(c) \in Seq(Nat) /\ Len(Ranked(c)) <= Limit[c]
         /\ LeftOut(c) \in Nat /\ OverLimit(c) \in Nat /\ Cardinality(Fetched(c)) \in Nat
         /\ Len(Ranked(c)) + LeftOut(c) = Cardinality(Fetched(c))
<1> DEFINE records == offer[c]
           read == Cardinality(Fetched(c))
           many == Cardinality(Relevant(c))
           limit == Limit[c]
           kept == Min({many, limit})
           over == Max({0, many - limit})
<1>1. /\ records \in Seq(StoredRecord) /\ limit \in Nat
      /\ Len(records) \in Nat /\ DOMAIN records = 1 .. Len(records)
  BY OfferShape
<1>2. Relevant(c) \in SUBSET Fetched(c) /\ Fetched(c) \in SUBSET (1 .. Len(records))
  BY <1>1 DEF Relevant, Fetched
<1>3. many \in Nat /\ read \in Nat /\ many <= read
  <2>1. IsFiniteSet(Fetched(c))
    <3>1. IsFiniteSet(1 .. Len(records))
      BY <1>1, FS_Interval
    <3>2. QED
      BY <1>2, <3>1, FS_Subset
  <2>2. IsFiniteSet(Relevant(c)) /\ many <= read
    BY <1>2, <2>1, FS_Subset
  <2>3. QED
    BY <2>1, <2>2, FS_CardinalityType
<1>4. kept = IF many <= limit THEN many ELSE limit
  BY <1>1, <1>3 DEF Min
<1>5. over = IF many - limit > 0 THEN many - limit ELSE 0
  BY <1>1, <1>3 DEF Max
<1>6. Ranked(c) = [n \in 1 .. kept |-> records[Nth(Relevant(c), n)].length]
  BY DEF Ranked
<1>7. LeftOut(c) = read - many + over /\ OverLimit(c) = over
  BY DEF LeftOut, OverLimit
<1> HIDE DEF read, many, kept, over, limit
<1>8. kept \in Nat /\ kept <= many /\ kept <= limit /\ over \in Nat /\ kept + over = many
  BY <1>1, <1>3, <1>4, <1>5
<1>9. ASSUME NEW n \in 1 .. kept PROVE records[Nth(Relevant(c), n)].length \in Nat
  <2>1. n \in 1 .. Cardinality(Relevant(c))
    BY <1>3, <1>8 DEF many
  <2>2. Nth(Relevant(c), n) \in Relevant(c)
    BY <1>1, <1>2, <2>1, NthExists
  <2> DEFINE place == Nth(Relevant(c), n)
  <2>3. place \in 1 .. Len(records)
    BY <1>2, <2>2
  <2> HIDE DEF place, records
  <2>4. records[place] \in StoredRecord
    BY <1>1, <2>3, ElementOfSeq
  <2>5. QED
    BY <2>4 DEF place, StoredRecord
<1>10. Ranked(c) \in Seq(Nat) /\ Len(Ranked(c)) = kept
  <2>1. Ranked(c) \in [1 .. kept -> Nat]
    BY <1>6, <1>9
  <2>2. QED
    BY <1>8, <2>1
<1>11. read - many + over \in Nat /\ kept + (read - many + over) = read
  BY <1>3, <1>8
<1>12. QED
  BY <1>3, <1>7, <1>8, <1>10, <1>11 DEF limit, read

(* A list of different records of some categories.                         *)
Part(list, categories) ==
  /\ list \in Seq(CandidateRecord)
  /\ \A i \in DOMAIN list : list[i].category \in categories
  /\ \A i, j \in DOMAIN list : list[i] = list[j] => i = j

LEMMA RecordsArePart ==
  ASSUME candidates \in [Category -> Seq(Nat)], NEW c \in Category
  PROVE  Part(Records(c), {c}) /\ Len(Records(c)) = Len(candidates[c])
<1>1. /\ candidates[c] \in Seq(Nat) /\ Len(candidates[c]) \in Nat
      /\ DOMAIN candidates[c] = 1 .. Len(candidates[c])
      /\ \A i \in 1 .. Len(candidates[c]) : candidates[c][i] \in Nat
  OBVIOUS
<1> DEFINE n == Len(candidates[c])
           F(i) == [category |-> c, index |-> i, length |-> candidates[c][i]]
<1>2. Records(c) = [i \in 1 .. n |-> F(i)]
  BY <1>1 DEF Records
<1>3. \A i \in 1 .. n : /\ F(i) \in CandidateRecord
                        /\ F(i).category = c /\ F(i).index = i
  BY <1>1 DEF CandidateRecord
<1> HIDE DEF F
<1>4. Records(c) \in Seq(CandidateRecord) /\ Len(Records(c)) = n /\ DOMAIN Records(c) = 1 .. n
  BY <1>1, <1>2, <1>3
<1>5. \A i \in 1 .. n : Records(c)[i] = F(i)
  BY <1>2
<1>6. QED
  BY <1>3, <1>4, <1>5 DEF Part

LEMMA JoinedParts ==
  ASSUME NEW s, NEW A, Part(s, A), NEW t, NEW B, Part(t, B), A \cap B = {}
  PROVE  Part(s \o t, A \cup B) /\ Len(s \o t) = Len(s) + Len(t)
<1> DEFINE both == s \o t
<1>1. /\ s \in Seq(CandidateRecord) /\ Len(s) \in Nat /\ DOMAIN s = 1 .. Len(s)
      /\ t \in Seq(CandidateRecord) /\ Len(t) \in Nat /\ DOMAIN t = 1 .. Len(t)
  BY DEF Part
<1>2. /\ both \in Seq(CandidateRecord) /\ Len(both) = Len(s) + Len(t)
      /\ DOMAIN both = 1 .. Len(s) + Len(t)
      /\ \A i \in 1 .. Len(s) + Len(t) :
           both[i] = IF i <= Len(s) THEN s[i] ELSE t[i - Len(s)]
  BY <1>1
<1> HIDE DEF both
<1>3. ASSUME NEW i \in DOMAIN both
      PROVE  /\ i <= Len(s) => i \in DOMAIN s /\ both[i] = s[i] /\ both[i].category \in A
             /\ i > Len(s) => /\ i - Len(s) \in DOMAIN t /\ both[i] = t[i - Len(s)]
                              /\ both[i].category \in B
  <2>1. CASE i <= Len(s)
    <3>1. i \in DOMAIN s /\ both[i] = s[i]
      BY <1>1, <1>2, <2>1
    <3>2. QED
      BY <1>1, <2>1, <3>1 DEF Part
  <2>2. CASE i > Len(s)
    <3>1. i - Len(s) \in DOMAIN t /\ both[i] = t[i - Len(s)]
      BY <1>1, <1>2, <2>2
    <3>2. both[i].category \in B
      BY <3>1 DEF Part
    <3>3. QED
      BY <1>1, <1>2, <2>2, <3>1, <3>2
  <2>3. QED
    BY <1>1, <1>2, <2>1, <2>2
<1>4. \A i \in DOMAIN both : both[i].category \in A \cup B
  BY <1>1, <1>2, <1>3
<1>5. ASSUME NEW i \in DOMAIN both, NEW j \in DOMAIN both, both[i] = both[j] PROVE i = j
  <2>1. CASE i <= Len(s) /\ j <= Len(s)
    BY <1>3, <1>5, <2>1 DEF Part
  <2>2. CASE i > Len(s) /\ j > Len(s)
    <3>1. i - Len(s) = j - Len(s)
      BY <1>3, <1>5, <2>2 DEF Part
    <3>2. QED
      BY <1>1, <1>2, <3>1
  <2>3. CASE i <= Len(s) /\ j > Len(s)
    <3>1. both[i].category \in A /\ both[j].category \in B
      BY <1>3, <2>3
    <3>2. QED
      BY <1>5, <3>1
  <2>4. CASE i > Len(s) /\ j <= Len(s)
    <3>1. both[i].category \in B /\ both[j].category \in A
      BY <1>3, <2>4
    <3>2. QED
      BY <1>5, <3>1
  <2>5. QED
    BY <1>1, <1>2, <2>1, <2>2, <2>3, <2>4
<1>6. QED
  BY <1>2, <1>4, <1>5 DEF Part, both

LEMMA QueueIsPart ==
  ASSUME candidates \in [Category -> Seq(Nat)]
  PROVE  /\ Part(Queue, Category)
         /\ Len(Queue) = Len(candidates["facts"]) + Len(candidates["active_goals"])
                           + Len(candidates["established"]) + Len(candidates["memories"])
                           + Len(candidates["provisional"]) + Len(candidates["terminal_goals"])
<1> DEFINE two == Records("facts") \o Records("active_goals")
           three == two \o Records("established")
           four == three \o Records("memories")
           five == four \o Records("provisional")
           six == five \o Records("terminal_goals")
           A == {"facts"} \cup {"active_goals"}
           B == A \cup {"established"}
           C == B \cup {"memories"}
           D == C \cup {"provisional"}
<1>1. \A c \in Category : Part(Records(c), {c}) /\ Len(Records(c)) = Len(candidates[c])
  BY RecordsArePart
<1>2. {"facts", "active_goals", "established", "memories", "provisional", "terminal_goals"}
        = Category
  BY DEF Category
<1>3. /\ {"facts"} \cap {"active_goals"} = {} /\ A \cap {"established"} = {}
      /\ B \cap {"memories"} = {} /\ C \cap {"provisional"} = {}
      /\ D \cap {"terminal_goals"} = {} /\ Category = D \cup {"terminal_goals"}
  BY DEF Category
<1> HIDE DEF two, three, four, five, six, A, B, C, D
<1>4. /\ Part(Records("facts"), {"facts"}) /\ Part(Records("active_goals"), {"active_goals"})
      /\ Part(Records("established"), {"established"})
      /\ Part(Records("memories"), {"memories"})
      /\ Part(Records("provisional"), {"provisional"})
      /\ Part(Records("terminal_goals"), {"terminal_goals"})
  BY <1>1, <1>2
<1>5. /\ Len(Records("facts")) = Len(candidates["facts"])
      /\ Len(Records("active_goals")) = Len(candidates["active_goals"])
      /\ Len(Records("established")) = Len(candidates["established"])
      /\ Len(Records("memories")) = Len(candidates["memories"])
      /\ Len(Records("provisional")) = Len(candidates["provisional"])
      /\ Len(Records("terminal_goals")) = Len(candidates["terminal_goals"])
  BY <1>1, <1>2
<1>6. Part(two, A) /\ Len(two) = Len(candidates["facts"]) + Len(candidates["active_goals"])
  <2>1. /\ Part(Records("facts") \o Records("active_goals"), {"facts"} \cup {"active_goals"})
        /\ Len(Records("facts") \o Records("active_goals"))
             = Len(Records("facts")) + Len(Records("active_goals"))
    BY <1>4, JoinedParts
  <2>2. QED
    BY <1>5, <2>1 DEF two, A
<1>7. Part(three, B) /\ Len(three) = Len(two) + Len(candidates["established"])
  <2>1. /\ Part(two \o Records("established"), A \cup {"established"})
        /\ Len(two \o Records("established")) = Len(two) + Len(Records("established"))
    <3>1. Part(two, A) /\ Part(Records("established"), {"established"}) /\ A \cap {"established"} = {}
      BY <1>3, <1>4, <1>6
    <3>2. QED
      BY <3>1, JoinedParts, Zenon
  <2>2. QED
    BY <1>5, <2>1 DEF three, B
<1>8. Part(four, C) /\ Len(four) = Len(three) + Len(candidates["memories"])
  <2>1. /\ Part(three \o Records("memories"), B \cup {"memories"})
        /\ Len(three \o Records("memories")) = Len(three) + Len(Records("memories"))
    <3>1. Part(three, B) /\ Part(Records("memories"), {"memories"}) /\ B \cap {"memories"} = {}
      BY <1>3, <1>4, <1>7
    <3>2. QED
      BY <3>1, JoinedParts, Zenon
  <2>2. QED
    BY <1>5, <2>1 DEF four, C
<1>9. Part(five, D) /\ Len(five) = Len(four) + Len(candidates["provisional"])
  <2>1. /\ Part(four \o Records("provisional"), C \cup {"provisional"})
        /\ Len(four \o Records("provisional")) = Len(four) + Len(Records("provisional"))
    <3>1. Part(four, C) /\ Part(Records("provisional"), {"provisional"}) /\ C \cap {"provisional"} = {}
      BY <1>3, <1>4, <1>8
    <3>2. QED
      BY <3>1, JoinedParts, Zenon
  <2>2. QED
    BY <1>5, <2>1 DEF five, D
<1>10. Part(six, Category) /\ Len(six) = Len(five) + Len(candidates["terminal_goals"])
  <2>1. /\ Part(five \o Records("terminal_goals"), D \cup {"terminal_goals"})
        /\ Len(five \o Records("terminal_goals")) = Len(five) + Len(Records("terminal_goals"))
    <3>1. Part(five, D) /\ Part(Records("terminal_goals"), {"terminal_goals"}) /\ D \cap {"terminal_goals"} = {}
      BY <1>3, <1>4, <1>9
    <3>2. QED
      BY <3>1, JoinedParts, Zenon
  <2>2. QED
    BY <1>3, <1>5, <2>1 DEF six
<1>12. Queue = six
  BY DEF Queue, six, five, four, three, two
<1>13. Part(Queue, Category)
  BY <1>10, <1>12
<1>14. Len(Queue) = Len(candidates["facts"]) + Len(candidates["active_goals"])
                      + Len(candidates["established"]) + Len(candidates["memories"])
                      + Len(candidates["provisional"]) + Len(candidates["terminal_goals"])
  BY <1>6, <1>7, <1>8, <1>9, <1>10, <1>12
<1>15. QED
  BY <1>13, <1>14

-----------------------------------------------------------------------------
(* Packing, of a list out of the first n records of a queue.               *)

Place(q, record) == CHOOSE i \in DOMAIN q : q[i] = record

Begins(list, q, n) == n <= Len(list) /\ \A j \in 1 .. n : list[j] = q[j]

Ordered(list, q, n) ==
  /\ \A i \in DOMAIN list : /\ Place(q, list[i]) \in 1 .. n
                            /\ q[Place(q, list[i])] = list[i]
  /\ \A i, j \in DOMAIN list : i < j => Place(q, list[i]) < Place(q, list[j])

(* A record that is missing although all above it are there has no room.   *)
NoRoomAt(i, list, q, count, why) ==
  q[i] \notin Range(list) /\ Begins(list, q, i - 1) =>
    ~Fits(Append(SubSeq(q, 1, i - 1), q[i]), count, why)

Packing(q, n, list, count, why) ==
  /\ Part(q, Category) /\ n \in Nat /\ n <= Len(q)
  /\ list \in Seq(CandidateRecord)
  /\ count \in [Counter -> Nat] /\ why \in SUBSET Reason
  /\ Ordered(list, q, n)
  /\ \A i \in 1 .. n : NoRoomAt(i, list, q, count, why)
  /\ "budget_exceeded" \in why <=> {q[i] : i \in 1 .. n} \ Range(list) # {}

LEMMA PlaceIsFound ==
  ASSUME NEW q, NEW categories, Part(q, categories), NEW i \in 1 .. Len(q)
  PROVE  Place(q, q[i]) = i
<1>1. DOMAIN q = 1 .. Len(q)
  BY DEF Part
<1>2. \A j \in DOMAIN q : q[j] = q[i] => j = i
  BY <1>1 DEF Part
<1>3. QED
  BY <1>1, <1>2 DEF Place

LEMMA PackingTypes ==
  ASSUME NEW q, NEW n, NEW list, NEW count, NEW why, Packing(q, n, list, count, why)
  PROVE  /\ q \in Seq(CandidateRecord) /\ Len(q) \in Nat /\ DOMAIN q = 1 .. Len(q)
         /\ \A i, j \in 1 .. Len(q) : q[i] = q[j] => i = j
         /\ \A i \in 1 .. Len(q) : q[i] \in CandidateRecord /\ q[i].category \in Counter
         /\ \A i \in 1 .. Len(q) : Place(q, q[i]) = i
         /\ n \in Nat /\ n <= Len(q)
         /\ list \in Seq(CandidateRecord) /\ Len(list) \in Nat /\ DOMAIN list = 1 .. Len(list)
         /\ \A i \in 1 .. Len(list) : /\ list[i] \in CandidateRecord
                                      /\ list[i].category \in Counter
         /\ count \in [Counter -> Nat] /\ why \in SUBSET Reason
<1>1. Part(q, Category)
  BY DEF Packing
<1>2. q \in Seq(CandidateRecord) /\ Len(q) \in Nat /\ DOMAIN q = 1 .. Len(q)
  BY <1>1 DEF Part
<1>3. list \in Seq(CandidateRecord) /\ Len(list) \in Nat /\ DOMAIN list = 1 .. Len(list)
  <2>1. list \in Seq(CandidateRecord)
    BY DEF Packing
  <2>2. QED
    BY <2>1
<1>4. \A record \in CandidateRecord : record.category \in Counter
  BY DEF CandidateRecord, Counter
<1>5. \A i \in 1 .. Len(q) : q[i] \in CandidateRecord
  BY <1>2, ElementOfSeq
<1>6. \A i \in 1 .. Len(list) : list[i] \in CandidateRecord
  BY <1>3, ElementOfSeq
<1>7. \A i \in 1 .. Len(q) : Place(q, q[i]) = i
  BY <1>1, PlaceIsFound
<1>8. \A i, j \in 1 .. Len(q) : q[i] = q[j] => i = j
  BY <1>1, <1>2 DEF Part
<1>9. n \in Nat /\ n <= Len(q) /\ count \in [Counter -> Nat] /\ why \in SUBSET Reason
  BY DEF Packing
<1>10. QED
  BY <1>2, <1>3, <1>4, <1>5, <1>6, <1>7, <1>8, <1>9

LEMMA PackingOrder ==
  ASSUME NEW q, NEW n, NEW list, NEW count, NEW why, Packing(q, n, list, count, why)
  PROVE  /\ \A i \in 1 .. Len(list) : Place(q, list[i]) \in 1 .. n
         /\ \A i \in 1 .. Len(list) : q[Place(q, list[i])] = list[i]
         /\ \A i, j \in 1 .. Len(list) : i < j => Place(q, list[i]) < Place(q, list[j])
<1>1. Ordered(list, q, n)
  BY DEF Packing
<1>2. DOMAIN list = 1 .. Len(list)
  BY PackingTypes
<1>3. QED
  BY <1>1, <1>2 DEF Ordered

LEMMA PackingBegins ==
  ASSUME NEW q, Part(q, Category), NEW count \in [Counter -> Nat],
         NEW why \in SUBSET Reason, "budget_exceeded" \notin why
  PROVE  Packing(q, 0, <<>>, count, why)
<1>1. 1 .. 0 = {} /\ DOMAIN <<>> = {} /\ <<>> \in Seq(CandidateRecord)
  OBVIOUS
<1>2. Len(q) \in Nat
  BY DEF Part
<1>3. Ordered(<<>>, q, 0)
  BY <1>1 DEF Ordered
<1>4. {q[i] : i \in 1 .. 0} = {}
  BY <1>1
<1>5. QED
  BY <1>1, <1>2, <1>3, <1>4 DEF Packing

(* A list that begins with all that was considered is nothing else.        *)
LEMMA AllHeld ==
  ASSUME NEW q, NEW n, NEW list, NEW count, NEW why, Packing(q, n, list, count, why),
         NEW m \in Nat, m <= n, Begins(list, q, m),
         \A i \in 1 .. Len(list) : Place(q, list[i]) <= m
  PROVE  list = SubSeq(q, 1, m)
<1>1. /\ q \in Seq(CandidateRecord) /\ Len(q) \in Nat /\ n \in Nat /\ n <= Len(q)
      /\ list \in Seq(CandidateRecord) /\ Len(list) \in Nat /\ DOMAIN list = 1 .. Len(list)
      /\ \A i \in 1 .. Len(q) : Place(q, q[i]) = i
  BY PackingTypes
<1>2. m <= Len(list) /\ \A j \in 1 .. m : list[j] = q[j]
  BY DEF Begins
<1>3. /\ \A i \in 1 .. Len(list) : Place(q, list[i]) \in 1 .. n
      /\ \A i, j \in 1 .. Len(list) : i < j => Place(q, list[i]) < Place(q, list[j])
  BY PackingOrder
<1>4. Len(list) = m
  <2>0. Len(list) \in Nat /\ m <= Len(list)
    BY <1>1, <1>2
  <2>1. SUFFICES ASSUME m + 1 <= Len(list) PROVE FALSE
    BY <2>0
  <2> DEFINE r == Place(q, list[m + 1])
  <2>2. m + 1 \in 1 .. Len(list)
    BY <1>1, <2>1
  <2>3. r \in 1 .. n /\ r <= m
    BY <1>3, <2>2
  <2> HIDE DEF r
  <2>4. r \in 1 .. m /\ r \in 1 .. Len(list) /\ r \in 1 .. Len(q) /\ r < m + 1
    BY <1>1, <1>2, <2>3
  <2>5. list[r] = q[r] /\ Place(q, list[r]) = r
    BY <1>1, <1>2, <2>4
  <2>6. Place(q, list[r]) < Place(q, list[m + 1])
    BY <1>3, <2>2, <2>4
  <2>7. r < r
    BY <2>5, <2>6 DEF r
  <2>8. QED
    BY <2>4, <2>7
<1>5. /\ SubSeq(q, 1, m) \in Seq(CandidateRecord) /\ Len(SubSeq(q, 1, m)) = m
      /\ \A j \in 1 .. m : SubSeq(q, 1, m)[j] = q[j]
  BY <1>1
<1>6. \A j \in 1 .. m : list[j] = SubSeq(q, 1, m)[j]
  BY <1>2, <1>5
<1>7. QED
  BY <1>1, <1>4, <1>5, <1>6, SeqEqual

LEMMA PackingAccepts ==
  ASSUME NEW q, NEW n, NEW list, NEW count, NEW why, Packing(q, n, list, count, why),
         n < Len(q)
  PROVE  Packing(q, n + 1, Append(list, q[n + 1]), count, why)
<1> DEFINE record == q[n + 1]
           more == Append(list, record)
<1>1. /\ q \in Seq(CandidateRecord) /\ Len(q) \in Nat /\ n \in Nat
      /\ n + 1 \in Nat /\ n + 1 <= Len(q) /\ n + 1 \in 1 .. Len(q)
      /\ list \in Seq(CandidateRecord) /\ Len(list) \in Nat /\ DOMAIN list = 1 .. Len(list)
      /\ record \in CandidateRecord /\ Place(q, record) = n + 1
  BY PackingTypes
<1>2. \A i \in 1 .. n : i \in 1 .. Len(q) /\ q[i] # record
  BY <1>1, PackingTypes
<1> HIDE DEF record
<1>3. /\ more \in Seq(CandidateRecord) /\ Len(more) = Len(list) + 1
      /\ DOMAIN more = 1 .. Len(list) + 1
      /\ \A i \in 1 .. Len(list) : more[i] = list[i]
      /\ more[Len(list) + 1] = record
  BY <1>1
<1> HIDE DEF more
<1>4. Range(more) = Range(list) \cup {record}
  <2>1. Range(list) = {list[i] : i \in 1 .. Len(list)}
    BY <1>1 DEF Range
  <2>2. Range(more) = {more[i] : i \in 1 .. Len(list) + 1}
    BY <1>3 DEF Range
  <2>3. 1 .. Len(list) + 1 = (1 .. Len(list)) \cup {Len(list) + 1}
    BY <1>1
  <2>4. QED
    BY <1>3, <2>1, <2>2, <2>3
<1>5. /\ \A i \in 1 .. Len(list) : Place(q, list[i]) \in 1 .. n
      /\ \A i, j \in 1 .. Len(list) : i < j => Place(q, list[i]) < Place(q, list[j])
      /\ \A i \in 1 .. Len(list) : q[Place(q, list[i])] = list[i]
  BY PackingOrder
<1>6. \A i \in 1 .. Len(list) + 1 : i \in 1 .. Len(list) \/ i = Len(list) + 1
  BY <1>1
<1>7. Ordered(more, q, n + 1)
  <2>1. ASSUME NEW i \in 1 .. Len(list) + 1
        PROVE  Place(q, more[i]) \in 1 .. n + 1 /\ q[Place(q, more[i])] = more[i]
    <3>1. CASE i \in 1 .. Len(list)
      BY <1>1, <1>3, <1>5, <3>1
    <3>2. CASE i = Len(list) + 1
      <4>1. more[i] = record /\ Place(q, more[i]) = n + 1
        BY <1>1, <1>3, <3>2
      <4>2. QED
        BY <1>1, <4>1 DEF record
    <3>3. QED
      BY <1>6, <3>1, <3>2
  <2>2. ASSUME NEW i \in 1 .. Len(list) + 1, NEW j \in 1 .. Len(list) + 1, i < j
        PROVE  Place(q, more[i]) < Place(q, more[j])
    <3>1. i \in 1 .. Len(list) /\ more[i] = list[i] /\ Place(q, more[i]) \in 1 .. n
      BY <1>1, <1>3, <1>5, <1>6, <2>2
    <3>2. CASE j \in 1 .. Len(list)
      BY <1>3, <1>5, <2>2, <3>1, <3>2
    <3>3. CASE j = Len(list) + 1
      <4>1. Place(q, more[j]) = n + 1
        BY <1>1, <1>3, <3>3
      <4>2. QED
        BY <1>1, <3>1, <4>1
    <3>4. QED
      BY <1>6, <3>2, <3>3
  <2>3. QED
    BY <1>3, <2>1, <2>2 DEF Ordered
<1>8. ASSUME NEW i \in 1 .. n + 1 PROVE NoRoomAt(i, more, q, count, why)
  <2>1. SUFFICES ASSUME q[i] \notin Range(more), Begins(more, q, i - 1)
                 PROVE  ~Fits(Append(SubSeq(q, 1, i - 1), q[i]), count, why)
    BY DEF NoRoomAt
  <2>2. i # n + 1
    BY <1>4, <2>1 DEF record
  <2>3. i \in 1 .. n
    BY <1>1, <2>2
  <2>4. NoRoomAt(i, list, q, count, why)
    BY <2>3 DEF Packing
  <2>5. i - 1 <= Len(list) + 1 /\ \A j \in 1 .. i - 1 : more[j] = q[j]
    BY <1>3, <2>1 DEF Begins
  <2>6. i - 1 # Len(list) + 1
    <3>1. SUFFICES ASSUME i - 1 = Len(list) + 1 PROVE FALSE
      OBVIOUS
    <3>2. i - 1 \in 1 .. i - 1 /\ i - 1 \in 1 .. n
      BY <1>1, <2>3, <3>1
    <3>3. more[i - 1] = q[i - 1] /\ more[i - 1] = record
      BY <1>3, <2>5, <3>1, <3>2
    <3>4. QED
      BY <1>2, <3>2, <3>3
  <2>7. i - 1 <= Len(list)
    BY <1>1, <2>3, <2>5, <2>6
  <2>8. \A j \in 1 .. i - 1 : j \in 1 .. Len(list) /\ list[j] = q[j]
    BY <1>1, <1>3, <2>3, <2>5, <2>7
  <2>9. Begins(list, q, i - 1)
    BY <2>7, <2>8 DEF Begins
  <2>10. QED
    BY <1>4, <2>1, <2>4, <2>9 DEF NoRoomAt
<1>9. {q[i] : i \in 1 .. n + 1} \ Range(more) = {q[i] : i \in 1 .. n} \ Range(list)
  <2>1. 1 .. n + 1 = (1 .. n) \cup {n + 1}
    BY <1>1
  <2>2. {q[i] : i \in 1 .. n + 1} = {q[i] : i \in 1 .. n} \cup {record}
    BY <2>1 DEF record
  <2>3. record \notin {q[i] : i \in 1 .. n}
    BY <1>2
  <2>4. QED
    BY <1>4, <2>2, <2>3
<1>10. "budget_exceeded" \in why <=> {q[i] : i \in 1 .. n + 1} \ Range(more) # {}
  BY <1>9 DEF Packing
<1>11. Part(q, Category) /\ count \in [Counter -> Nat] /\ why \in SUBSET Reason
  BY DEF Packing
<1>12. QED
  BY <1>1, <1>3, <1>7, <1>8, <1>10, <1>11 DEF Packing, more, record

LEMMA PackingRefuses ==
  ASSUME NEW q, NEW n, NEW list, NEW count, NEW why, Packing(q, n, list, count, why),
         n < Len(q), ~Fits(Append(list, q[n + 1]), count, why)
  PROVE  Packing(q, n + 1, list, [count EXCEPT ![q[n + 1].category] = @ + 1],
                 why \cup {"budget_exceeded"})
<1> DEFINE record == q[n + 1]
           more == [count EXCEPT ![record.category] = @ + 1]
           why2 == why \cup {"budget_exceeded"}
<1>1. /\ q \in Seq(CandidateRecord) /\ Len(q) \in Nat /\ n \in Nat
      /\ n + 1 \in Nat /\ n + 1 <= Len(q) /\ n + 1 \in 1 .. Len(q)
      /\ list \in Seq(CandidateRecord) /\ Len(list) \in Nat /\ DOMAIN list = 1 .. Len(list)
      /\ record \in CandidateRecord /\ Place(q, record) = n + 1
      /\ record.category \in Counter
      /\ count \in [Counter -> Nat] /\ why \in SUBSET Reason
  BY PackingTypes
<1>2. more \in [Counter -> Nat] /\ why2 \in SUBSET Reason
  BY <1>1, ReasonNames
<1>3. /\ \A i \in 1 .. Len(list) : Place(q, list[i]) \in 1 .. n
      /\ \A i, j \in 1 .. Len(list) : i < j => Place(q, list[i]) < Place(q, list[j])
      /\ \A i \in 1 .. Len(list) : q[Place(q, list[i])] = list[i]
  BY PackingOrder
<1>4. ASSUME NEW some \in Seq(CandidateRecord), ~Fits(some, count, why)
      PROVE  ~Fits(some, more, why2)
  BY <1>1, <1>4, NoRoomStays
<1>5. \A i \in 1 .. Len(q) :
        /\ Append(SubSeq(q, 1, i - 1), q[i]) \in Seq(CandidateRecord)
  <2> TAKE i \in 1 .. Len(q)
  <2>1. q[i] \in CandidateRecord
    BY <1>1, ElementOfSeq
  <2>2. SubSeq(q, 1, i - 1) \in Seq(CandidateRecord)
    <3>1. i - 1 \in Int /\ \A j \in 1 .. i - 1 : j \in 1 .. Len(q)
      BY <1>1
    <3>2. \A j \in 1 .. i - 1 : q[j] \in CandidateRecord
      BY <1>1, <3>1, ElementOfSeq
    <3>3. QED
      BY <1>1, <3>1, <3>2
  <2>3. QED
    BY <2>1, <2>2
<1> HIDE DEF record, more, why2
<1>6. Ordered(list, q, n + 1)
  <2>1. \A i \in 1 .. Len(list) : Place(q, list[i]) \in 1 .. n + 1
    BY <1>1, <1>3
  <2>2. QED
    BY <1>1, <1>3, <2>1 DEF Ordered
<1>7. ASSUME NEW i \in 1 .. n + 1 PROVE NoRoomAt(i, list, q, more, why2)
  <2>1. SUFFICES ASSUME q[i] \notin Range(list), Begins(list, q, i - 1)
                 PROVE  ~Fits(Append(SubSeq(q, 1, i - 1), q[i]), more, why2)
    BY DEF NoRoomAt
  <2>2. i \in 1 .. Len(q) /\ (i \in 1 .. n \/ i = n + 1)
    BY <1>1
  <2>3. CASE i \in 1 .. n
    <3>1. NoRoomAt(i, list, q, count, why)
      BY <2>3 DEF Packing
    <3>2. ~Fits(Append(SubSeq(q, 1, i - 1), q[i]), count, why)
      BY <2>1, <3>1 DEF NoRoomAt
    <3>3. QED
      BY <1>4, <1>5, <2>2, <3>2
  <2>4. CASE i = n + 1
    <3>1. i - 1 = n
      BY <1>1, <2>4
    <3>2. Begins(list, q, n)
      BY <2>1, <3>1, Zenon
    <3>3. /\ n \in Nat /\ n <= n
          /\ \A j \in 1 .. Len(list) : Place(q, list[j]) <= n
      BY <1>1, <1>3
    <3>4. list = SubSeq(q, 1, n)
      BY <3>2, <3>3, AllHeld, Zenon
    <3>5. Append(SubSeq(q, 1, i - 1), q[i]) = Append(list, q[n + 1])
      BY <2>4, <3>1, <3>4, Zenon
    <3>6. ~Fits(Append(SubSeq(q, 1, i - 1), q[i]), count, why)
      BY <3>5, Zenon
    <3>7. QED
      BY <1>4, <1>5, <2>2, <3>6
  <2>5. QED
    BY <2>2, <2>3, <2>4
<1>8. {q[i] : i \in 1 .. n + 1} \ Range(list) # {}
  <2>1. record \in {q[i] : i \in 1 .. n + 1}
    BY <1>1 DEF record
  <2>2. ASSUME NEW i \in 1 .. Len(list) PROVE list[i] # record
    BY <1>1, <1>3
  <2>3. record \notin Range(list)
    BY <1>1, <2>2 DEF Range
  <2>4. QED
    BY <2>1, <2>3
<1>9. Part(q, Category)
  BY DEF Packing
<1>10. "budget_exceeded" \in why2
  BY DEF why2
<1>11. Packing(q, n + 1, list, more, why2)
  BY <1>1, <1>2, <1>6, <1>7, <1>8, <1>9, <1>10 DEF Packing
<1>12. QED
  BY <1>11 DEF more, why2, record

LEMMA FrontIsShorter ==
  ASSUME NEW s \in Seq(CandidateRecord), s # <<>>
  PROVE  Len(Front(s)) = Len(s) - 1
<1> DEFINE m == Len(s)
<1>1. m \in Nat
  OBVIOUS
<1>2. m >= 1 /\ m - 1 \in Nat
  BY <1>1
<1>3. \A i \in 1 .. m - 1 : s[i] \in CandidateRecord
  <2>1. \A i \in 1 .. m - 1 : i \in 1 .. Len(s)
    BY <1>1, <1>2
  <2>2. QED
    BY <2>1, ElementOfSeq
<1> DEFINE k == m - 1
<1>4. k \in Int /\ 1 \in Int /\ k >= 0 /\ \A i \in 1 .. k : s[i] \in CandidateRecord
  BY <1>2, <1>3
<1> HIDE DEF k
<1>5. Len(SubSeq(s, 1, k)) = IF 1 <= k THEN k - 1 + 1 ELSE 0
  BY <1>4, SubSeqProperties
<1>6. Len(SubSeq(s, 1, k)) = k
  BY <1>4, <1>5
<1>7. QED
  BY <1>6 DEF Front, k

LEMMA PackingSheds ==
  ASSUME NEW q, NEW n, NEW list, NEW count, NEW why, Packing(q, n, list, count, why),
         list # <<>>, ~Fits(list, count, why)
  PROVE  Packing(q, n, Front(list), [count EXCEPT ![Last(list).category] = @ + 1],
                 why \cup {"budget_exceeded"})
<1> DEFINE m == Len(list)
           record == list[m]
           rest == SubSeq(list, 1, m - 1)
           more == [count EXCEPT ![record.category] = @ + 1]
           why2 == why \cup {"budget_exceeded"}
<1>1. /\ q \in Seq(CandidateRecord) /\ Len(q) \in Nat /\ n \in Nat /\ n <= Len(q)
      /\ DOMAIN q = 1 .. Len(q) /\ \A i \in 1 .. Len(q) : Place(q, q[i]) = i
      /\ \A i, j \in 1 .. Len(q) : q[i] = q[j] => i = j
      /\ list \in Seq(CandidateRecord) /\ m \in Nat /\ DOMAIN list = 1 .. m
      /\ count \in [Counter -> Nat] /\ why \in SUBSET Reason
  BY PackingTypes
<1>2. m >= 1 /\ m - 1 \in Nat /\ m \in 1 .. m
  BY <1>1
<1>3. record \in CandidateRecord /\ record.category \in Counter
  BY <1>2, PackingTypes
<1>4. /\ \A i \in 1 .. m : Place(q, list[i]) \in 1 .. n
      /\ \A i, j \in 1 .. m : i < j => Place(q, list[i]) < Place(q, list[j])
      /\ \A i \in 1 .. m : q[Place(q, list[i])] = list[i]
  BY PackingOrder
<1>5. more \in [Counter -> Nat] /\ why2 \in SUBSET Reason
  BY <1>1, <1>3, ReasonNames
<1>6. ASSUME NEW some \in Seq(CandidateRecord), ~Fits(some, count, why)
      PROVE  ~Fits(some, more, why2)
  BY <1>1, <1>3, <1>6, NoRoomStays
<1> HIDE DEF m, more, why2
<1>7. /\ rest \in Seq(CandidateRecord) /\ Len(rest) = m - 1 /\ DOMAIN rest = 1 .. m - 1
      /\ \A i \in 1 .. m - 1 : rest[i] = list[i] /\ i \in 1 .. m
  BY <1>1, <1>2 DEF m
<1> HIDE DEF rest, record
<1>8. ~Fits(Append(rest, record), count, why) /\ Append(rest, record) \in Seq(CandidateRecord)
  <2>1. list = Append(rest, record)
    <3>1. /\ Append(rest, record) \in Seq(CandidateRecord)
          /\ Len(Append(rest, record)) = m
          /\ Append(rest, record)[m] = record
          /\ \A i \in 1 .. m - 1 : Append(rest, record)[i] = list[i]
      BY <1>1, <1>2, <1>3, <1>7
    <3>2. \A i \in 1 .. m : i \in 1 .. m - 1 \/ i = m
      BY <1>1, <1>2
    <3>3. \A i \in 1 .. m : Append(rest, record)[i] = list[i]
      BY <3>1, <3>2 DEF record
    <3>4. QED
      BY <1>1, <3>1, <3>3, SeqEqual DEF m
  <2>2. QED
    BY <1>1, <2>1, Zenon
<1>9. Ordered(rest, q, n)
  BY <1>4, <1>7 DEF Ordered
<1>10. /\ record \notin Range(rest) /\ record \in {q[i] : i \in 1 .. n}
       /\ Range(list) = Range(rest) \cup {record}
  <2>1. ASSUME NEW i \in 1 .. m - 1 PROVE rest[i] # record
    <3>1. i \in 1 .. m /\ i < m /\ rest[i] = list[i]
      BY <1>1, <1>7
    <3>2. Place(q, list[i]) < Place(q, list[m]) /\ Place(q, list[i]) \in Int
      BY <1>2, <1>4, <3>1
    <3>3. QED
      BY <3>1, <3>2 DEF record
  <2>2. record \in {q[i] : i \in 1 .. n}
    BY <1>2, <1>4 DEF record
  <2>3. Range(rest) = {rest[i] : i \in 1 .. m - 1} /\ Range(list) = {list[i] : i \in 1 .. m}
    BY <1>1, <1>7 DEF Range
  <2>4. 1 .. m = (1 .. m - 1) \cup {m}
    BY <1>1, <1>2
  <2>5. {list[i] : i \in 1 .. m} = {rest[i] : i \in 1 .. m - 1} \cup {record}
    BY <1>7, <2>4 DEF record
  <2>6. QED
    BY <2>1, <2>2, <2>3, <2>5
<1>11. \A i \in 1 .. Len(q) : Append(SubSeq(q, 1, i - 1), q[i]) \in Seq(CandidateRecord)
  <2> TAKE i \in 1 .. Len(q)
  <2>1. q[i] \in CandidateRecord
    BY <1>1, ElementOfSeq
  <2>2. SubSeq(q, 1, i - 1) \in Seq(CandidateRecord)
    <3>1. i - 1 \in Int /\ \A j \in 1 .. i - 1 : j \in 1 .. Len(q)
      BY <1>1
    <3>2. \A j \in 1 .. i - 1 : q[j] \in CandidateRecord
      BY <1>1, <3>1, ElementOfSeq
    <3>3. QED
      BY <1>1, <3>1, <3>2
  <2>3. QED
    BY <2>1, <2>2
<1>12. ASSUME NEW i \in 1 .. n PROVE NoRoomAt(i, rest, q, more, why2)
  <2>1. SUFFICES ASSUME q[i] \notin Range(rest), Begins(rest, q, i - 1)
                 PROVE  ~Fits(Append(SubSeq(q, 1, i - 1), q[i]), more, why2)
    BY DEF NoRoomAt
  <2>2. i \in 1 .. Len(q) /\ i \in Nat /\ i - 1 \in Nat /\ i - 1 <= n
    BY <1>1
  <2>3. i - 1 <= m - 1 /\ \A j \in 1 .. i - 1 : rest[j] = q[j]
    BY <1>7, <2>1 DEF Begins
  <2>4. CASE q[i] # record
    <3>1. \A j \in 1 .. i - 1 : j \in 1 .. m - 1
      BY <1>1, <2>2, <2>3
    <3>2. i - 1 <= m /\ \A j \in 1 .. i - 1 : list[j] = q[j]
      BY <1>1, <1>7, <2>2, <2>3, <3>1
    <3>3. Begins(list, q, i - 1)
      BY <3>2 DEF Begins, m
    <3>4. q[i] \notin Range(list)
      BY <1>10, <2>1, <2>4
    <3>5. NoRoomAt(i, list, q, count, why)
      BY DEF Packing
    <3>6. ~Fits(Append(SubSeq(q, 1, i - 1), q[i]), count, why)
      BY <3>3, <3>4, <3>5 DEF NoRoomAt
    <3>7. QED
      BY <1>6, <1>11, <2>2, <3>6
  <2>5. CASE q[i] = record
    <3>1. Place(q, list[m]) = i
      BY <1>1, <2>2, <2>5 DEF record
    <3>2. m - 1 = i - 1
      <4>1. SUFFICES ASSUME i <= m - 1 PROVE FALSE
        BY <1>1, <2>2, <2>3
      <4> DEFINE r == Place(q, list[i])
      <4>2. i \in 1 .. m - 1 /\ i \in 1 .. m /\ i < m
        BY <1>1, <2>2, <4>1
      <4>3. r < i /\ r \in 1 .. n /\ q[r] = list[i]
        BY <1>2, <1>4, <3>1, <4>2
      <4> HIDE DEF r
      <4>4. r \in 1 .. i - 1 /\ r \in 1 .. m - 1 /\ r \in 1 .. m /\ r \in 1 .. Len(q)
        BY <1>1, <2>2, <4>2, <4>3
      <4>5. list[r] = q[r]
        BY <1>7, <2>3, <4>4
      <4>6. Place(q, list[r]) < Place(q, list[i]) /\ Place(q, list[r]) = r
        BY <1>1, <1>4, <4>2, <4>3, <4>4, <4>5
      <4>7. r < r
        BY <4>6 DEF r
      <4>8. QED
        BY <4>4, <4>7
    <3>3. rest = SubSeq(q, 1, i - 1)
      <4>1. /\ SubSeq(q, 1, i - 1) \in Seq(CandidateRecord)
            /\ Len(SubSeq(q, 1, i - 1)) = i - 1
            /\ \A j \in 1 .. i - 1 : SubSeq(q, 1, i - 1)[j] = q[j]
        BY <1>1, <2>2
      <4>2. Len(rest) = i - 1 /\ \A j \in 1 .. i - 1 : rest[j] = SubSeq(q, 1, i - 1)[j]
        BY <1>7, <2>3, <3>2, <4>1
      <4>3. QED
        BY <1>7, <4>1, <4>2, SeqEqual
    <3>4. ~Fits(Append(SubSeq(q, 1, i - 1), q[i]), count, why)
      BY <1>8, <2>5, <3>3, Zenon
    <3>5. QED
      BY <1>6, <1>11, <2>2, <3>4
  <2>6. QED
    BY <2>4, <2>5
<1>13. {q[i] : i \in 1 .. n} \ Range(rest) # {}
  BY <1>10
<1>14. Part(q, Category) /\ "budget_exceeded" \in why2
  BY DEF Packing, why2
<1>15. Packing(q, n, rest, more, why2)
  BY <1>1, <1>5, <1>7, <1>9, <1>12, <1>13, <1>14 DEF Packing
<1>16. QED
  BY <1>15 DEF more, why2, record, rest, m, Front, Last

QueueLength ==
  Len(candidates["facts"]) + Len(candidates["active_goals"]) + Len(candidates["established"])
    + Len(candidates["memories"]) + Len(candidates["provisional"])
    + Len(candidates["terminal_goals"])

LEMMA QueueShape ==
  candidates \in [Category -> Seq(Nat)] => Part(Queue, Category) /\ Len(Queue) = QueueLength
BY QueueIsPart DEF QueueLength

LEMMA QueueShapeNext ==
  candidates' \in [Category -> Seq(Nat)] => Part(Queue', Category) /\ Len(Queue') = QueueLength'
<1>1. (candidates \in [Category -> Seq(Nat)]
         => Part(Queue, Category) /\ Len(Queue) = QueueLength)'
  BY QueueShape, PTL
<1>2. QED
  BY <1>1

-----------------------------------------------------------------------------
(* Reading.                                                                *)

LEMMA SourceNames ==
  /\ DOMAIN CategoriesOf = {"preferences", "facts", "goals", "memories"}
  /\ CategoriesOf["preferences"] = {"established", "provisional"}
  /\ CategoriesOf["facts"] = {"facts"}
  /\ CategoriesOf["goals"] = {"active_goals", "terminal_goals"}
  /\ CategoriesOf["memories"] = {"memories"}
  /\ NextSource["preferences"] = "facts" /\ NextSource["facts"] = "goals"
  /\ NextSource["goals"] = "memories" /\ NextSource["memories"] = "baseline"
  /\ Optional = {"facts", "goals", "memories"}
  /\ \A s \in Optional : FailureReason[s] \in Reason \ TruncationReasons
<1>1. DOMAIN CategoriesOf = {"preferences", "facts", "goals", "memories"}
  BY DEF CategoriesOf
<1>2. /\ CategoriesOf["preferences"] = {"established", "provisional"}
      /\ CategoriesOf["facts"] = {"facts"}
      /\ CategoriesOf["goals"] = {"active_goals", "terminal_goals"}
      /\ CategoriesOf["memories"] = {"memories"}
  BY DEF CategoriesOf
<1>3. /\ NextSource["preferences"] = "facts" /\ NextSource["facts"] = "goals"
      /\ NextSource["goals"] = "memories" /\ NextSource["memories"] = "baseline"
  BY DEF NextSource
<1>4. Optional = {"facts", "goals", "memories"}
  BY DEF Optional, FailureReason
<1>5. ASSUME NEW s \in Optional PROVE FailureReason[s] \in Reason \ TruncationReasons
  <2>1. /\ FailureReason["facts"] = "fact_context_omitted"
        /\ FailureReason["goals"] = "goal_context_omitted"
        /\ FailureReason["memories"] = "memory_context_omitted"
    BY DEF FailureReason
  <2> HIDE DEF FailureReason
  <2>2. QED
    BY <1>4, <2>1, ReasonNames DEF TruncationReasons
<1>6. QED
  BY <1>1, <1>2, <1>3, <1>4, <1>5

LEMMA SelectionCounters ==
  /\ \A c \in Category : SelectionCounter[c] \in Counter
  /\ \A c, d \in Category : SelectionCounter[c] = SelectionCounter[d] => c = d
<1>1. /\ SelectionCounter["facts"] = "facts"
      /\ SelectionCounter["active_goals"] = "active_goals"
      /\ SelectionCounter["established"] = "established_preferences"
      /\ SelectionCounter["memories"] = "memories"
      /\ SelectionCounter["provisional"] = "provisional_preferences"
      /\ SelectionCounter["terminal_goals"] = "terminal_goals"
  BY DEF SelectionCounter, Category
<1> HIDE DEF SelectionCounter
<1>2. QED
  BY <1>1, CounterNames DEF Category

(* What a source adds to a counter: what is left out of the category that  *)
(* the counter belongs to.                                                 *)
NotSelected(own, k) ==
  SumFunctionOnSet([c \in own |-> LeftOut(c)], {c \in own : SelectionCounter[c] = k})

Recounted(count, own) == [k \in Counter |-> count[k] + NotSelected(own, k)]

LEMMA NotSelectedIs ==
  ASSUME offer \in Offers, NEW own \in SUBSET Category
  PROVE  /\ \A c \in own : NotSelected(own, SelectionCounter[c]) = LeftOut(c)
         /\ \A k : (\A c \in own : SelectionCounter[c] # k) => NotSelected(own, k) = 0
<1> DEFINE f == [c \in own |-> LeftOut(c)]
           Sharing(k) == {c \in own : SelectionCounter[c] = k}
<1>1. \A c \in own : f[c] = LeftOut(c) /\ LeftOut(c) \in Int
  <2>1. \A c \in own : LeftOut(c) \in Int
    BY RankedShape
  <2>2. \A c \in own : f[c] = LeftOut(c)
    OBVIOUS
  <2>3. QED
    BY <2>1, <2>2
<1>2. \A k : NotSelected(own, k) = SumFunctionOnSet(f, Sharing(k))
  BY DEF NotSelected
<1> HIDE DEF f
<1>3. ASSUME NEW c \in own PROVE NotSelected(own, SelectionCounter[c]) = LeftOut(c)
  <2>1. Sharing(SelectionCounter[c]) = {} \cup {c}
    BY SelectionCounters
  <2>2. IsFiniteSet({}) /\ (\A x \in {} : f[x] \in Int) /\ f[c] \in Int /\ c \notin {}
    BY <1>1, FS_EmptySet
  <2>3. SumFunctionOnSet(f, {} \cup {c}) = SumFunctionOnSet(f, {}) + f[c]
    BY <2>2, SumInserted
  <2>4. SumFunctionOnSet(f, Sharing(SelectionCounter[c])) = SumFunctionOnSet(f, {} \cup {c})
    BY <2>1, Zenon
  <2>5. SumFunctionOnSet(f, {}) = 0
    BY SumOfNone
  <2>6. QED
    BY <1>1, <1>2, <2>3, <2>4, <2>5
<1>4. ASSUME NEW k, \A c \in own : SelectionCounter[c] # k PROVE NotSelected(own, k) = 0
  <2>1. Sharing(k) = {}
    BY <1>4
  <2>2. SumFunctionOnSet(f, Sharing(k)) = SumFunctionOnSet(f, {})
    BY <2>1, Zenon
  <2>3. QED
    BY <1>2, <2>2, SumOfNone
<1>5. QED
  BY <1>3, <1>4

(* What is read of a source: all its records, or ReadLimit of them.        *)
Numbers ==
  [s \in DOMAIN CategoriesOf |-> Min({Cardinality(Holdings(offer, s)), ReadLimit})]

FetchedOf(s) == {r \in Holdings(offer, s) : offer[r[1]][r[2]].place <= ReadLimit}

LEMMA PairsAreAsMany ==
  ASSUME NEW c, NEW S, IsFiniteSet(S)
  PROVE  /\ IsFiniteSet({<<c, i>> : i \in S})
         /\ Cardinality({<<c, i>> : i \in S}) = Cardinality(S)
<1> DEFINE T == {<<c, i>> : i \in S}
           f == [i \in S |-> <<c, i>>]
<1>1. f \in Bijection(S, T)
  <2>1. f \in [S -> T] /\ \A i, j \in S : f[i] = f[j] => i = j
    OBVIOUS
  <2>2. \A t \in T : \E i \in S : f[i] = t
    OBVIOUS
  <2> HIDE DEF f, T
  <2>3. QED
    BY <2>1, <2>2 DEF Bijection, Injection, Surjection, IsInjective
<1>2. QED
  BY <1>1, FS_Bijection DEF ExistsBijection

LEMMA OneCategoryRead ==
  ASSUME offer \in Offers, NEW s \in DOMAIN CategoriesOf, NEW a \in Category,
         CategoriesOf[s] = {a}
  PROVE  /\ IsFiniteSet(Holdings(offer, s))
         /\ Cardinality(FetchedOf(s)) = Cardinality(Fetched(a))
<1> DEFINE held == {<<a, i>> : i \in DOMAIN offer[a]}
           read == {<<a, i>> : i \in Fetched(a)}
<1>1. IsFiniteSet(DOMAIN offer[a]) /\ Fetched(a) \subseteq DOMAIN offer[a]
  BY OfferShape DEF Fetched
<1>2. IsFiniteSet(Fetched(a))
  BY <1>1, FS_Subset
<1>3. Holdings(offer, s) = held
  BY DEF Holdings
<1>4. FetchedOf(s) = read
  BY <1>3 DEF FetchedOf, Fetched
<1>5. IsFiniteSet(held) /\ Cardinality(read) = Cardinality(Fetched(a))
  BY <1>1, <1>2, PairsAreAsMany
<1>6. QED
  BY <1>3, <1>4, <1>5, Zenon

LEMMA TwoCategoriesRead ==
  ASSUME offer \in Offers, NEW s \in DOMAIN CategoriesOf,
         NEW a \in Category, NEW b \in Category, a # b, CategoriesOf[s] = {a, b}
  PROVE  /\ IsFiniteSet(Holdings(offer, s))
         /\ Cardinality(FetchedOf(s)) = Cardinality(Fetched(a)) + Cardinality(Fetched(b))
<1> DEFINE Held(c) == {<<c, i>> : i \in DOMAIN offer[c]}
           Seen(c) == {<<c, i>> : i \in Fetched(c)}
<1>1. \A c \in Category : /\ IsFiniteSet(DOMAIN offer[c])
                          /\ Fetched(c) \subseteq DOMAIN offer[c]
  BY OfferShape DEF Fetched
<1>2. \A c \in Category : IsFiniteSet(Fetched(c)) /\ Cardinality(Fetched(c)) \in Nat
  BY <1>1, FS_Subset, FS_CardinalityType
<1>3. Holdings(offer, s) = Held(a) \cup Held(b)
  BY DEF Holdings
<1>4. FetchedOf(s) = Seen(a) \cup Seen(b) /\ Seen(a) \cap Seen(b) = {}
  BY <1>3 DEF FetchedOf, Fetched
<1>5. \A c \in Category : /\ IsFiniteSet(Held(c)) /\ IsFiniteSet(Seen(c))
                          /\ Cardinality(Seen(c)) = Cardinality(Fetched(c))
  BY <1>1, <1>2, PairsAreAsMany
<1> HIDE DEF Held, Seen
<1>6. IsFiniteSet(Held(a) \cup Held(b))
  BY <1>5, FS_Union
<1>7. Cardinality(Seen(a) \cup Seen(b)) =
        Cardinality(Seen(a)) + Cardinality(Seen(b)) - Cardinality(Seen(a) \cap Seen(b))
  BY <1>5, FS_Union
<1>8. Cardinality(Seen(a) \cap Seen(b)) = 0
  BY <1>4, FS_EmptySet
<1>9. Cardinality(FetchedOf(s)) = Cardinality(Seen(a) \cup Seen(b))
  BY <1>4, Zenon
<1>10. QED
  BY <1>2, <1>3, <1>5, <1>6, <1>7, <1>8, <1>9

(* The places of a source's records are 1, 2, ... and none has two records:*)
(* those up to ReadLimit are so many records.                              *)
LEMMA SourceRead ==
  ASSUME offer \in Offers, NEW s \in DOMAIN CategoriesOf, IsFiniteSet(Holdings(offer, s))
  PROVE  Cardinality(FetchedOf(s)) = Numbers[s]
<1> DEFINE held == Holdings(offer, s)
           n == Cardinality(held)
           most == Min({n, ReadLimit})
           Spot(r) == offer[r[1]][r[2]].place
           f == [r \in held |-> Spot(r)]
           g == [r \in FetchedOf(s) |-> Spot(r)]
<1>1. n \in Nat /\ ReadLimit \in Nat
  BY FS_CardinalityType, ContextAssumption
<1>2. {Spot(r) : r \in held} = 1 .. n
  BY ContextAssumption
<1>3. Numbers[s] = most /\ FetchedOf(s) = {r \in held : Spot(r) <= ReadLimit}
  BY DEF Numbers, FetchedOf
<1>4. most = (IF n <= ReadLimit THEN n ELSE ReadLimit) /\ most \in Nat
  BY <1>1 DEF Min
<1> HIDE DEF held, n, most, Spot
<1>5. f \in Surjection(held, 1 .. n)
  BY <1>2 DEF Surjection
<1>6. IsFiniteSet(held) /\ Cardinality(held) = Cardinality(1 .. n)
  BY <1>1, FS_Interval DEF held, n
<1>7. f \in Injection(held, 1 .. n)
  <2> HIDE DEF f
  <2>1. QED
    BY <1>5, <1>6, FS_SurjSameCardinalityImpliesInj
<1>8. \A r, t \in held : Spot(r) = Spot(t) => r = t
  <2>1. \A r, t \in held : f[r] = f[t] => r = t
    BY <1>7 DEF Injection, IsInjective
  <2>2. QED
    BY <2>1
<1>9. g \in [FetchedOf(s) -> 1 .. most]
  <2>1. ASSUME NEW r \in FetchedOf(s) PROVE Spot(r) \in 1 .. most
    <3>1. r \in held /\ Spot(r) <= ReadLimit /\ Spot(r) \in 1 .. n
      BY <1>2, <1>3
    <3>2. QED
      BY <1>1, <1>4, <3>1
  <2>2. QED
    BY <2>1
<1>10. \A r, t \in FetchedOf(s) : g[r] = g[t] => r = t
  BY <1>3, <1>8
<1>11. \A i \in 1 .. most : \E r \in FetchedOf(s) : g[r] = i
  <2> TAKE i \in 1 .. most
  <2>1. i \in 1 .. n /\ i <= ReadLimit
    BY <1>1, <1>4
  <2>2. PICK r \in held : Spot(r) = i
    BY <1>2, <2>1
  <2>3. QED
    BY <1>3, <2>1, <2>2
<1> HIDE DEF g
<1>12. g \in Bijection(FetchedOf(s), 1 .. most)
  BY <1>9, <1>10, <1>11 DEF Bijection, Injection, Surjection, IsInjective
<1>13. IsFiniteSet(FetchedOf(s))
  BY <1>3, <1>6, FS_Subset
<1>14. Cardinality(FetchedOf(s)) = Cardinality(1 .. most)
  BY <1>12, <1>13, FS_Bijection DEF ExistsBijection
<1>15. QED
  BY <1>3, <1>4, <1>14, FS_Interval

LEMMA NumbersOfSources ==
  ASSUME offer \in Offers, NEW s \in DOMAIN CategoriesOf
  PROVE  /\ Numbers[s] \in Nat
         /\ \A a \in Category :
              CategoriesOf[s] = {a} => Numbers[s] = Cardinality(Fetched(a))
         /\ \A a, b \in Category : a # b /\ CategoriesOf[s] = {a, b} =>
              Numbers[s] = Cardinality(Fetched(a)) + Cardinality(Fetched(b))
<1>1. \A a \in Category :
        CategoriesOf[s] = {a} => Numbers[s] = Cardinality(Fetched(a))
  BY OneCategoryRead, SourceRead
<1>2. \A a, b \in Category : a # b /\ CategoriesOf[s] = {a, b} =>
        Numbers[s] = Cardinality(Fetched(a)) + Cardinality(Fetched(b))
  BY TwoCategoriesRead, SourceRead
<1>3. \A c \in Category : Cardinality(Fetched(c)) \in Nat
  BY RankedShape
<1>4. \/ \E a \in Category : CategoriesOf[s] = {a}
      \/ \E a, b \in Category : a # b /\ CategoriesOf[s] = {a, b}
  <2>1. /\ CategoriesOf["preferences"] = {"established", "provisional"}
        /\ CategoriesOf["facts"] = {"facts"}
        /\ CategoriesOf["goals"] = {"active_goals", "terminal_goals"}
        /\ CategoriesOf["memories"] = {"memories"}
        /\ s \in {"preferences", "facts", "goals", "memories"}
    BY SourceNames
  <2>2. /\ "established" \in Category /\ "provisional" \in Category /\ "facts" \in Category
        /\ "active_goals" \in Category /\ "terminal_goals" \in Category
        /\ "memories" \in Category
    BY DEF Category
  <2>3. QED
    BY <2>1, <2>2
<1>5. Numbers[s] \in Nat
  <2>1. CASE \E a \in Category : CategoriesOf[s] = {a}
    BY <1>1, <1>3, <2>1
  <2>2. CASE \E a, b \in Category : a # b /\ CategoriesOf[s] = {a, b}
    <3>1. PICK a \in Category, b \in Category : a # b /\ CategoriesOf[s] = {a, b}
      BY <2>2
    <3>2. QED
      BY <1>2, <1>3, <3>1
  <2>3. QED
    BY <1>4, <2>1, <2>2
<1>6. QED
  BY <1>1, <1>2, <1>5

LEMMA SourcesFinite == \A read \in SUBSET DOMAIN CategoriesOf : IsFiniteSet(read)
<1>1. IsFiniteSet(Category \cup {"goals"})
  BY CategoriesFinite, FS_AddElement
<1>2. IsFiniteSet((Category \cup {"goals"}) \cup {"preferences"})
  BY <1>1, FS_AddElement
<1>3. DOMAIN CategoriesOf \subseteq (Category \cup {"goals"}) \cup {"preferences"}
  BY SourceNames DEF Category
<1>4. QED
  BY <1>2, <1>3, FS_Subset

LEMMA SourceAdded ==
  ASSUME offer \in Offers, NEW read \in SUBSET DOMAIN CategoriesOf,
         NEW s \in DOMAIN CategoriesOf, s \notin read
  PROVE  SumFunctionOnSet(Numbers, read \cup {s}) = SumFunctionOnSet(Numbers, read) + Numbers[s]
<1>1. IsFiniteSet(read)
  BY SourcesFinite
<1>2. (\A x \in read : Numbers[x] \in Int) /\ Numbers[s] \in Int
  BY NumbersOfSources
<1>3. QED
  BY <1>1, <1>2, SumInserted

(* The counters when a source is selected from.                            *)
LEMMA CountsOfSelection ==
  ASSUME offer \in Offers, NEW own \in SUBSET Category, NEW count \in [Counter -> Nat]
  PROVE  Recounted(count, own) \in [Counter -> Nat]
<1>1. ASSUME NEW k \in Counter PROVE NotSelected(own, k) \in Nat
  <2>1. CASE \A c \in own : SelectionCounter[c] # k
    BY <2>1, NotSelectedIs
  <2>2. CASE \E c \in own : SelectionCounter[c] = k
    <3>1. PICK c \in own : SelectionCounter[c] = k
      BY <2>2
    <3>2. NotSelected(own, k) = LeftOut(c)
      BY <3>1, NotSelectedIs
    <3>3. LeftOut(c) \in Nat
      BY RankedShape
    <3>4. QED
      BY <3>2, <3>3
  <2>3. QED
    BY <2>1, <2>2
<1>2. QED
  BY <1>1 DEF Recounted

LEMMA CounterGrows ==
  ASSUME NEW count \in [Counter -> Nat], NEW more, NEW x \in Counter, NEW d \in Int,
         more[x] = count[x] + d, \A k \in Counter \ {x} : more[k] = count[k]
  PROVE  SumFunctionOnSet(more, Counter) = SumFunctionOnSet(count, Counter) + d
<1>1. \A k \in Counter : count[k] \in Int
  OBVIOUS
<1>2. QED
  BY <1>1, CountersFinite, SumBumped

LEMMA OneSelected ==
  ASSUME offer \in Offers, NEW count \in [Counter -> Nat], NEW more, NEW a \in Category,
         more = Recounted(count, {a})
  PROVE  SumFunction(more) = SumFunction(count) + LeftOut(a)
<1> DEFINE x == SelectionCounter[a]
<1>1. LeftOut(a) \in Int /\ x \in Counter
  <2>1. LeftOut(a) \in Int
    BY RankedShape
  <2>2. QED
    BY <2>1, SelectionCounters
<1>2. /\ NotSelected({a}, x) = LeftOut(a)
      /\ \A k \in Counter \ {x} : NotSelected({a}, k) = 0
  BY NotSelectedIs
<1> HIDE DEF x
<1>3. more[x] = count[x] + LeftOut(a) /\ \A k \in Counter \ {x} : more[k] = count[k]
  BY <1>1, <1>2 DEF Recounted
<1>4. DOMAIN more = Counter /\ DOMAIN count = Counter /\ \A k \in Counter : count[k] \in Int
  BY DEF Recounted
<1>5. SumFunctionOnSet(more, Counter) = SumFunctionOnSet(count, Counter) + LeftOut(a)
  <2> DEFINE d == LeftOut(a)
  <2>1. d \in Int /\ more[x] = count[x] + d
    BY <1>1, <1>3
  <2> HIDE DEF d
  <2>2. SumFunctionOnSet(more, Counter) = SumFunctionOnSet(count, Counter) + d
    <3>1. x \in Counter /\ \A k \in Counter \ {x} : more[k] = count[k]
      BY <1>1, <1>3
    <3>2. QED
      BY <2>1, <3>1, CounterGrows, Zenon
  <2>3. QED
    BY <2>2 DEF d
<1>6. QED
  BY <1>4, <1>5 DEF SumFunction

LEMMA TwoSelected ==
  ASSUME offer \in Offers, NEW count \in [Counter -> Nat], NEW more,
         NEW a \in Category, NEW b \in Category, a # b,
         more = Recounted(count, {a, b})
  PROVE  SumFunction(more) = SumFunction(count) + LeftOut(a) + LeftOut(b)
<1> DEFINE x == SelectionCounter[a]
           y == SelectionCounter[b]
<1>1. LeftOut(a) \in Int /\ LeftOut(b) \in Int /\ x \in Counter /\ y \in Counter /\ x # y
  <2>1. LeftOut(a) \in Int /\ LeftOut(b) \in Int
    BY RankedShape
  <2>2. QED
    BY <2>1, SelectionCounters
<1>2. /\ NotSelected({a, b}, x) = LeftOut(a) /\ NotSelected({a, b}, y) = LeftOut(b)
      /\ \A k \in Counter \ {x, y} : NotSelected({a, b}, k) = 0
  BY NotSelectedIs
<1> HIDE DEF x, y
<1>3. /\ more[x] = count[x] + LeftOut(a) /\ more[y] = count[y] + LeftOut(b)
      /\ \A k \in Counter \ {x, y} : more[k] = count[k]
  BY <1>1, <1>2 DEF Recounted
<1>4. DOMAIN more = Counter /\ DOMAIN count = Counter /\ \A k \in Counter : count[k] \in Int
  BY DEF Recounted
<1>5. SumFunctionOnSet(more, Counter)
        = SumFunctionOnSet(count, Counter) + LeftOut(a) + LeftOut(b)
  <2> DEFINE d == LeftOut(a)
             e == LeftOut(b)
  <2>1. d \in Int /\ e \in Int /\ more[x] = count[x] + d /\ more[y] = count[y] + e
    BY <1>1, <1>3
  <2> HIDE DEF d, e
  <2>2. SumFunctionOnSet(more, Counter) = SumFunctionOnSet(count, Counter) + d + e
    BY <1>1, <1>3, <1>4, <2>1, CountersFinite, SumBumpedTwice
  <2>3. QED
    BY <2>2 DEF d, e
<1>6. QED
  BY <1>4, <1>5 DEF SumFunction

-----------------------------------------------------------------------------
(* The invariant.                                                          *)

(* The sources that have been read, or could not be; the former; and the   *)
(* categories that these brought.                                          *)
Done ==
  IF pc \in {"preferences", "unavailable"} THEN {}
  ELSE IF pc = "facts" THEN {"preferences"}
  ELSE IF pc = "goals" THEN {"preferences", "facts"}
  ELSE IF pc = "memories" THEN {"preferences", "facts", "goals"}
  ELSE DOMAIN CategoriesOf

Sources == Done \ failed

Read == UNION {CategoriesOf[s] : s \in Sources}

(* How far the assembly has come.                                          *)
Progress ==
  /\ failed \subseteq Done
  /\ pc \in DOMAIN CategoriesOf \cup {"baseline", "unavailable"} =>
       considered = 0 /\ accepted = <<>>
  /\ pc \in {"shedding", "done"} => considered = Len(Queue)
  /\ pc = "done" => Fits(accepted, omitted, reasons)
  /\ \A c \in Category \ Read : candidates[c] = <<>>

(* Each record that was read of the sources is accepted, still to be       *)
(* tried, or counted, ...                                                  *)
Counted ==
  Len(accepted) + (Len(Queue) - considered) + SumFunction(omitted)
    = SumFunctionOnSet(Numbers, Sources) + Cardinality(failed)

(* ... and the reasons for truncation before packing are the true ones.    *)
Told ==
  /\ "source_limit" \in reasons <=> \E c \in Read : OverLimit(c) > 0
  /\ "record_oversized" \in reasons <=>
       \E c \in Read : \E i \in Fetched(c) : offer[c][i].fate = "oversized"

ContextInv ==
  /\ TypeOK /\ Progress /\ Counted /\ Told
  /\ Packing(Queue, considered, accepted, omitted, reasons)

LEMMA ReadIsCategories == Read \in SUBSET Category
<1>1. \A s \in DOMAIN CategoriesOf : CategoriesOf[s] \in SUBSET Category
  BY SourceNames DEF Category
<1>2. Done \subseteq DOMAIN CategoriesOf
  BY SourceNames DEF Done
<1>3. QED
  BY <1>1, <1>2 DEF Read, Sources

LEMMA LeftOutReasonsAre ==
  ASSUME NEW c
  PROVE  /\ LeftOutReasons(c) \subseteq Reason /\ "budget_exceeded" \notin LeftOutReasons(c)
         /\ "source_limit" \in LeftOutReasons(c) <=> OverLimit(c) > 0
         /\ "record_oversized" \in LeftOutReasons(c) <=>
              \E i \in Fetched(c) : offer[c][i].fate = "oversized"
<1> DEFINE fates == {offer[c][i].fate : i \in Fetched(c) \ Duplicates(c)}
<1>1. "oversized" \in fates <=> \E i \in Fetched(c) : offer[c][i].fate = "oversized"
  <2>1. \A i \in Duplicates(c) : offer[c][i].fate # "oversized"
    BY DEF Duplicates, Legible
  <2>2. QED
    BY <2>1
<1>2. LeftOutReasons(c) =
        (IF "irrelevant" \in fates THEN {"not_relevant"} ELSE {})
          \cup (IF "oversized" \in fates THEN {"record_oversized"} ELSE {})
          \cup (IF Duplicates(c) # {} THEN {"duplicate_record"} ELSE {})
          \cup (IF OverLimit(c) > 0 THEN {"source_limit"} ELSE {})
  BY DEF LeftOutReasons
<1> HIDE DEF fates
<1>3. LeftOutReasons(c) \subseteq Reason /\ "budget_exceeded" \notin LeftOutReasons(c)
  BY <1>2, ReasonNames
<1>4. "source_limit" \in LeftOutReasons(c) <=> OverLimit(c) > 0
  BY <1>2
<1>5. "record_oversized" \in LeftOutReasons(c) <=> "oversized" \in fates
  BY <1>2
<1>6. QED
  BY <1>1, <1>3, <1>4, <1>5

LEMMA InitContext == Init => ContextInv
<1> SUFFICES ASSUME Init PROVE ContextInv
  OBVIOUS
<1> USE DEF Init
<1>1. candidates \in [Category -> Seq(Nat)] /\ \A c \in Category : candidates[c] = <<>>
  OBVIOUS
<1>2. TypeOK
  <2>1. <<>> \in Seq([category : Category, index : Nat, length : Nat])
    OBVIOUS
  <2>2. \A c \in Category : Len(candidates[c]) <= Limit[c]
    BY <1>1, OfferShape
  <2>3. omitted \in [Counter -> Nat]
    OBVIOUS
  <2>4. QED
    BY <1>1, <2>1, <2>2, <2>3 DEF TypeOK, Phase
<1>3. Part(Queue, Category) /\ Len(Queue) = 0
  <2>1. Part(Queue, Category) /\ Len(Queue) = QueueLength
    BY <1>1, QueueShape
  <2>2. /\ Len(candidates["facts"]) = 0 /\ Len(candidates["active_goals"]) = 0
        /\ Len(candidates["established"]) = 0 /\ Len(candidates["memories"]) = 0
        /\ Len(candidates["provisional"]) = 0 /\ Len(candidates["terminal_goals"]) = 0
    BY <1>1 DEF Category
  <2> HIDE DEF Init
  <2>3. QueueLength = 0
    BY <2>2 DEF QueueLength
  <2>4. QED
    BY <2>1, <2>3
<1>4. Done = {} /\ Sources = {} /\ Read = {}
  BY DEF Done, Sources, Read
<1>5. Progress
  BY <1>1, <1>4 DEF Progress
<1>6. Counted
  <2>1. SumFunctionOnSet(Numbers, Sources) = 0
    BY <1>4, SumOfNone
  <2>2. SumFunction(omitted) = 0
    <3> DEFINE h == [s \in SUBSET Counter |-> 0]
    <3>1. Adds(h, omitted, Counter) /\ h[Counter] = 0
      BY DEF Adds
    <3> HIDE DEF h
    <3>2. SumFunctionOnSet(omitted, Counter) = 0
      BY <3>1, CountersFinite, SumIsAdded
    <3>3. DOMAIN omitted = Counter
      OBVIOUS
    <3>4. QED
      BY <3>2, <3>3 DEF SumFunction
  <2>3. Cardinality(failed) = 0
    BY FS_EmptySet
  <2>4. Len(accepted) = 0 /\ considered = 0
    OBVIOUS
  <2>5. QED
    BY <1>3, <2>1, <2>2, <2>3, <2>4 DEF Counted
<1>7. Told
  BY <1>4 DEF Told
<1>8. Packing(Queue, 0, <<>>, omitted, reasons)
  BY <1>2, <1>3, PackingBegins DEF TypeOK
<1>9. QED
  BY <1>2, <1>5, <1>6, <1>7, <1>8 DEF ContextInv

LEMMA ReadingAdvances ==
  ASSUME NEW source \in DOMAIN CategoriesOf, failed \subseteq Done,
         pc = source, pc' = NextSource[source]
  PROVE  /\ Done' = Done \cup {source} /\ source \notin Done /\ source \notin failed
         /\ CategoriesOf[source] \cap Read = {}
         /\ pc' \in {"facts", "goals", "memories", "baseline"}
<1>1. source \in {"preferences", "facts", "goals", "memories"}
  BY SourceNames
<1>2. /\ Done' = Done \cup {source} /\ source \notin Done
      /\ pc' \in {"facts", "goals", "memories", "baseline"}
  <2>1. CASE source = "preferences"
    BY <2>1, SourceNames DEF Done
  <2>2. CASE source = "facts"
    BY <2>2, SourceNames DEF Done
  <2>3. CASE source = "goals"
    BY <2>3, SourceNames DEF Done
  <2>4. CASE source = "memories"
    BY <2>4, SourceNames DEF Done
  <2>5. QED
    BY <1>1, <2>1, <2>2, <2>3, <2>4
<1>3. Done \subseteq DOMAIN CategoriesOf
  BY SourceNames DEF Done
<1>4. \A s, t \in DOMAIN CategoriesOf : s # t => CategoriesOf[s] \cap CategoriesOf[t] = {}
  BY SourceNames
<1>5. CategoriesOf[source] \cap Read = {}
  BY <1>2, <1>3, <1>4 DEF Read, Sources
<1>6. QED
  BY <1>2, <1>5

(* What the stores hold does not change.                                   *)
LEMMA OfferStays ==
  ASSUME offer' = offer
  PROVE  /\ Numbers' = Numbers
         /\ \A c : OverLimit(c)' = OverLimit(c) /\ Fetched(c)' = Fetched(c)
BY DEF Numbers, Holdings, OverLimit, Relevant, Duplicates, Legible, Fetched

LEMMA ToldStays ==
  ASSUME Told, offer' = offer, Read' = Read,
         "source_limit" \in reasons' <=> "source_limit" \in reasons,
         "record_oversized" \in reasons' <=> "record_oversized" \in reasons
  PROVE  Told'
<1>1. \A c : OverLimit(c)' = OverLimit(c) /\ Fetched(c)' = Fetched(c)
  BY OfferStays
<1>2. "source_limit" \in reasons' <=> \E c \in Read' : OverLimit(c)' > 0
  BY <1>1 DEF Told
<1>3. "record_oversized" \in reasons' <=>
        \E c \in Read' : \E i \in Fetched(c)' : offer'[c][i].fate = "oversized"
  BY <1>1 DEF Told
<1>4. QED
  BY <1>2, <1>3 DEF Told

LEMMA FailedIsFinite == ASSUME failed \subseteq Optional PROVE IsFiniteSet(failed)
BY SourceNames, SourcesFinite

LEMMA SelectKeepsInv ==
  ASSUME ContextInv, NEW source \in DOMAIN CategoriesOf, Select(source)
  PROVE  ContextInv'
<1> DEFINE own == CategoriesOf[source]
<1>1. /\ pc = source /\ pc' = NextSource[source] /\ failed \subseteq Done
      /\ offer' = offer /\ failed' = failed
      /\ considered' = considered /\ accepted' = accepted
      /\ candidates' = [c \in Category |-> IF c \in own THEN Ranked(c) ELSE candidates[c]]
      /\ omitted' = Recounted(omitted, own)
      /\ reasons' = reasons \cup UNION {LeftOutReasons(c) : c \in own}
      /\ offer \in Offers /\ omitted \in [Counter -> Nat]
  BY DEF Select, NotSelected, Recounted, ContextInv, Progress, TypeOK
<1>2. /\ Done' = Done \cup {source} /\ source \notin Done /\ source \notin failed
      /\ own \cap Read = {} /\ pc' \in {"facts", "goals", "memories", "baseline"}
  BY <1>1, ReadingAdvances
<1>3. own \in SUBSET Category /\ Read \in SUBSET Category
  BY ReadIsCategories, SourceNames DEF Category
<1>4. considered = 0 /\ accepted = <<>>
  BY <1>1 DEF ContextInv, Progress
<1>5. /\ Sources' = Sources \cup {source} /\ source \notin Sources
      /\ Sources \in SUBSET DOMAIN CategoriesOf /\ Read' = Read \cup own
  <2>1. Sources' = Sources \cup {source} /\ source \notin Sources
    BY <1>1, <1>2 DEF Sources
  <2>2. Sources \in SUBSET DOMAIN CategoriesOf
    BY SourceNames DEF Sources, Done
  <2>3. Read' = UNION {CategoriesOf[s] : s \in Sources'}
    BY DEF Read
  <2>4. Read' = UNION {CategoriesOf[s] : s \in Sources \cup {source}}
    BY <2>1, <2>3, Zenon
  <2>5. QED
    BY <2>1, <2>2, <2>4 DEF Read
<1>6. candidates \in [Category -> Seq(Nat)] /\ \A c \in Category : Len(candidates[c]) <= Limit[c]
  BY DEF ContextInv, TypeOK
<1>7. \A c \in own : candidates[c] = <<>>
  BY <1>2, <1>3 DEF ContextInv, Progress
<1>8. /\ \A c \in own : candidates'[c] = Ranked(c)
      /\ \A c \in Category \ own : candidates'[c] = candidates[c]
      /\ candidates' \in [Category -> Seq(Nat)]
      /\ \A c \in Category : Len(candidates'[c]) <= Limit[c]
  <2>1. \A c \in Category : Ranked(c) \in Seq(Nat) /\ Len(Ranked(c)) <= Limit[c]
    BY <1>1, RankedShape
  <2>2. \A c \in Category : candidates'[c] = IF c \in own THEN Ranked(c) ELSE candidates[c]
    BY <1>1
  <2>3. candidates' \in [Category -> Seq(Nat)]
    BY <1>1, <1>6, <2>1
  <2>4. QED
    BY <1>3, <1>6, <2>1, <2>2, <2>3
<1>9. omitted' \in [Counter -> Nat]
  BY <1>1, <1>3, CountsOfSelection
<1>10. reasons' \subseteq Reason /\ ("budget_exceeded" \in reasons' <=> "budget_exceeded" \in reasons)
  <2>1. \A c : LeftOutReasons(c) \subseteq Reason /\ "budget_exceeded" \notin LeftOutReasons(c)
    BY LeftOutReasonsAre
  <2>2. reasons \subseteq Reason
    BY DEF ContextInv, TypeOK
  <2>3. QED
    BY <1>1, <2>1, <2>2
<1>11. TypeOK'
  <2>1. failed \subseteq Optional /\ considered \in Nat /\ offer \in Offers
        /\ accepted \in Seq([category : Category, index : Nat, length : Nat])
    BY DEF ContextInv, TypeOK
  <2>2. QED
    BY <1>1, <1>2, <1>8, <1>9, <1>10, <2>1 DEF TypeOK, Phase
<1>12. Part(Queue', Category) /\ Len(Queue') = QueueLength' /\ Len(Queue) = QueueLength
  BY <1>6, <1>8, QueueShape, QueueShapeNext
<1>13. Progress'
  <2>1. \A c \in Category \ Read' : candidates'[c] = <<>>
    BY <1>5, <1>8 DEF ContextInv, Progress
  <2>2. failed' \subseteq Done' /\ considered' = 0 /\ accepted' = <<>>
    BY <1>1, <1>2, <1>4
  <2>3. pc' \notin {"shedding", "done"}
    BY <1>2
  <2>4. QED
    BY <2>1, <2>2, <2>3 DEF Progress
<1>14. Told'
  <2>1. \A c : OverLimit(c)' = OverLimit(c) /\ Fetched(c)' = Fetched(c)
    BY <1>1, OfferStays
  <2>2. "source_limit" \in reasons' <=>
          "source_limit" \in reasons \/ \E c \in own : OverLimit(c) > 0
    BY <1>1, LeftOutReasonsAre
  <2>3. "record_oversized" \in reasons' <=>
          \/ "record_oversized" \in reasons
          \/ \E c \in own : \E i \in Fetched(c) : offer[c][i].fate = "oversized"
    BY <1>1, LeftOutReasonsAre
  <2>4. "source_limit" \in reasons' <=> \E c \in Read' : OverLimit(c) > 0
    BY <1>5, <2>2 DEF ContextInv, Told
  <2>5. "record_oversized" \in reasons' <=>
          \E c \in Read' : \E i \in Fetched(c) : offer[c][i].fate = "oversized"
    BY <1>5, <2>3 DEF ContextInv, Told
  <2>6. "source_limit" \in reasons' <=> \E c \in Read' : OverLimit(c)' > 0
    BY <2>1, <2>4
  <2>7. "record_oversized" \in reasons' <=>
          \E c \in Read' : \E i \in Fetched(c)' : offer'[c][i].fate = "oversized"
    BY <1>1, <2>1, <2>5
  <2>8. QED
    BY <2>6, <2>7 DEF Told
<1>15. Packing(Queue', considered', accepted', omitted', reasons')
  <2>1. {Queue[i] : i \in 1 .. considered} = {}
    BY <1>4
  <2>2. "budget_exceeded" \notin reasons'
    BY <1>10, <2>1 DEF ContextInv, Packing
  <2>3. Packing(Queue', 0, <<>>, omitted', reasons')
    BY <1>9, <1>10, <1>12, <2>2, PackingBegins
  <2>4. QED
    BY <1>1, <1>4, <2>3
<1>16. Counted'
  <2>1. Len(Queue) + SumFunction(omitted) = SumFunctionOnSet(Numbers, Sources) + Cardinality(failed)
        /\ Len(Queue) \in Int
    <3>1. Len(accepted) = 0 /\ considered = 0
      BY <1>4
    <3>2. Len(Queue) \in Nat
      BY <1>12 DEF ContextInv, Packing, Part
    <3>3. SumFunction(omitted) \in Int
      <4>1. SumFunctionOnSet(omitted, Counter) \in Int
        BY <1>1, CountersFinite, SumIsInteger
      <4>2. DOMAIN omitted = Counter
        BY <1>1
      <4>3. QED
        BY <4>1, <4>2 DEF SumFunction
    <3>4. QED
      BY <3>1, <3>2, <3>3 DEF ContextInv, Counted
  <2>2. /\ SumFunction(omitted) \in Int /\ SumFunctionOnSet(Numbers, Sources) \in Int
        /\ Cardinality(failed) \in Int
    <3>1. SumFunctionOnSet(omitted, Counter) \in Int
      BY <1>1, CountersFinite, SumIsInteger
    <3>2. DOMAIN omitted = Counter
      BY <1>1
    <3>3. SumFunctionOnSet(Numbers, Sources) \in Int
      <4>1. \A s \in Sources : Numbers[s] \in Int
        BY <1>1, <1>5, NumbersOfSources
      <4>2. IsFiniteSet(Sources)
        BY <1>5, SourcesFinite
      <4>3. QED
        BY <4>1, <4>2, SumIsInteger
    <3>4. Cardinality(failed) \in Int
      BY FailedIsFinite, FS_CardinalityType DEF ContextInv, TypeOK
    <3>5. QED
      BY <3>1, <3>2, <3>3, <3>4 DEF SumFunction
  <2> DEFINE Whole == Len(Queue') + SumFunction(omitted')
                        = SumFunctionOnSet(Numbers, Sources') + Cardinality(failed)
  <2> DEFINE L(c) == Len(candidates[c])
             M(c) == Len(candidates'[c])
             R(c) == Len(Ranked(c))
             before == Len(Queue)
             after == Len(Queue')
             sum == SumFunction(omitted)
             total == SumFunctionOnSet(Numbers, Sources)
             failures == Cardinality(failed)
  <2>3. \A c \in Category : L(c) \in Nat /\ R(c) \in Nat /\ (c \in own => L(c) = 0)
    <3>1. \A c \in Category : Ranked(c) \in Seq(Nat)
      BY <1>1, RankedShape
    <3>2. \A c \in own : L(c) = 0
      BY <1>7
    <3>3. QED
      BY <1>6, <3>1, <3>2
  <2>4. \A c \in Category : M(c) = IF c \in own THEN R(c) ELSE L(c)
    BY <1>8
  <2>5. \A c \in Category : LeftOut(c) \in Nat /\ R(c) + LeftOut(c) = Cardinality(Fetched(c))
    BY <1>1, RankedShape
  <2>20. /\ before + sum = total + failures
         /\ before \in Int /\ sum \in Int /\ total \in Int /\ failures \in Int
    BY <2>1, <2>2
  <2> HIDE DEF L, M, R, before, after, sum, total, failures, own, Whole
  <2>6. /\ before = L("facts") + L("active_goals") + L("established") + L("memories")
                       + L("provisional") + L("terminal_goals")
        /\ after = M("facts") + M("active_goals")
                           + M("established") + M("memories")
                           + M("provisional")
                           + M("terminal_goals")
    BY <1>12 DEF QueueLength, L, M, before, after
  <2>21. SumFunctionOnSet(Numbers, Sources') = total + Numbers[source]
    <3>1. SumFunctionOnSet(Numbers, Sources') = SumFunctionOnSet(Numbers, Sources \cup {source})
      BY <1>5, Zenon
    <3>2. QED
      BY <1>1, <1>5, <3>1, SourceAdded DEF total
  <2>7. ASSUME NEW a \in Category, own = {a}, after = before + R(a)
        PROVE  Whole
    <3>1. omitted' = Recounted(omitted, {a})
      BY <1>1, <2>7
    <3>2. SumFunction(omitted') = sum + LeftOut(a)
      BY <1>1, <3>1, OneSelected DEF sum
    <3>3. Numbers[source] = Cardinality(Fetched(a))
      BY <1>1, <2>7, NumbersOfSources DEF own
    <3>4. /\ LeftOut(a) \in Nat /\ R(a) \in Nat
          /\ R(a) + LeftOut(a) = Cardinality(Fetched(a))
      BY <2>3, <2>5
    <3>5. after + SumFunction(omitted') = SumFunctionOnSet(Numbers, Sources') + failures
      <4>1. after = before + R(a)
        BY <2>7
      <4>2. SumFunctionOnSet(Numbers, Sources') = total + Cardinality(Fetched(a))
        BY <2>21, <3>3
      <4> DEFINE ra == R(a)
                 la == LeftOut(a)
      <4>4. ra \in Int /\ la \in Int
        BY <3>4
      <4> HIDE DEF ra, la
      <4>5. (before + ra) + (sum + la) = (total + (ra + la)) + failures
        BY <2>20, <4>4
      <4>6. QED
        BY <3>2, <3>4, <4>1, <4>2, <4>5, Zenon DEF ra, la
    <3>6. QED
      BY <3>5 DEF Whole, after, failures
  <2>8. ASSUME NEW a \in Category, NEW b \in Category, a # b, own = {a, b},
               after = before + R(a) + R(b)
        PROVE  Whole
    <3>1. omitted' = Recounted(omitted, {a, b})
      BY <1>1, <2>8
    <3>2. SumFunction(omitted') = sum + LeftOut(a) + LeftOut(b)
      BY <1>1, <2>8, <3>1, TwoSelected DEF sum
    <3>3. Numbers[source] = Cardinality(Fetched(a)) + Cardinality(Fetched(b))
      BY <1>1, <2>8, NumbersOfSources DEF own
    <3>4. /\ LeftOut(a) \in Nat /\ R(a) \in Nat /\ LeftOut(b) \in Nat /\ R(b) \in Nat
          /\ R(a) + LeftOut(a) = Cardinality(Fetched(a))
          /\ R(b) + LeftOut(b) = Cardinality(Fetched(b))
      BY <2>3, <2>5
    <3>5. after + SumFunction(omitted') = SumFunctionOnSet(Numbers, Sources') + failures
      <4>1. after = before + R(a) + R(b)
        BY <2>8
      <4>2. SumFunctionOnSet(Numbers, Sources')
              = total + (Cardinality(Fetched(a)) + Cardinality(Fetched(b)))
        BY <2>21, <3>3
      <4> DEFINE ra == R(a)
                 rb == R(b)
                 la == LeftOut(a)
                 lb == LeftOut(b)
      <4>4. ra \in Int /\ rb \in Int /\ la \in Int /\ lb \in Int
        BY <3>4
      <4> HIDE DEF ra, rb, la, lb
      <4>5. (before + ra + rb) + (sum + la + lb) = (total + ((ra + la) + (rb + lb))) + failures
        BY <2>20, <4>4
      <4>6. QED
        BY <3>2, <3>4, <4>1, <4>2, <4>5, Zenon DEF ra, rb, la, lb
    <3>6. QED
      BY <3>5 DEF Whole, after, failures
  <2>9. Category = {"facts", "active_goals", "established", "memories", "provisional",
                    "terminal_goals"}
    BY DEF Category
  <2>10. /\ L("facts") \in Nat /\ L("active_goals") \in Nat /\ L("established") \in Nat
         /\ L("memories") \in Nat /\ L("provisional") \in Nat /\ L("terminal_goals") \in Nat
         /\ R("facts") \in Nat /\ R("active_goals") \in Nat /\ R("established") \in Nat
         /\ R("memories") \in Nat /\ R("provisional") \in Nat /\ R("terminal_goals") \in Nat
    BY <2>3, <2>9
  <2>11. ASSUME source = "preferences" PROVE Whole
    <3>1. own = {"established", "provisional"}
      BY <2>11, SourceNames DEF own
    <3>2. /\ M("facts") = L("facts") /\ M("active_goals") = L("active_goals")
          /\ M("established") = R("established") /\ M("memories") = L("memories")
          /\ M("provisional") = R("provisional") /\ M("terminal_goals") = L("terminal_goals")
          /\ L("established") = 0 /\ L("provisional") = 0
      BY <2>3, <2>4, <2>9, <3>1
    <3>3. after = before + R("established") + R("provisional")
      BY <2>6, <2>10, <3>2
    <3>4. QED
      BY <2>8, <2>9, <3>1, <3>3
  <2>12. ASSUME source = "facts" PROVE Whole
    <3>1. own = {"facts"}
      BY <2>12, SourceNames DEF own
    <3>2. /\ M("facts") = R("facts") /\ M("active_goals") = L("active_goals")
          /\ M("established") = L("established") /\ M("memories") = L("memories")
          /\ M("provisional") = L("provisional") /\ M("terminal_goals") = L("terminal_goals")
          /\ L("facts") = 0
      BY <2>3, <2>4, <2>9, <3>1
    <3>3. after = before + R("facts")
      BY <2>6, <2>10, <3>2
    <3>4. QED
      BY <2>7, <2>9, <3>1, <3>3
  <2>13. ASSUME source = "goals" PROVE Whole
    <3>1. own = {"active_goals", "terminal_goals"}
      BY <2>13, SourceNames DEF own
    <3>2. /\ M("facts") = L("facts") /\ M("active_goals") = R("active_goals")
          /\ M("established") = L("established") /\ M("memories") = L("memories")
          /\ M("provisional") = L("provisional") /\ M("terminal_goals") = R("terminal_goals")
          /\ L("active_goals") = 0 /\ L("terminal_goals") = 0
      BY <2>3, <2>4, <2>9, <3>1
    <3>3. after = before + R("active_goals") + R("terminal_goals")
      BY <2>6, <2>10, <3>2
    <3>4. QED
      BY <2>8, <2>9, <3>1, <3>3
  <2>14. ASSUME source = "memories" PROVE Whole
    <3>1. own = {"memories"}
      BY <2>14, SourceNames DEF own
    <3>2. /\ M("facts") = L("facts") /\ M("active_goals") = L("active_goals")
          /\ M("established") = L("established") /\ M("memories") = R("memories")
          /\ M("provisional") = L("provisional") /\ M("terminal_goals") = L("terminal_goals")
          /\ L("memories") = 0
      BY <2>3, <2>4, <2>9, <3>1
    <3>3. after = before + R("memories")
      BY <2>6, <2>10, <3>2
    <3>4. QED
      BY <2>7, <2>9, <3>1, <3>3
  <2>15. Whole
    BY <2>11, <2>12, <2>13, <2>14, SourceNames
  <2>16. Cardinality(failed') = Cardinality(failed) /\ Numbers' = Numbers
    BY <1>1, OfferStays
  <2>17. considered' = 0 /\ Len(accepted') = 0
    BY <1>1, <1>4
  <2>18. Len(Queue') \in Int /\ SumFunction(omitted') \in Int
    <3>1. SumFunctionOnSet(omitted', Counter) \in Int
      BY <1>9, CountersFinite, SumIsInteger
    <3>2. DOMAIN omitted' = Counter
      BY <1>9
    <3>3. Len(Queue') \in Int
      BY <1>12 DEF Part
    <3>4. QED
      BY <3>1, <3>2, <3>3 DEF SumFunction
  <2>19. QED
    BY <2>15, <2>16, <2>17, <2>18 DEF Counted, Whole
<1>17. QED
  BY <1>11, <1>13, <1>14, <1>15, <1>16 DEF ContextInv

(* What is left out is counted.                                            *)
LEMMA CountIsInteger ==
  ASSUME NEW count \in [Counter -> Nat]
  PROVE  SumFunction(count) \in Int
<1>1. DOMAIN count = Counter /\ \A x \in Counter : count[x] \in Int
  OBVIOUS
<1>2. SumFunctionOnSet(count, Counter) \in Int
  BY <1>1, CountersFinite, SumIsInteger
<1>3. QED
  BY <1>1, <1>2 DEF SumFunction

LEMMA OmitCounts ==
  ASSUME NEW count \in [Counter -> Nat], NEW k \in Counter
  PROVE  /\ [count EXCEPT ![k] = @ + 1] \in [Counter -> Nat]
         /\ SumFunction([count EXCEPT ![k] = @ + 1]) = SumFunction(count) + 1
         /\ SumFunction(count) \in Int
<1> DEFINE more == [count EXCEPT ![k] = @ + 1]
<1>1. more \in [Counter -> Nat]
  OBVIOUS
<1>2. more[k] = count[k] + 1 /\ \A x \in Counter \ {k} : more[x] = count[x]
  OBVIOUS
<1>3. DOMAIN more = Counter /\ DOMAIN count = Counter /\ \A x \in Counter : count[x] \in Int
  OBVIOUS
<1> HIDE DEF more
<1>4. SumFunctionOnSet(more, Counter) = SumFunctionOnSet(count, Counter) + 1
  BY <1>2, <1>3, CountersFinite, SumBumped
<1>5. SumFunctionOnSet(count, Counter) \in Int
  BY <1>3, CountersFinite, SumIsInteger
<1>6. QED
  BY <1>1, <1>3, <1>4, <1>5 DEF more, SumFunction

LEMMA ReadFailsKeepsInv ==
  ASSUME ContextInv, NEW source \in Optional, ReadFails(source)
  PROVE  ContextInv'
<1>1. /\ pc = source /\ pc' = NextSource[source] /\ failed \subseteq Done
      /\ failed' = failed \cup {source} /\ offer' = offer /\ candidates' = candidates
      /\ considered' = considered /\ accepted' = accepted
      /\ omitted' = [omitted EXCEPT ![source] = @ + 1]
      /\ reasons' = reasons \cup {FailureReason[source]}
      /\ offer \in Offers /\ omitted \in [Counter -> Nat]
  BY DEF ReadFails, ContextInv, Progress, TypeOK
<1>2. source \in DOMAIN CategoriesOf /\ source \in Counter
  BY SourceNames DEF Counter
<1>3. /\ Done' = Done \cup {source} /\ source \notin Done /\ source \notin failed
      /\ pc' \in {"facts", "goals", "memories", "baseline"}
  BY <1>1, <1>2, ReadingAdvances
<1>4. Sources' = Sources /\ Read' = Read
  <2>1. Sources' = Sources
    BY <1>1, <1>3 DEF Sources
  <2>2. Read' = UNION {CategoriesOf[s] : s \in Sources'}
    BY DEF Read
  <2>3. QED
    BY <2>1, <2>2, Zenon DEF Read
<1>5. Queue' = Queue
  BY <1>1 DEF Queue, Records
<1>6. considered = 0 /\ accepted = <<>>
  BY <1>1, <1>2 DEF ContextInv, Progress
<1>7. FailureReason[source] \in Reason \ TruncationReasons
  BY SourceNames
<1>8. /\ omitted' \in [Counter -> Nat] /\ reasons' \subseteq Reason
      /\ \A r \in TruncationReasons : r \in reasons' <=> r \in reasons
  <2>1. omitted' \in [Counter -> Nat]
    BY <1>1, <1>2
  <2>2. reasons' \subseteq Reason
    BY <1>1, <1>7 DEF ContextInv, TypeOK
  <2>3. \A r \in TruncationReasons : r \in reasons' <=> r \in reasons
    BY <1>1, <1>7
  <2>4. QED
    BY <2>1, <2>2, <2>3
<1>9. TypeOK'
  <2>1. failed' \subseteq Optional
    BY <1>1 DEF ContextInv, TypeOK
  <2>2. pc' \in Phase
    BY <1>3 DEF Phase
  <2>3. QED
    BY <1>1, <1>8, <2>1, <2>2 DEF ContextInv, TypeOK
<1>10. Progress'
  BY <1>1, <1>3, <1>4, <1>6 DEF ContextInv, Progress
<1>11. Told'
  <2>1. /\ "source_limit" \in reasons' <=> "source_limit" \in reasons
        /\ "record_oversized" \in reasons' <=> "record_oversized" \in reasons
    BY <1>8 DEF TruncationReasons
  <2>2. QED
    BY <1>1, <1>4, <2>1, ToldStays DEF ContextInv
<1>12. Packing(Queue', considered', accepted', omitted', reasons')
  <2>1. {Queue[i] : i \in 1 .. considered} = {}
    BY <1>6
  <2>2. "budget_exceeded" \notin reasons'
    <3>1. "budget_exceeded" \notin reasons
      BY <2>1 DEF ContextInv, Packing
    <3>2. QED
      BY <1>8, <3>1 DEF TruncationReasons
  <2>3. Part(Queue', Category)
    BY <1>5 DEF ContextInv, Packing
  <2>4. Packing(Queue', 0, <<>>, omitted', reasons')
    BY <1>8, <2>2, <2>3, PackingBegins
  <2>5. QED
    BY <1>1, <1>6, <2>4
<1>13. Counted'
  <2> DEFINE sum == SumFunction(omitted)
             failures == Cardinality(failed)
             rest == Len(accepted) + (Len(Queue) - considered)
             total == SumFunctionOnSet(Numbers, Sources)
  <2>1. sum \in Int /\ SumFunction(omitted') = sum + 1
    BY <1>1, <1>2, OmitCounts
  <2>2. failures \in Int /\ Cardinality(failed') = failures + 1
    <3>1. IsFiniteSet(failed)
      BY FailedIsFinite DEF ContextInv, TypeOK
    <3>2. Cardinality(failed \cup {source}) = Cardinality(failed) + 1
      BY <1>3, <3>1, FS_AddElement
    <3>3. QED
      BY <1>1, <3>1, <3>2, FS_CardinalityType
  <2>3. rest + sum = total + failures
    BY DEF ContextInv, Counted
  <2>4. rest \in Int /\ total \in Int
    <3>1. Len(Queue) \in Int /\ Len(accepted) = 0 /\ considered = 0
      BY <1>6 DEF ContextInv, Packing, Part
    <3>2. Sources \in SUBSET DOMAIN CategoriesOf
      BY SourceNames DEF Sources, Done
    <3>3. (\A s \in Sources : Numbers[s] \in Int) /\ IsFiniteSet(Sources)
      BY <1>1, <3>2, NumbersOfSources, SourcesFinite
    <3>4. QED
      BY <3>1, <3>3, SumIsInteger
  <2>5. /\ Len(accepted') + (Len(Queue') - considered') = rest
        /\ SumFunctionOnSet(Numbers', Sources') = total
    <3>1. Numbers' = Numbers
      BY <1>1, OfferStays
    <3>2. QED
      BY <1>1, <1>4, <1>5, <3>1
  <2> HIDE DEF sum, failures, rest, total
  <2>6. rest + (sum + 1) = total + (failures + 1)
    BY <2>1, <2>2, <2>3, <2>4
  <2>7. QED
    BY <2>1, <2>2, <2>5, <2>6 DEF Counted
<1>14. QED
  BY <1>9, <1>10, <1>11, <1>12, <1>13 DEF ContextInv

(* What is the same in every step once the sources have been read.         *)
LEMMA PackingFrame ==
  ASSUME offer' = offer, failed' = failed, candidates' = candidates,
         pc \in {"baseline", "packing", "shedding"},
         pc' \in {"packing", "shedding", "done", "oversized"}
  PROVE  /\ Queue' = Queue /\ Done' = Done /\ Read' = Read
         /\ Sources' = Sources /\ Numbers' = Numbers
         /\ pc' \in Phase
<1>1. Queue' = Queue
  BY DEF Queue, Records
<1>2. Done' = Done
  BY DEF Done
<1>3. Sources' = Sources /\ Read' = Read
  BY <1>2 DEF Read, Sources
<1>4. QED
  BY <1>1, <1>2, <1>3, OfferStays DEF Phase

LEMMA PackedKeepsInv ==
  ASSUME ContextInv, offer' = offer, failed' = failed, candidates' = candidates,
         pc \in {"baseline", "packing", "shedding"},
         pc' \in {"packing", "shedding", "done", "oversized"},
         Packing(Queue, considered', accepted', omitted', reasons'),
         Len(accepted') - considered' + SumFunction(omitted')
           = Len(accepted) - considered + SumFunction(omitted),
         \A r \in Reason \ {"budget_exceeded"} : r \in reasons' <=> r \in reasons,
         pc' \in {"shedding", "done"} => considered' = Len(Queue),
         pc' = "done" => Fits(accepted', omitted', reasons')
  PROVE  ContextInv'
<1>1. /\ Queue' = Queue /\ Done' = Done /\ Read' = Read
      /\ Sources' = Sources /\ Numbers' = Numbers
      /\ pc' \in Phase
  BY PackingFrame
<1>2. /\ considered' \in Nat /\ accepted' \in Seq(CandidateRecord)
      /\ omitted' \in [Counter -> Nat] /\ reasons' \in SUBSET Reason
      /\ considered \in Nat /\ accepted \in Seq(CandidateRecord)
      /\ omitted \in [Counter -> Nat] /\ Len(Queue) \in Nat
  BY PackingTypes DEF ContextInv
<1>3. TypeOK'
  BY <1>1, <1>2 DEF ContextInv, TypeOK, CandidateRecord
<1>4. Progress'
  <2>1. pc' \notin DOMAIN CategoriesOf \cup {"baseline", "unavailable"}
    BY SourceNames
  <2>2. failed' \subseteq Done' /\ \A c \in Category \ Read' : candidates'[c] = <<>>
    BY <1>1 DEF ContextInv, Progress
  <2>3. QED
    BY <1>1, <2>1, <2>2 DEF Progress
<1>5. Told'
  <2>1. /\ "source_limit" \in reasons' <=> "source_limit" \in reasons
        /\ "record_oversized" \in reasons' <=> "record_oversized" \in reasons
    BY ReasonNames
  <2>2. QED
    BY <1>1, <2>1, ToldStays DEF ContextInv
<1>6. Counted'
  <2> DEFINE q == Len(Queue)
             kept == Len(accepted)
             kept2 == Len(accepted')
             sum == SumFunction(omitted)
             sum2 == SumFunction(omitted')
             all == SumFunctionOnSet(Numbers, Sources) + Cardinality(failed)
             n == considered
             n2 == considered'
  <2>1. kept \in Int /\ kept2 \in Int /\ q \in Int /\ n \in Int /\ n2 \in Int
    BY <1>2
  <2>2. sum \in Int /\ sum2 \in Int
    BY <1>2, CountIsInteger
  <2>3. kept2 - n2 + sum2 = kept - n + sum
    OBVIOUS
  <2>4. kept + (q - n) + sum = all
    BY DEF ContextInv, Counted
  <2>5. Counted' <=> kept2 + (q - n2) + sum2 = all
    BY <1>1 DEF Counted
  <2> HIDE DEF q, kept, kept2, sum, sum2, all, n, n2
  <2>6. kept2 + (q - n2) + sum2 = all
    BY <2>1, <2>2, <2>3, <2>4
  <2>7. QED
    BY <2>5, <2>6
<1>7. Packing(Queue', considered', accepted', omitted', reasons')
  BY <1>1
<1>8. QED
  BY <1>3, <1>4, <1>5, <1>6, <1>7 DEF ContextInv

LEMMA PackingKeepsInv ==
  ASSUME ContextInv, Baseline \/ Accept \/ Refuse \/ EndPacking \/ Shed \/ Finish
  PROVE  ContextInv'
<1> DEFINE n == considered
           record == Queue[n + 1]
<1>1. /\ Packing(Queue, n, accepted, omitted, reasons)
      /\ pc \in {"shedding", "done"} => n = Len(Queue)
  BY DEF ContextInv, Progress
<1>2. /\ n \in Nat /\ n <= Len(Queue) /\ Len(Queue) \in Nat
      /\ accepted \in Seq(CandidateRecord) /\ Len(accepted) \in Nat
      /\ omitted \in [Counter -> Nat]
  BY <1>1, PackingTypes
<1>3. CASE Baseline
  <2>1. pc' \in {"packing", "oversized"}
    BY <1>3 DEF Baseline
  <2>2. QED
    BY <1>1, <1>3, <2>1, PackedKeepsInv DEF Baseline
<1>4. CASE Accept
  <2>1. /\ pc = "packing" /\ pc' = "packing" /\ n < Len(Queue)
        /\ offer' = offer /\ failed' = failed /\ candidates' = candidates
        /\ accepted' = Append(accepted, record) /\ considered' = n + 1
        /\ omitted' = omitted /\ reasons' = reasons
    BY <1>4 DEF Accept
  <2>2. Packing(Queue, n + 1, Append(accepted, record), omitted, reasons)
    BY <1>1, <2>1, PackingAccepts
  <2>3. Packing(Queue, considered', accepted', omitted', reasons')
    BY <2>1, <2>2
  <2>4. Len(accepted') = Len(accepted) + 1
    BY <1>2, <2>1
  <2>5. SumFunction(omitted) \in Int
    BY <1>2, CountIsInteger
  <2>6. Len(accepted') - considered' + SumFunction(omitted')
          = Len(accepted) - considered + SumFunction(omitted)
    BY <1>2, <2>1, <2>4, <2>5
  <2>7. QED
    BY <2>1, <2>3, <2>6, PackedKeepsInv
<1>5. CASE Refuse
  <2> DEFINE more == [omitted EXCEPT ![record.category] = @ + 1]
  <2>1. /\ pc = "packing" /\ pc' = "packing" /\ n < Len(Queue)
        /\ offer' = offer /\ failed' = failed /\ candidates' = candidates
        /\ ~Fits(Append(accepted, record), omitted, reasons)
        /\ accepted' = accepted /\ considered' = n + 1
        /\ omitted' = more /\ reasons' = reasons \cup {"budget_exceeded"}
    BY <1>5 DEF Refuse, Omit
  <2>2. Packing(Queue, n + 1, accepted, more, reasons \cup {"budget_exceeded"})
    BY <1>1, <2>1, PackingRefuses
  <2>3. Packing(Queue, considered', accepted', omitted', reasons')
    BY <2>1, <2>2
  <2>4. record.category \in Counter
    <3>1. n + 1 \in 1 .. Len(Queue)
      BY <1>2, <2>1
    <3>2. QED
      BY <1>1, <3>1, PackingTypes
  <2>5. SumFunction(more) = SumFunction(omitted) + 1 /\ SumFunction(omitted) \in Int
    BY <1>2, <2>4, OmitCounts
  <2> HIDE DEF more
  <2>6. Len(accepted') - considered' + SumFunction(omitted')
          = Len(accepted) - considered + SumFunction(omitted)
    BY <1>2, <2>1, <2>5
  <2>7. QED
    BY <2>1, <2>3, <2>6, PackedKeepsInv
<1>6. CASE EndPacking
  <2>1. pc' = "shedding" /\ considered' = Len(Queue)
    BY <1>6 DEF EndPacking
  <2>2. QED
    BY <1>1, <1>6, <2>1, PackedKeepsInv DEF EndPacking
<1>7. CASE Shed
  <2> DEFINE more == [omitted EXCEPT ![Last(accepted).category] = @ + 1]
  <2>1. /\ pc = "shedding" /\ pc' = "shedding" /\ accepted # <<>>
        /\ offer' = offer /\ failed' = failed /\ candidates' = candidates
        /\ ~Fits(accepted, omitted, reasons)
        /\ accepted' = Front(accepted) /\ considered' = n
        /\ omitted' = more /\ reasons' = reasons \cup {"budget_exceeded"}
    BY <1>7 DEF Shed, Omit
  <2>2. Packing(Queue, n, Front(accepted), more, reasons \cup {"budget_exceeded"})
    BY <1>1, <2>1, PackingSheds
  <2>3. Packing(Queue, considered', accepted', omitted', reasons')
    BY <2>1, <2>2
  <2>4. Last(accepted).category \in Counter /\ Len(accepted') = Len(accepted) - 1
    <3>1. Len(accepted) \in 1 .. Len(accepted)
      BY <1>2, <2>1
    <3>2. accepted[Len(accepted)].category \in Counter
      BY <1>1, <3>1, PackingTypes
    <3>3. Len(Front(accepted)) = Len(accepted) - 1
      BY <1>2, <2>1, FrontIsShorter
    <3>4. QED
      BY <2>1, <3>2, <3>3 DEF Last
  <2>5. SumFunction(more) = SumFunction(omitted) + 1 /\ SumFunction(omitted) \in Int
    BY <1>2, <2>4, OmitCounts
  <2> HIDE DEF more
  <2>6. Len(accepted') - considered' + SumFunction(omitted')
          = Len(accepted) - considered + SumFunction(omitted)
    BY <1>2, <2>1, <2>4, <2>5
  <2>7. considered' = Len(Queue)
    BY <1>1, <2>1
  <2>8. QED
    BY <2>1, <2>3, <2>6, <2>7, PackedKeepsInv
<1>8. CASE Finish
  <2>1. /\ pc' \in {"done", "oversized"} /\ considered' = Len(Queue)
        /\ pc' = "done" => Fits(accepted', omitted', reasons')
    BY <1>1, <1>8 DEF Finish
  <2>2. QED
    BY <1>1, <1>8, <2>1, PackedKeepsInv DEF Finish
<1>9. QED
  BY <1>3, <1>4, <1>5, <1>6, <1>7, <1>8

LEMMA NextKeepsInv == ContextInv /\ [Next]_vars => ContextInv'
<1> SUFFICES ASSUME ContextInv, [Next]_vars PROVE ContextInv'
  OBVIOUS
<1>1. CASE IdentityFails
  <2>1. /\ pc = "preferences" /\ pc' = "unavailable" /\ offer' = offer /\ failed' = failed
        /\ candidates' = candidates /\ omitted' = omitted /\ reasons' = reasons
        /\ considered' = considered /\ accepted' = accepted
    BY <1>1 DEF IdentityFails
  <2>2. Done' = Done /\ Queue' = Queue
    BY <2>1 DEF Done, Queue, Records
  <2>3. Sources' = Sources /\ Read' = Read
    BY <2>1, <2>2 DEF Read, Sources
  <2>4. Numbers' = Numbers
    BY <2>1, OfferStays
  <2>5. TypeOK'
    BY <2>1 DEF ContextInv, TypeOK, Phase
  <2>6. Progress'
    BY <2>1, <2>2, <2>3, SourceNames DEF ContextInv, Progress
  <2>7. Told'
    BY <2>1, <2>3, ToldStays DEF ContextInv
  <2>8. Counted' /\ Packing(Queue', considered', accepted', omitted', reasons')
    BY <2>1, <2>2, <2>3, <2>4 DEF ContextInv, Counted
  <2>9. QED
    BY <2>5, <2>6, <2>7, <2>8 DEF ContextInv
<1>2. CASE \E source \in DOMAIN CategoriesOf : Select(source)
  BY <1>2, SelectKeepsInv
<1>3. CASE \E source \in Optional : ReadFails(source)
  BY <1>3, ReadFailsKeepsInv
<1>4. CASE Baseline \/ Accept \/ Refuse \/ EndPacking \/ Shed \/ Finish
  BY <1>4, PackingKeepsInv
<1>5. CASE UNCHANGED vars
  <2>1. /\ pc' = pc /\ offer' = offer /\ failed' = failed
        /\ candidates' = candidates /\ omitted' = omitted /\ reasons' = reasons
        /\ considered' = considered /\ accepted' = accepted
    BY <1>5 DEF vars
  <2>2. Done' = Done /\ Queue' = Queue
    BY <2>1 DEF Done, Queue, Records
  <2>3. Sources' = Sources /\ Read' = Read
    BY <2>1, <2>2 DEF Read, Sources
  <2>4. Numbers' = Numbers
    BY <2>1, OfferStays
  <2>5. TypeOK'
    BY <2>1 DEF ContextInv, TypeOK
  <2>6. Progress'
    BY <2>1, <2>2, <2>3 DEF ContextInv, Progress
  <2>7. Told'
    BY <2>1, <2>3, ToldStays DEF ContextInv
  <2>8. Counted' /\ Packing(Queue', considered', accepted', omitted', reasons')
    BY <2>1, <2>2, <2>3, <2>4 DEF ContextInv, Counted
  <2>9. QED
    BY <2>5, <2>6, <2>7, <2>8 DEF ContextInv
<1>6. QED
  BY <1>1, <1>2, <1>3, <1>4, <1>5 DEF Next

LEMMA ContextInvariant == Spec => []ContextInv
<1>1. QED
  BY InitContext, NextKeepsInv, PTL DEF Spec

-----------------------------------------------------------------------------
(* The theorems.                                                           *)

(* Every variable keeps its type, and no category has more candidates than *)
(* its limit.                                                              *)
THEOREM TypeCorrect == Spec => []TypeOK
<1>1. ContextInv => TypeOK
  BY DEF ContextInv
<1>2. QED
  BY <1>1, ContextInvariant, PTL

LEMMA InvCountsEveryRecord == ContextInv => EveryRecordCounted
<1> SUFFICES ASSUME ContextInv, pc = "done" PROVE EveryRecordCounted
  BY DEF EveryRecordCounted
<1>1. /\ Sources = DOMAIN CategoriesOf \ failed
      /\ Read = UNION {CategoriesOf[s] : s \in DOMAIN CategoriesOf \ failed}
  BY SourceNames DEF Read, Sources, Done
<1>2. considered = Len(Queue) /\ Len(Queue) \in Int
  BY DEF ContextInv, Progress, Packing, Part
<1>3. Len(accepted) + SumFunction(omitted)
        = SumFunctionOnSet([s \in DOMAIN CategoriesOf |->
             Min({Cardinality(Holdings(offer, s)), ReadLimit})], DOMAIN CategoriesOf \ failed)
            + Cardinality(failed)
  <2> DEFINE kept == Len(accepted)
             sum == SumFunction(omitted)
             q == Len(Queue)
             all == SumFunctionOnSet(Numbers, Sources) + Cardinality(failed)
  <2>1. kept \in Int /\ sum \in Int /\ q \in Int
    <3>1. accepted \in Seq(CandidateRecord) /\ omitted \in [Counter -> Nat]
      BY DEF ContextInv, Packing
    <3>2. QED
      BY <1>2, <3>1, CountIsInteger
  <2>2. kept + (q - q) + sum = all
    BY <1>2 DEF ContextInv, Counted
  <2> HIDE DEF kept, sum, q, all
  <2>3. kept + sum = all
    BY <2>1, <2>2
  <2>4. QED
    BY <1>1, <2>3 DEF kept, sum, all, Numbers
<1>4. \/ Dropped # {}
      \/ \E c \in Read : OverLimit(c) > 0
      \/ \E c \in Read : \E i \in Fetched(c) : offer[c][i].fate = "oversized"
      <=> reasons \cap TruncationReasons # {}
  <2>1. "budget_exceeded" \in reasons <=> Dropped # {}
    BY DEF ContextInv, Packing, Dropped
  <2>2. /\ "source_limit" \in reasons <=> \E c \in Read : OverLimit(c) > 0
        /\ "record_oversized" \in reasons <=>
             \E c \in Read : \E i \in Fetched(c) : offer[c][i].fate = "oversized"
    BY DEF ContextInv, Told
  <2>3. reasons \cap TruncationReasons # {} <=>
          \/ "budget_exceeded" \in reasons \/ "source_limit" \in reasons
          \/ "record_oversized" \in reasons
    BY DEF TruncationReasons
  <2>4. QED
    BY <2>1, <2>2, <2>3
<1>5. QED
  BY <1>1, <1>3, <1>4, Zenon DEF EveryRecordCounted

(* Nothing that is read is lost without a trace (ContextAssembler.assemble)*)
(* whatever the stores hold and wherever the limit of reading cuts them:   *)
(* of each source that could be read, as many records as it holds, or      *)
(* ReadLimit of them if it holds more, are in the bundle or counted as left*)
(* out, and the bundle calls itself truncated exactly when one of those    *)
(* that is relevant, or too large, is missing.  Nothing is said of records *)
(* beyond the limit, and nothing can be: the code leaves no trace of them. *)
THEOREM EveryRecordIsCounted == Spec => []EveryRecordCounted
<1>1. QED
  BY InvCountsEveryRecord, ContextInvariant, PTL

LEMMA InvPacksByPriority == ContextInv => PackedByPriority
<1> SUFFICES ASSUME ContextInv, pc = "done" PROVE PackedByPriority
  BY DEF PackedByPriority
<1> DEFINE n == considered
<1>1. Packing(Queue, n, accepted, omitted, reasons)
  BY DEF ContextInv
<1>2. /\ Queue \in Seq(CandidateRecord) /\ Len(Queue) \in Nat /\ n \in Nat /\ n <= Len(Queue)
      /\ DOMAIN accepted = 1 .. Len(accepted)
      /\ accepted \in Seq(CandidateRecord) /\ Len(accepted) \in Nat
      /\ \A i \in 1 .. Len(Queue) : Place(Queue, Queue[i]) = i
  BY <1>1, PackingTypes
<1>3. \A record : Rank(record) = Place(Queue, record)
  BY DEF Rank, Place
<1>4. Fits(accepted, omitted, reasons)
  BY DEF ContextInv, Progress
<1>5. \A i, j \in DOMAIN accepted : i < j => Rank(accepted[i]) < Rank(accepted[j])
  BY <1>1, <1>2, <1>3, PackingOrder
<1>6. ASSUME NEW d \in Dropped, IsPrefix(SubSeq(Queue, 1, Rank(d) - 1), accepted)
      PROVE  ~Fits(Append(SubSeq(Queue, 1, Rank(d) - 1), d), omitted, reasons)
  <2>1. PICK i \in 1 .. n : Queue[i] = d /\ d \notin Range(accepted)
    BY DEF Dropped
  <2>2. i \in 1 .. Len(Queue) /\ i \in Nat /\ i - 1 \in Nat /\ i - 1 <= Len(Queue)
    BY <1>2
  <2>3. Rank(d) = i
    BY <1>2, <1>3, <2>1, <2>2
  <2> DEFINE above == SubSeq(Queue, 1, i - 1)
             beginning == SubSeq(accepted, 1, i - 1)
  <2>4. Len(above) = i - 1 /\ \A j \in 1 .. i - 1 : above[j] = Queue[j]
    BY <1>2, <2>2
  <2>5. i - 1 <= Len(accepted) /\ above = beginning
    BY <1>6, <2>3, <2>4 DEF IsPrefix
  <2>6. \A j \in 1 .. i - 1 : beginning[j] = accepted[j]
    BY <1>2, <2>2, <2>5
  <2>7. Begins(accepted, Queue, i - 1)
    BY <2>4, <2>5, <2>6 DEF Begins
  <2>8. NoRoomAt(i, accepted, Queue, omitted, reasons)
    BY <1>1 DEF Packing
  <2>9. ~Fits(Append(above, Queue[i]), omitted, reasons)
    BY <2>1, <2>7, <2>8 DEF NoRoomAt
  <2>10. QED
    BY <2>1, <2>3, <2>9
<1>7. QED
  BY <1>4, <1>5, <1>6 DEF PackedByPriority

(* Packing honours the priorities (_ContextAssembler._pack): the bundle    *)
(* fits its budget and is in their order, and the missing record of the    *)
(* highest priority had no room beside those above it.                     *)
THEOREM PackedInPriority == Spec => []PackedByPriority
<1>1. QED
  BY InvPacksByPriority, ContextInvariant, PTL

=============================================================================
