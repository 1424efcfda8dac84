---------------------------- MODULE PartsProofs ----------------------------
(***************************************************************************)
(* The parts that share no state with one another, each with its own       *)
(* inductive invariant: the copies the retention keeps (RInv), quizzes     *)
(* (QInv), the pull of a device (SInv), ordered lists (OInv), the copies   *)
(* of the platform's lessons (LInv) and the attempts that are reported     *)
(* (AInv).  What they share comes first: lemmas on rows, numbers and       *)
(* orders.                                                                 *)
(***************************************************************************)
EXTENDS Reports, Retention, Quiz, SyncPull, OrderedContent, Distribution,
        FiniteSetTheorems, WellFoundedInduction, NaturalsInduction, TLAPS

-----------------------------------------------------------------------------
(***************************************************************************)
(* Rows, numbers and orders                                                *)
(***************************************************************************)

\* One row of a table is replaced, or one is added.
LEMMA ReplaceRow ==
    ASSUME NEW S, NEW s \in Seq(S), NEW n \in DOMAIN s, NEW x \in S
    PROVE  /\ [s EXCEPT ![n] = x] \in Seq(S) /\ DOMAIN [s EXCEPT ![n] = x] = DOMAIN s
           /\ \A m \in DOMAIN s : [s EXCEPT ![n] = x][m] = IF m = n THEN x ELSE s[m]
<1>1. /\ s \in [1 .. Len(s) -> S] /\ DOMAIN s = 1 .. Len(s) /\ Len(s) \in Nat
  OBVIOUS
<1>2. [s EXCEPT ![n] = x] \in [1 .. Len(s) -> S]
  BY <1>1
<1>3. \A f \in [1 .. Len(s) -> S] : f \in Seq(S)
  BY <1>1
<1>. QED
  BY <1>1, <1>2, <1>3

LEMMA AddRow ==
    ASSUME NEW S, NEW s \in Seq(S), NEW x \in S
    PROVE  /\ Append(s, x) \in Seq(S) /\ Len(Append(s, x)) \in DOMAIN Append(s, x)
           /\ DOMAIN s \subseteq DOMAIN Append(s, x) /\ Len(Append(s, x)) \in Nat
           /\ \A m \in DOMAIN Append(s, x) : \/ m \in DOMAIN s /\ Append(s, x)[m] = s[m]
                                             \/ Append(s, x)[m] = x
<1>1. /\ Append(s, x) \in Seq(S) /\ Len(Append(s, x)) = Len(s) + 1 /\ Len(s) \in Nat
      /\ DOMAIN s = 1 .. Len(s) /\ DOMAIN Append(s, x) = 1 .. Len(s) + 1
  OBVIOUS
<1>2. \A m \in 1 .. Len(s) + 1 : Append(s, x)[m] = IF m <= Len(s) THEN s[m] ELSE x
  BY <1>1
<1>. QED
  BY <1>1, <1>2

\* A set of naturals has a least element.
LEMMA Least == ASSUME NEW S \in SUBSET Nat, S # {}
               PROVE  \E x \in S : \A y \in S : x <= y
<1>1. PICK x \in S : \A y \in S : ~(<<y, x>> \in OpToRel(<, Nat))
  BY WFMin, NatLessThanWellFounded
<1>2. \A y \in S : ~(y < x)
  BY <1>1 DEF OpToRel
<1>. QED
  BY <1>2

-----------------------------------------------------------------------------
(***************************************************************************)
(* Sums over finitely many rows                                            *)
(***************************************************************************)

\* What is true of no row, and of some rows if it is true of them without any one of them,
\* is true of all: P is what it is true of.
LEMMA RowByRow ==
    ASSUME NEW S, IsFiniteSet(S), NEW P, {} \in P,
           \A T \in SUBSET S : T # {} /\ (\A x \in T : T \ {x} \in P) => T \in P
    PROVE  SUBSET S \subseteq P
<1> SUFFICES ASSUME (SUBSET S) \ P # {} PROVE FALSE
  OBVIOUS
<1> DEFINE sizes == {Cardinality(T) : T \in (SUBSET S) \ P}
<1>1. \A T \in SUBSET S : IsFiniteSet(T) /\ Cardinality(T) \in Nat
  BY FS_Subset, FS_CardinalityType
<1>2. sizes \in SUBSET Nat /\ sizes # {}
  BY <1>1
<1>3. PICK n \in sizes : \A m \in sizes : n <= m
  BY <1>2, Least
<1>4. PICK T \in (SUBSET S) \ P : Cardinality(T) = n
  BY <1>3
<1>5. ASSUME NEW x \in T PROVE T \ {x} \in P
  <2>1. Cardinality(T \ {x}) = n - 1 /\ T \ {x} \in SUBSET S /\ n \in Nat
    BY <1>1, <1>4, FS_RemoveElement
  <2>2. CASE T \ {x} \notin P
    <3>1. n - 1 \in sizes
      BY <2>1, <2>2
    <3>. QED
      BY <1>3, <2>1, <3>1
  <2>. QED
    BY <2>2
<1>. QED
  BY <1>4, <1>5

\* The recursion a sum is defined by: some row is added to the sum of the others.
AnyOf(T) == CHOOSE x \in T : TRUE
AddOne(f, g, S) == [T \in SUBSET S |-> IF T = {} THEN 0 ELSE f[AnyOf(T)] + g[T \ {AnyOf(T)}]]

\* For finitely many rows there is what satisfies it.
LEMMA SumsExist ==
    ASSUME NEW S, IsFiniteSet(S), NEW f \in [S -> Nat]
    PROVE  \E g : g = AddOne(f, g, S)
<1> DEFINE Upto(n) == \E g \in [SUBSET S -> Nat] :
               \A T \in SUBSET S : Cardinality(T) <= n => g[T] = AddOne(f, g, S)[T]
           fails == {n \in Nat : ~Upto(n)}
<1>1. \A T \in SUBSET S : IsFiniteSet(T) /\ Cardinality(T) \in Nat
  BY FS_Subset, FS_CardinalityType
<1>2. \A T \in SUBSET S : T # {} => /\ AnyOf(T) \in T /\ AnyOf(T) \in S /\ T \ {AnyOf(T)} \in SUBSET S
                                    /\ Cardinality(T \ {AnyOf(T)}) = Cardinality(T) - 1
  <2> SUFFICES ASSUME NEW T \in SUBSET S, T # {}
               PROVE  /\ AnyOf(T) \in T /\ AnyOf(T) \in S /\ T \ {AnyOf(T)} \in SUBSET S
                      /\ Cardinality(T \ {AnyOf(T)}) = Cardinality(T) - 1
    OBVIOUS
  <2>1. AnyOf(T) \in T
    BY DEF AnyOf
  <2>. QED
    BY <1>1, <2>1, FS_RemoveElement
<1>3. Upto(0)
  <2> DEFINE zero == [T \in SUBSET S |-> 0]
  <2>1. \A T \in SUBSET S : Cardinality(T) <= 0 => T = {}
    BY <1>1, FS_EmptySet
  <2>2. zero \in [SUBSET S -> Nat] /\ \A T \in SUBSET S : T = {} => zero[T] = AddOne(f, zero, S)[T]
    BY DEF AddOne
  <2> HIDE DEF zero
  <2>. QED
    BY <2>1, <2>2
<1>4. ASSUME NEW n \in Nat, Upto(n) PROVE Upto(n + 1)
  <2>1. PICK g \in [SUBSET S -> Nat] :
          \A T \in SUBSET S : Cardinality(T) <= n => g[T] = AddOne(f, g, S)[T]
    BY <1>4
  <2> DEFINE h == AddOne(f, g, S)
  <2>2. h \in [SUBSET S -> Nat]
    <3>1. ASSUME NEW T \in SUBSET S
          PROVE  (IF T = {} THEN 0 ELSE f[AnyOf(T)] + g[T \ {AnyOf(T)}]) \in Nat
      <4>1. T # {} => f[AnyOf(T)] \in Nat /\ g[T \ {AnyOf(T)}] \in Nat
        BY <1>2
      <4>. QED
        BY <4>1
    <3>. QED
      BY <3>1 DEF AddOne
  <2>3. \A T \in SUBSET S : Cardinality(T) <= n => h[T] = g[T]
    BY <2>1
  <2>4. \A T \in SUBSET S : h[T] = IF T = {} THEN 0 ELSE f[AnyOf(T)] + g[T \ {AnyOf(T)}]
    BY DEF AddOne
  <2>5. \A T \in SUBSET S : AddOne(f, h, S)[T] = IF T = {} THEN 0 ELSE f[AnyOf(T)] + h[T \ {AnyOf(T)}]
    BY DEF AddOne
  <2> HIDE DEF h
  <2>6. ASSUME NEW T \in SUBSET S, Cardinality(T) <= n + 1 PROVE h[T] = AddOne(f, h, S)[T]
    <3>1. CASE T = {}
      BY <3>1, <2>4, <2>5
    <3>2. CASE T # {}
      <4>1. Cardinality(T \ {AnyOf(T)}) <= n /\ T \ {AnyOf(T)} \in SUBSET S
        BY <1>1, <1>2, <2>6, <3>2
      <4>2. h[T \ {AnyOf(T)}] = g[T \ {AnyOf(T)}]
        BY <4>1, <2>3
      <4>. QED
        BY <3>2, <4>2, <2>4, <2>5
    <3>. QED
      BY <3>1, <3>2
  <2>. QED
    BY <2>2, <2>6
<1> HIDE DEF Upto
<1>5. fails = {}
  <2> SUFFICES ASSUME fails # {} PROVE FALSE
    OBVIOUS
  <2>1. PICK n \in fails : \A m \in fails : n <= m
    BY Least
  <2>2. n \in Nat /\ n # 0
    BY <1>3
  <2>3. n - 1 \in Nat /\ n - 1 \notin fails /\ (n - 1) + 1 = n
    BY <2>1, <2>2
  <2>4. Upto(n - 1)
    BY <2>3
  <2>. QED
    BY <1>4, <2>3, <2>4
<1>6. Upto(Cardinality(S))
  BY <1>1, <1>5
<1>7. PICK g \in [SUBSET S -> Nat] :
        \A T \in SUBSET S : Cardinality(T) <= Cardinality(S) => g[T] = AddOne(f, g, S)[T]
  BY <1>6 DEF Upto
<1>8. \A T \in SUBSET S : g[T] = AddOne(f, g, S)[T]
  BY <1>1, <1>7, FS_Subset
<1>9. DOMAIN AddOne(f, g, S) = SUBSET S /\ AddOne(f, g, S) = [T \in SUBSET S |-> AddOne(f, g, S)[T]]
  BY DEF AddOne
<1>10. g = [T \in SUBSET S |-> g[T]]
  OBVIOUS
<1>11. g = AddOne(f, g, S)
  BY <1>8, <1>9, <1>10
<1>. QED
  BY <1>11

\* Sums of rows: of none it is 0, and of others that of all but any one, and that one.
SumsOf(f, g, S) == /\ g \in [SUBSET S -> Nat]
                   /\ g[{}] = 0
                   /\ \A T \in SUBSET S : \A x \in T : g[T] = f[x] + g[T \ {x}]

LEMMA SumIs ==
    ASSUME NEW S, IsFiniteSet(S), NEW f \in [S -> Nat]
    PROVE  \E g : SumsOf(f, g, S) /\ SumFunction(f) = g[S]
<1> DEFINE g == CHOOSE h : h = AddOne(f, h, S)
<1>1. g = AddOne(f, g, S)
  BY SumsExist
<1>2. SumFunction(f) = g[S]
  <2>1. DOMAIN f = S
    OBVIOUS
  <2>. QED
    BY <2>1 DEF SumFunction, SumFunctionOnSet, FoldFunctionOnSet, MapThenFoldSet, AddOne, AnyOf
<1> HIDE DEF g
<1>3. \A T \in SUBSET S : g[T] = IF T = {} THEN 0 ELSE f[AnyOf(T)] + g[T \ {AnyOf(T)}]
  <2>1. \A T \in SUBSET S : AddOne(f, g, S)[T] = IF T = {} THEN 0 ELSE f[AnyOf(T)] + g[T \ {AnyOf(T)}]
    BY DEF AddOne
  <2>. QED
    BY <1>1, <2>1
<1>4. \A T \in SUBSET S : T # {} => AnyOf(T) \in T
  BY DEF AnyOf
<1> DEFINE natural == {T \in SUBSET S : g[T] \in Nat}
           steady == {T \in SUBSET S : \A x \in T : g[T] = f[x] + g[T \ {x}]}
<1>5. \A T \in SUBSET S : g[T] \in Nat
  <2>1. {} \in natural
    <3>1. {} \in SUBSET S /\ g[{}] = 0
      BY <1>3
    <3>. QED
      BY <3>1
  <2>2. ASSUME NEW T \in SUBSET S, T # {}, \A x \in T : T \ {x} \in natural PROVE T \in natural
    <3>1. AnyOf(T) \in T /\ f[AnyOf(T)] \in Nat /\ g[T \ {AnyOf(T)}] \in Nat
      BY <1>4, <2>2
    <3>. QED
      BY <1>3, <2>2, <3>1
  <2> HIDE DEF natural
  <2>3. SUBSET S \subseteq natural
    BY <2>1, <2>2, RowByRow
  <2>. QED
    BY <2>3 DEF natural
<1>6. \A T \in SUBSET S : \A x \in T : g[T] = f[x] + g[T \ {x}]
  <2>1. {} \in steady
    OBVIOUS
  <2>2. ASSUME NEW T \in SUBSET S, T # {}, \A x \in T : T \ {x} \in steady PROVE T \in steady
    <3> SUFFICES ASSUME NEW x \in T PROVE g[T] = f[x] + g[T \ {x}]
      OBVIOUS
    <3> DEFINE y == AnyOf(T)
    <3>1. y \in T /\ g[T] = f[y] + g[T \ {y}]
      BY <1>3, <1>4, <2>2
    <3> HIDE DEF y
    <3>2. CASE x = y
      BY <3>1, <3>2
    <3>3. CASE x # y
      <4>1. g[T \ {y}] = f[x] + g[(T \ {y}) \ {x}]
        BY <2>2, <3>1, <3>3
      <4>2. g[T \ {x}] = f[y] + g[(T \ {x}) \ {y}]
        BY <2>2, <3>1, <3>3
      <4>3. (T \ {x}) \ {y} = (T \ {y}) \ {x}
        OBVIOUS
      <4>4. f[x] \in Nat /\ f[y] \in Nat /\ g[(T \ {y}) \ {x}] \in Nat
        BY <1>5, <3>1
      <4>. QED
        BY <3>1, <4>1, <4>2, <4>3, <4>4
    <3>. QED
      BY <3>2, <3>3
  <2> HIDE DEF steady
  <2>3. SUBSET S \subseteq steady
    BY <2>1, <2>2, RowByRow
  <2>. QED
    BY <2>3 DEF steady
<1>7. g[{}] = 0
  BY <1>3
<1>8. g \in [SUBSET S -> Nat]
  <2>1. AddOne(f, g, S) = [T \in SUBSET S |-> IF T = {} THEN 0 ELSE f[AnyOf(T)] + g[T \ {AnyOf(T)}]]
    BY DEF AddOne
  <2>2. g = [T \in SUBSET S |-> g[T]]
    BY <1>1, <1>3, <2>1
  <2>. QED
    BY <1>5, <2>2
<1>. QED
  BY <1>2, <1>6, <1>7, <1>8 DEF SumsOf

LEMMA SizeOfBoth ==
    ASSUME NEW S, IsFiniteSet(S), NEW T, IsFiniteSet(T), S \cap T = {}
    PROVE  IsFiniteSet(S \cup T) /\ Cardinality(S \cup T) = Cardinality(S) + Cardinality(T)
<1>1. /\ IsFiniteSet(S \cup T)
      /\ Cardinality(S \cup T) = Cardinality(S) + Cardinality(T) - Cardinality(S \cap T)
  BY FS_Union
<1>2. Cardinality(S \cap T) = 0 /\ Cardinality(S) \in Nat /\ Cardinality(T) \in Nat
  BY FS_EmptySet, FS_CardinalityType
<1>. QED
  BY <1>1, <1>2

\* The sizes of sets that have no element in common add up to that of their union.
LEMMA SumOfSizes ==
    ASSUME NEW S, IsFiniteSet(S), NEW A, \A s \in S : IsFiniteSet(A[s]),
           \A s, t \in S : s # t => A[s] \cap A[t] = {}
    PROVE  SumFunction([s \in S |-> Cardinality(A[s])]) = Cardinality(UNION {A[s] : s \in S})
<1> DEFINE f == [s \in S |-> Cardinality(A[s])]
           all(T) == UNION {A[s] : s \in T}
<1>1. f \in [S -> Nat] /\ \A s \in S : f[s] = Cardinality(A[s])
  BY FS_CardinalityType
<1> HIDE DEF f
<1>2. PICK g : SumsOf(f, g, S) /\ SumFunction(f) = g[S]
  BY <1>1, SumIs
<1> DEFINE added == {T \in SUBSET S : IsFiniteSet(all(T)) /\ g[T] = Cardinality(all(T))}
<1>3. {} \in added
  <2>1. all({}) = {}
    OBVIOUS
  <2>2. IsFiniteSet(all({})) /\ Cardinality(all({})) = 0
    BY <2>1, FS_EmptySet
  <2>. QED
    BY <1>2, <2>2 DEF SumsOf
<1>4. ASSUME NEW T \in SUBSET S, T # {}, \A x \in T : T \ {x} \in added PROVE T \in added
  <2>1. PICK x \in T : TRUE
    BY <1>4
  <2>2. /\ IsFiniteSet(all(T \ {x})) /\ g[T \ {x}] = Cardinality(all(T \ {x}))
        /\ IsFiniteSet(A[x]) /\ f[x] = Cardinality(A[x])
    BY <1>1, <1>4, <2>1
  <2>3. all(T) = all(T \ {x}) \cup A[x] /\ all(T \ {x}) \cap A[x] = {}
    BY <2>1
  <2> HIDE DEF all
  <2>4. PICK rest : rest = all(T \ {x})
    OBVIOUS
  <2>5. /\ IsFiniteSet(rest \cup A[x])
        /\ Cardinality(rest \cup A[x]) = Cardinality(rest) + Cardinality(A[x])
    BY <2>2, <2>3, <2>4, SizeOfBoth
  <2>6. g[T] = f[x] + g[T \ {x}]
    BY <1>2, <2>1 DEF SumsOf
  <2>7. Cardinality(rest) \in Nat /\ Cardinality(A[x]) \in Nat
    BY <2>2, <2>4, FS_CardinalityType
  <2>8. all(T) = rest \cup A[x] /\ g[T] = Cardinality(rest) + Cardinality(A[x])
    BY <2>2, <2>3, <2>4, <2>6, <2>7
  <2>. QED
    BY <2>5, <2>8
<1> HIDE DEF added, all
<1>5. SUBSET S \subseteq added
  BY <1>3, <1>4, RowByRow
<1>6. g[S] = Cardinality(all(S))
  BY <1>5 DEF added
<1>. QED
  BY <1>2, <1>6 DEF f, all

\* Rows that add nothing need not be looked at.
LEMMA SumWithoutZeros ==
    ASSUME NEW S, IsFiniteSet(S), NEW f \in [S -> Nat], NEW E \in SUBSET S,
           \A x \in S \ E : f[x] = 0
    PROVE  SumFunction(f) = SumFunction([x \in E |-> f[x]])
<1> DEFINE e == [x \in E |-> f[x]]
<1>1. e \in [E -> Nat] /\ IsFiniteSet(E) /\ \A x \in E : e[x] = f[x]
  BY FS_Subset
<1> HIDE DEF e
<1>2. PICK g : SumsOf(f, g, S) /\ SumFunction(f) = g[S]
  BY SumIs
<1>3. PICK h : SumsOf(e, h, E) /\ SumFunction(e) = h[E]
  BY <1>1, SumIs
<1> DEFINE same == {T \in SUBSET S : g[T] = h[T \cap E]}
<1>4. {} \in same
  BY <1>2, <1>3 DEF SumsOf
<1>5. ASSUME NEW T \in SUBSET S, T # {}, \A x \in T : T \ {x} \in same PROVE T \in same
  <2>1. PICK x \in T : TRUE
    BY <1>5
  <2>2. g[T] = f[x] + g[T \ {x}] /\ g[T \ {x}] = h[(T \ {x}) \cap E] /\ g[T \ {x}] \in Nat
    BY <1>2, <1>5, <2>1 DEF SumsOf
  <2>3. CASE x \in E
    <3>1. h[T \cap E] = e[x] + h[(T \cap E) \ {x}]
      BY <1>3, <2>1, <2>3 DEF SumsOf
    <3>2. (T \cap E) \ {x} = (T \ {x}) \cap E
      OBVIOUS
    <3>. QED
      BY <1>1, <2>2, <2>3, <3>1, <3>2
  <2>4. CASE x \notin E
    <3>1. f[x] = 0 /\ (T \ {x}) \cap E = T \cap E
      BY <2>1, <2>4
    <3>. QED
      BY <2>2, <3>1
  <2>. QED
    BY <2>3, <2>4
<1> HIDE DEF same
<1>6. SUBSET S \subseteq same
  BY <1>4, <1>5, RowByRow
<1>7. g[S] = h[S \cap E] /\ S \cap E = E
  BY <1>6 DEF same
<1>. QED
  BY <1>2, <1>3, <1>7 DEF e

-----------------------------------------------------------------------------
(* Orders *)

Keys == Nat \X Nat

LEMMA BeforeOrders ==
    ASSUME NEW a \in Keys, NEW b \in Keys, NEW c \in Keys
    PROVE  /\ ~Before(a, a)
           /\ Before(a, b) /\ Before(b, c) => Before(a, c)
           /\ a = b \/ Before(a, b) \/ Before(b, a)
<1>1. /\ a[1] \in Nat /\ a[2] \in Nat /\ b[1] \in Nat /\ b[2] \in Nat /\ c[1] \in Nat /\ c[2] \in Nat
  BY DEF Keys
<1>2. a[1] = b[1] /\ a[2] = b[2] => a = b
  BY DEF Keys
<1>. QED
  BY <1>1, <1>2 DEF Before

\* Of finitely many rows one is the last.
LEMMA LastRow ==
    ASSUME NEW P, IsFiniteSet(P), P # {}, NEW key \in [P -> Keys]
    PROVE  \E u \in P : \A v \in P : ~Before(key[u], key[v])
<1> DEFINE Ahead(u) == {v \in P : Before(key[v], key[u])}
           rank(u) == Cardinality(Ahead(u))
           rest == {Cardinality(P) - rank(u) : u \in P}
<1>1. ASSUME NEW u \in P
      PROVE  /\ IsFiniteSet(Ahead(u)) /\ rank(u) \in Nat /\ rank(u) <= Cardinality(P)
             /\ Cardinality(P) \in Nat /\ Cardinality(P) - rank(u) \in Nat
  <2>1. Ahead(u) \in SUBSET P
    OBVIOUS
  <2>2. IsFiniteSet(Ahead(u)) /\ rank(u) <= Cardinality(P)
    BY <2>1, FS_Subset
  <2>3. rank(u) \in Nat /\ Cardinality(P) \in Nat
    BY <2>2, FS_CardinalityType
  <2>. QED
    BY <2>2, <2>3
<1>. HIDE DEF rank
<1>2. PICK x \in rest : \A y \in rest : x <= y
  <2>1. rest \in SUBSET Nat /\ rest # {}
    BY <1>1
  <2>. QED
    BY <2>1, Least
<1>3. PICK u \in P : x = Cardinality(P) - rank(u)
  BY <1>2
<1>4. ASSUME NEW w \in P, Before(key[u], key[w])
      PROVE  FALSE
  <2>1. u \notin Ahead(u) /\ Ahead(u) \cup {u} \subseteq Ahead(w)
    <3>1. key[u] \in Keys /\ key[w] \in Keys /\ \A v \in P : key[v] \in Keys
      OBVIOUS
    <3>2. ~Before(key[u], key[u])
      BY <3>1, BeforeOrders
    <3>3. \A v \in P : Before(key[v], key[u]) => Before(key[v], key[w])
      BY <1>4, <3>1, BeforeOrders
    <3>. QED
      BY <1>4, <3>2, <3>3
  <2>2. Cardinality(Ahead(u) \cup {u}) = rank(u) + 1
    BY <1>1, <2>1, FS_AddElement DEF rank
  <2>3. Cardinality(Ahead(u) \cup {u}) <= rank(w)
    BY <1>1, <2>1, FS_Subset DEF rank
  <2>4. Cardinality(P) - rank(u) <= Cardinality(P) - rank(w)
    BY <1>2, <1>3
  <2>5. rank(u) \in Nat /\ rank(w) \in Nat /\ Cardinality(P) \in Nat
    BY <1>1
  <2>6. rank(u) + 1 <= rank(w)
    BY <2>2, <2>3
  <2>. QED
    BY <2>4, <2>5, <2>6
<1>. QED
  BY <1>4

\* Of finitely many things one has the greatest number.
LEMMA Greatest ==
    ASSUME NEW P, IsFiniteSet(P), P # {}, NEW num \in [P -> Nat]
    PROVE  \E u \in P : \A v \in P : num[v] <= num[u]
<1> DEFINE key == [u \in P |-> <<num[u], 0>>]
<1>1. \A u \in P : num[u] \in Nat /\ key[u][1] = num[u]
  OBVIOUS
<1>2. key \in [P -> Keys]
  BY DEF Keys
<1>. HIDE DEF key
<1>3. PICK u \in P : \A v \in P : ~Before(key[u], key[v])
  BY <1>2, LastRow
<1>. QED
  BY <1>1, <1>3 DEF Before

-----------------------------------------------------------------------------
(***************************************************************************)
(* The retention of backups                                                *)
(***************************************************************************)

\* No more than n are the oldest n.
LEMMA OldestCount ==
    ASSUME NEW S \in SUBSET Nat, IsFiniteSet(S), NEW n \in Nat
    PROVE  /\ Oldest(S, n) \subseteq S /\ IsFiniteSet(Oldest(S, n))
           /\ Cardinality(Oldest(S, n)) \in Nat /\ Cardinality(Oldest(S, n)) <= n
<1> DEFINE Older(c) == {d \in S : d < c}
           rank(c) == Cardinality(Older(c))
           old == Oldest(S, n)
<1>1. old = {c \in S : rank(c) < n}
  BY DEF Oldest
<1>2. \A c : IsFiniteSet(Older(c)) /\ rank(c) \in Nat
  BY FS_Subset, FS_CardinalityType
<1>3. old \in SUBSET S
  BY <1>1
<1>. HIDE DEF old, Older
<1>4. IsFiniteSet(old) /\ Cardinality(old) \in Nat
  BY <1>3, FS_Subset, FS_CardinalityType
<1>5. ASSUME old = {}
      PROVE  Cardinality(old) <= n
  BY <1>5, FS_EmptySet
<1>6. ASSUME old # {}
      PROVE  Cardinality(old) <= n
  <2> DEFINE room == {n - rank(c) : c \in old}
  <2>1. ASSUME NEW c \in old
        PROVE  c \in Nat /\ rank(c) \in Nat /\ rank(c) < n /\ n - rank(c) \in Nat
    BY <1>1, <1>2
  <2>2. room \in SUBSET Nat /\ room # {}
    BY <1>6, <2>1
  <2>3. PICK m \in old : \A c \in old : n - rank(m) <= n - rank(c)
    <3>1. PICK x \in room : \A y \in room : x <= y
      BY <2>2, Least
    <3>. QED
      BY <3>1
  <2>4. m \in S /\ rank(m) < n /\ m \in Nat /\ rank(m) \in Nat
    BY <1>3, <2>1
  <2>5. Older(m) \cup {m} \in SUBSET S /\ m \notin Older(m)
    BY <2>4 DEF Older
  <2>6. /\ IsFiniteSet(Older(m) \cup {m}) /\ Cardinality(Older(m) \cup {m}) = rank(m) + 1
    BY <1>2, <2>5, FS_AddElement
  <2>. HIDE DEF rank
  <2>7. ASSUME NEW c \in old, c > m
        PROVE  FALSE
    <3>1. c \in Nat /\ rank(c) \in Nat /\ rank(c) <= rank(m)
      BY <2>1, <2>3, <2>4
    <3>2. ASSUME NEW d \in Older(m) \cup {m}
          PROVE  d \in Older(c)
      <4>1. d \in S /\ d \in Nat /\ d <= m
        BY <2>4, <2>5, <3>2 DEF Older
      <4>. QED
        BY <2>4, <2>7, <3>1, <4>1 DEF Older
    <3>3. IsFiniteSet(Older(c)) /\ Cardinality(Older(c)) = rank(c)
      BY <1>2 DEF rank
    <3>4. Cardinality(Older(m) \cup {m}) <= rank(c)
      BY <3>2, <3>3, FS_Subset
    <3>. QED
      BY <2>4, <2>6, <3>1, <3>4
  <2>8. old \in SUBSET (Older(m) \cup {m})
    <3> SUFFICES ASSUME NEW c \in old, c # m
                 PROVE  c \in Older(m)
      OBVIOUS
    <3>. QED
      BY <1>3, <2>1, <2>4, <2>7 DEF Older
  <2>9. Cardinality(old) <= rank(m) + 1
    BY <2>6, <2>8, FS_Subset
  <2>. QED
    BY <1>4, <2>4, <2>9
<1>7. Cardinality(old) <= n
  BY <1>5, <1>6
<1>. QED
  BY <1>3, <1>4, <1>7 DEF old

Copy == [status : {"SUCCESS", "FAILED"}, normal : BOOLEAN, old : BOOLEAN,
         pinned : BOOLEAN, deletedAt : Nat, purged : BOOLEAN]

RetentionTypes ==
    /\ copies \in [Copies -> Copy]
    /\ onDisk \subseteq Copies
    /\ night \in 0 .. LastNight
    /\ cleaning \in [pc : {"read", "delete", "purge", "files", "done"}, ids : SUBSET Copies]
    /\ console \in [Consoles -> [op : {"none", "pin", "delete"}, copy : Copies \cup {NoCopy},
                                 pinned : BOOLEAN]]
    /\ \A q \in Consoles : console[q].op # "none" => console[q].copy \in Copies
    /\ racing \in BOOLEAN

\* What a request or the retention holds has not been deleted before tonight, so that
\* only what nobody holds is purged, and no pinned copy among it.
Tonight(c) == copies[c].deletedAt >= night
Purged(c) == ~Tonight(c) /\ ~copies[c].pinned

Held == /\ \A q \in Consoles : console[q].op # "none" => Tonight(console[q].copy)
        /\ cleaning.pc = "delete" => \A c \in cleaning.ids : Tonight(c)
        /\ cleaning.pc = "files" => \A c \in cleaning.ids : Purged(c)
        /\ \A c \in Copies : c \notin onDisk => copies[c].status = "FAILED" \/ Purged(c)
        /\ \A c \in Copies : copies[c].purged => Purged(c)

\* The deletions under way, and what each is about to take from the successes.
Made == {c \in Copies : copies[c].status = "SUCCESS"}
HeldBy(q) == {console[q].copy}
Enough(S) == Cardinality(S) >= MinSafe

Spares ==
    ~racing =>
      /\ cleaning.pc = "delete" => \A q \in Consoles : console[q].op # "delete"
      /\ \A q, r \in Consoles : console[q].op = "delete" /\ console[r].op = "delete" => q = r
      /\ Enough(Made) =>
           /\ Enough(Successes)
           /\ cleaning.pc = "delete" => Enough(Successes \ cleaning.ids)
           /\ \A q \in Consoles : console[q].op = "delete" => Enough(Successes \ HeldBy(q))

RInv == RetentionTypes /\ Held /\ Spares

LEMMA SuccessesFinite ==
    ASSUME NEW S, S \subseteq Copies
    PROVE  IsFiniteSet(S) /\ Cardinality(S) \in Nat /\ S \subseteq Nat
  BY RetentionAssumption, FS_Subset, FS_CardinalityType

LEMMA DeletedLater == ASSUME RetentionTypes, NEW c \in Copies, ~Tonight(c)
                      PROVE  Deleted(c)
  BY RetentionAssumption DEF RetentionTypes, Copy, Tonight, Deleted, Never

\* What the retention spares: all but as many of the oldest successes as are too many.
LEMMA SparesEnough ==
    ASSUME RetentionTypes, Enough(Successes)
    PROVE  Enough(Successes \ Spared(Candidates))
<1> DEFINE S == Successes
           C == Candidates \cap S
           n == Less(Cardinality(S), MinSafe)
           gone == Oldest(C, n)
<1>1. S \subseteq Copies /\ C \subseteq S
  BY DEF Successes, Kept, Rows
<1>2. /\ IsFiniteSet(S) /\ Cardinality(S) \in Nat /\ IsFiniteSet(C)
      /\ C \in SUBSET Nat /\ MinSafe \in Nat
  BY <1>1, SuccessesFinite, RetentionAssumption
<1>3. n \in Nat /\ n <= Cardinality(S) - MinSafe
  BY <1>2 DEF Less, Enough
<1>4. S \ Spared(Candidates) = S \ gone
  BY DEF Spared
<1>. HIDE DEF S, C, n
<1>5. gone \subseteq C /\ IsFiniteSet(gone) /\ Cardinality(gone) \in Nat /\ Cardinality(gone) <= n
  BY <1>2, <1>3, OldestCount
<1>6. Cardinality(S \ gone) = Cardinality(S) - Cardinality(gone)
  <2>1. S \cap gone = gone
    BY <1>1, <1>5
  <2>2. Cardinality(S \ gone) = Cardinality(S) - Cardinality(S \cap gone)
    BY <1>2, FS_Difference
  <2>. QED
    BY <2>1, <2>2
<1>7. Cardinality(S \ gone) >= MinSafe
  BY <1>2, <1>3, <1>5, <1>6
<1>. QED
  BY <1>4, <1>7 DEF Enough, S

-----------------------------------------------------------------------------
(* Types *)

LEMMA RetentionInitTypes == RetentionInit => RetentionTypes
<1> SUFFICES ASSUME RetentionInit
             PROVE  RetentionTypes
  OBVIOUS
<1>1. LastNight \in Nat /\ Never \in Nat
  BY RetentionAssumption DEF Never
<1>2. PICK what \in [Copies -> {"SUCCESS", "FAILED", "SAFETY"}], old \in SUBSET Copies :
        /\ copies = [c \in Copies |->
               [status |-> IF what[c] = "FAILED" THEN "FAILED" ELSE "SUCCESS",
                normal |-> what[c] # "SAFETY", old |-> c \in old,
                pinned |-> FALSE, deletedAt |-> Never, purged |-> FALSE]]
        /\ onDisk = {c \in Copies : what[c] # "FAILED"}
  BY DEF RetentionInit
<1>3. copies \in [Copies -> Copy]
  <2>1. ASSUME NEW c \in Copies
        PROVE  [status |-> IF what[c] = "FAILED" THEN "FAILED" ELSE "SUCCESS",
                normal |-> what[c] # "SAFETY", old |-> c \in old,
                pinned |-> FALSE, deletedAt |-> Never, purged |-> FALSE] \in Copy
    BY <1>1 DEF Copy
  <2>. QED
    BY <1>2, <2>1
<1>4. onDisk \subseteq Copies /\ night \in 0 .. LastNight /\ racing \in BOOLEAN
  <2>1. night = 0 /\ racing = FALSE
    BY DEF RetentionInit
  <2>2. onDisk \subseteq Copies
    BY <1>2
  <2>3. 0 \in 0 .. LastNight
    BY <1>1
  <2>. QED
    BY <2>1, <2>2, <2>3
<1>5. /\ cleaning \in [pc : {"read", "delete", "purge", "files", "done"}, ids : SUBSET Copies]
      /\ console \in [Consoles -> [op : {"none", "pin", "delete"}, copy : Copies \cup {NoCopy},
                                   pinned : BOOLEAN]]
      /\ \A q \in Consoles : console[q].op = "none"
  BY DEF RetentionInit, AtRest
<1>. QED
  BY <1>3, <1>4, <1>5 DEF RetentionTypes

\* A row gets another time of deletion, another pin, or is purged.
LEMMA CopyUpdate ==
    ASSUME NEW r \in Copy, NEW t \in Nat, NEW b \in BOOLEAN
    PROVE  /\ [r EXCEPT !.deletedAt = t] \in Copy
           /\ [r EXCEPT !.pinned = b] \in Copy
           /\ [r EXCEPT !.purged = b] \in Copy
  BY DEF Copy

LEMMA NightIsANight == ASSUME RetentionTypes
                       PROVE  night \in Nat /\ night <= LastNight /\ night # Never
                              /\ Never = LastNight + 1 /\ LastNight \in Nat
  BY RetentionAssumption DEF RetentionTypes, Never

LEMMA ReadCandidatesInv == ASSUME RInv, ReadCandidates PROVE RInv'
<1>1. UNCHANGED <<copies, onDisk, night, console>> /\ cleaning.pc = "read"
      /\ cleaning' = [pc |-> "delete", ids |-> Spared(Candidates)]
      /\ racing' = (racing \/ Deleting)
  BY DEF ReadCandidates
<1>2. Spared(Candidates) \subseteq Kept
  BY DEF Spared, Candidates, Oldest
<1>3. Kept \subseteq Copies
  BY DEF Kept, Rows
<1>4. RetentionTypes'
  BY <1>1, <1>2, <1>3 DEF RInv, RetentionTypes, Deleting
<1>5. \A c \in Kept : Tonight(c)
  BY <1>3, DeletedLater DEF Kept, RInv
<1>6. Held'
  BY <1>1, <1>2, <1>5 DEF RInv, Held, Tonight, Purged
<1>7. Spares'
  <2> SUFFICES ASSUME ~racing'
               PROVE  /\ \A q \in Consoles : console[q].op # "delete"
                      /\ Enough(Made)' => Enough(Successes) /\ Enough(Successes \ Spared(Candidates))
    BY <1>1 DEF Spares, Successes, Kept, Rows, Deleted, Enough
  <2>1. ~racing /\ \A q \in Consoles : console[q].op # "delete"
    BY <1>1 DEF Deleting
  <2>2. Enough(Made)' = Enough(Made)
    BY <1>1 DEF Enough, Made
  <2>. QED
    BY <2>1, <2>2, SparesEnough DEF RInv, Spares
<1>. QED
  BY <1>4, <1>6, <1>7 DEF RInv

LEMMA SameSuccesses ==
    ASSUME RetentionTypes,
           \A c \in Copies : /\ copies'[c].status = copies[c].status
                             /\ (copies'[c].purged \/ copies'[c].deletedAt # Never) <=>
                                    (copies[c].purged \/ copies[c].deletedAt # Never)
    PROVE  Made' = Made /\ Successes' = Successes
  BY DEF Made, Successes, Kept, Rows, Deleted

\* The deletions under way stay what they are.
LEMMA SparesStay ==
    ASSUME Spares, UNCHANGED racing, Made' = Made, Successes' = Successes,
           cleaning'.pc = "delete" => UNCHANGED cleaning,
           \A q \in Consoles : console'[q].op = "delete" => console'[q] = console[q]
    PROVE  Spares'
  BY DEF Spares, Enough, HeldBy

LEMMA UntouchedInv ==
    ASSUME RInv, UNCHANGED <<copies, racing, night>>,
           onDisk' = onDisk,
           \/ UNCHANGED cleaning
           \/ cleaning' \in [pc : {"read", "purge", "done"}, ids : SUBSET Copies]
           \/ /\ cleaning' \in [pc : {"files"}, ids : SUBSET Copies]
              /\ \A c \in cleaning'.ids : Purged(c),
           \/ UNCHANGED console
           \/ \E q \in Consoles, c \in Kept, b \in BOOLEAN :
                 console' = [console EXCEPT ![q] = [op |-> "pin", copy |-> c, pinned |-> b]]
    PROVE  RInv'
<1>1. Kept \subseteq Copies /\ \A c \in Kept : Tonight(c)
  BY DeletedLater DEF Kept, Rows, RInv
<1>2. RetentionTypes'
  BY <1>1 DEF RInv, RetentionTypes
<1>3. Held'
  BY <1>1 DEF RInv, Held, RetentionTypes, Tonight, Purged
<1>4. Made' = Made /\ Successes' = Successes
  BY DEF Made, Successes, Kept, Rows, Deleted
<1>5. cleaning'.pc = "delete" => UNCHANGED cleaning
  OBVIOUS
<1>6. \A q \in Consoles : console'[q].op = "delete" => console'[q] = console[q]
  BY DEF RInv, RetentionTypes
<1>7. Spares'
  BY <1>4, <1>5, <1>6, SparesStay DEF RInv
<1>. QED
  BY <1>2, <1>3, <1>7 DEF RInv

LEMMA ReadPurgeInv == ASSUME RInv, ReadPurge PROVE RInv'
<1>1. ASSUME NEW c \in Rows, Purgeable(c)
      PROVE  c \in Copies /\ Purged(c)
  <2>1. c \in Copies /\ copies[c].deletedAt \in Nat /\ night \in Nat /\ PurgeDays \in Nat
    BY RetentionAssumption DEF RInv, RetentionTypes, Copy, Rows
  <2>. QED
    BY <1>1, <2>1 DEF Purgeable, Purged, Tonight
<1>2. /\ cleaning' = [pc |-> "files", ids |-> {c \in Rows : Purgeable(c)}]
      /\ UNCHANGED <<copies, onDisk, night, console, racing>>
  BY DEF ReadPurge
<1>3. /\ cleaning' \in [pc : {"files"}, ids : SUBSET Copies]
      /\ \A c \in cleaning'.ids : Purged(c)
  BY <1>1, <1>2
<1>. QED
  BY <1>2, <1>3, UntouchedInv

LEMMA RetentionEndsInv == ASSUME RInv, RetentionEnds PROVE RInv'
<1>1. cleaning' \in [pc : {"read", "purge", "done"}, ids : SUBSET Copies]
  BY DEF RetentionEnds, Asleep
<1>. QED
  BY <1>1, UntouchedInv DEF RetentionEnds

LEMMA ReadPinInv == ASSUME RInv, NEW q \in Consoles, ReadPin(q) PROVE RInv'
<1>1. PICK c \in Kept : console' = [console EXCEPT ![q] = [op |-> "pin", copy |-> c,
                                                         pinned |-> copies[c].pinned]]
  BY DEF ReadPin
<1>2. copies[c].pinned \in BOOLEAN
  BY DEF RInv, RetentionTypes, Copy, Kept, Rows
<1>. QED
  BY <1>1, <1>2, UntouchedInv DEF ReadPin

LEMMA NightFallsInv == ASSUME RInv, NightFalls PROVE RInv'
<1>1. /\ UNCHANGED <<copies, onDisk, console, racing>> /\ night' = night + 1 /\ night < LastNight
      /\ cleaning' = [pc |-> "read", ids |-> {}] /\ \A q \in Consoles : console[q].op = "none"
  BY DEF NightFalls, AtRest
<1>2. night \in Nat /\ LastNight \in Nat /\ night' \in 0 .. LastNight
  BY <1>1, NightIsANight DEF RInv
<1>3. RetentionTypes'
  BY <1>1, <1>2 DEF RInv, RetentionTypes
<1>4. \A c \in Copies : Purged(c) => Purged(c)'
  <2>1. \A c \in Copies : copies[c].deletedAt \in Nat
    BY DEF RInv, RetentionTypes, Copy
  <2>. QED
    BY <1>1, <1>2, <2>1 DEF Purged, Tonight
<1>5. Held'
  BY <1>1, <1>4 DEF RInv, Held
<1>6. Made' = Made /\ Successes' = Successes
  BY <1>1 DEF Made, Successes, Kept, Rows, Deleted
<1>7. Spares'
  BY <1>1, <1>6, SparesStay DEF RInv
<1>. QED
  BY <1>3, <1>5, <1>7 DEF RInv

LEMMA TogglePinInv == ASSUME RInv, NEW q \in Consoles, TogglePin(q) PROVE RInv'
<1> DEFINE c == console[q].copy
           new == [copies EXCEPT ![c].pinned = ~console[q].pinned]
<1>1. /\ c \in Copies /\ console[q].pinned \in BOOLEAN /\ Tonight(c)
  BY DEF TogglePin, RInv, RetentionTypes, Held
<1>2. /\ copies' = IF c \in Rows THEN new ELSE copies
      /\ console' = [console EXCEPT ![q] = AtRest] /\ UNCHANGED <<onDisk, night, cleaning, racing>>
  BY DEF TogglePin
<1>3. new \in [Copies -> Copy]
  BY <1>1, CopyUpdate DEF RInv, RetentionTypes
<1>4. RetentionTypes'
  BY <1>2, <1>3 DEF RInv, RetentionTypes, AtRest
<1>5. \A d \in Copies : /\ copies'[d].status = copies[d].status
                        /\ copies'[d].deletedAt = copies[d].deletedAt
                        /\ copies'[d].purged = copies[d].purged
                        /\ d # c => copies'[d] = copies[d]
  BY <1>1, <1>2 DEF RInv, RetentionTypes, Copy
<1>6. Held'
  <2>1. \A d \in Copies : /\ Tonight(d)' = Tonight(d)
                          /\ Purged(d) => Purged(d)'
    BY <1>1, <1>2, <1>5 DEF Tonight, Purged
  <2>2. \A p \in Consoles : console'[p].op # "none" => console'[p] = console[p]
    BY <1>2 DEF RInv, RetentionTypes, AtRest
  <2>3. cleaning.ids \subseteq Copies /\ \A p \in Consoles : console[p].op # "none" => console[p].copy \in Copies
    BY DEF RInv, RetentionTypes
  <2>. QED
    BY <1>2, <1>5, <2>1, <2>2, <2>3 DEF RInv, Held
<1>7. Made' = Made /\ Successes' = Successes
  BY <1>5, SameSuccesses DEF RInv
<1>8. Spares'
  BY <1>2, <1>7, SparesStay DEF RInv, RetentionTypes, AtRest
<1>. QED
  BY <1>4, <1>6, <1>8 DEF RInv

\* One row is marked as deleted tonight, or many.
LEMMA MarkedInv ==
    ASSUME RInv, NEW ids \in SUBSET Copies, \A c \in ids : Tonight(c),
           copies' = [c \in Copies |-> IF c \in ids /\ c \in Rows
                                      THEN [copies[c] EXCEPT !.deletedAt = night] ELSE copies[c]],
           UNCHANGED <<onDisk, night, racing>>,
           cleaning' = cleaning \/ cleaning' = [pc |-> "purge", ids |-> {}],
           console' = console \/ \E q \in Consoles : console' = [console EXCEPT ![q] = AtRest]
    PROVE  /\ RetentionTypes' /\ Held'
           /\ Made' = Made /\ Successes' = Successes \ ids
<1>1. night \in Nat /\ night # Never
  BY NightIsANight DEF RInv
<1>2. \A c \in Copies : copies[c] \in Copy
  BY DEF RInv, RetentionTypes
<1>3. \A c \in Copies : /\ copies'[c] \in Copy
                        /\ copies'[c].status = copies[c].status
                        /\ copies'[c].pinned = copies[c].pinned
                        /\ copies'[c].purged = copies[c].purged
                        /\ copies'[c].deletedAt = IF c \in ids /\ c \in Rows
                                                 THEN night ELSE copies[c].deletedAt
  BY <1>1, <1>2 DEF Copy
<1>4. RetentionTypes'
  <2>1. copies' \in [Copies -> Copy]
    BY <1>3
  <2>2. cleaning' \in [pc : {"read", "delete", "purge", "files", "done"}, ids : SUBSET Copies]
    BY DEF RInv, RetentionTypes
  <2>3. /\ console' \in [Consoles -> [op : {"none", "pin", "delete"}, copy : Copies \cup {NoCopy},
                                      pinned : BOOLEAN]]
        /\ \A q \in Consoles : console'[q].op # "none" => console'[q].copy \in Copies
    <3>1. AtRest \in [op : {"none", "pin", "delete"}, copy : Copies \cup {NoCopy}, pinned : BOOLEAN]
          /\ AtRest.op = "none"
      BY DEF AtRest
    <3>2. CASE console' = console
      BY <3>2 DEF RInv, RetentionTypes
    <3>3. ASSUME NEW q \in Consoles, console' = [console EXCEPT ![q] = AtRest]
          PROVE  /\ console' \in [Consoles -> [op : {"none", "pin", "delete"},
                                               copy : Copies \cup {NoCopy}, pinned : BOOLEAN]]
                 /\ \A k \in Consoles : console'[k].op # "none" => console'[k].copy \in Copies
      BY <3>1, <3>3 DEF RInv, RetentionTypes
    <3>. QED
      BY <3>2, <3>3
  <2>. QED
    BY <2>1, <2>2, <2>3 DEF RInv, RetentionTypes
<1>5. \A c \in Copies : /\ Tonight(c)' <=> Tonight(c)
                        /\ Purged(c)' <=> Purged(c)
  BY <1>1, <1>3 DEF Tonight, Purged
<1>6. Held'
  BY <1>3, <1>5 DEF RInv, Held, RetentionTypes, AtRest
<1>7. Made' = Made
  BY <1>3 DEF Made
<1>8. Successes' = Successes \ ids
  BY <1>1, <1>3 DEF Successes, Kept, Rows, Deleted
<1>. QED
  BY <1>4, <1>6, <1>7, <1>8

LEMMA DeleteCandidatesInv == ASSUME RInv, DeleteCandidates PROVE RInv'
<1> DEFINE ids == cleaning.ids
<1>1. /\ ids \in SUBSET Copies /\ \A c \in ids : Tonight(c)
      /\ cleaning.pc = "delete" /\ cleaning' = [pc |-> "purge", ids |-> {}]
      /\ UNCHANGED <<onDisk, night, console, racing>>
  BY DEF RInv, RetentionTypes, Held, DeleteCandidates
<1>2. copies' = [c \in Copies |-> IF c \in ids /\ c \in Rows
                                 THEN [copies[c] EXCEPT !.deletedAt = night] ELSE copies[c]]
  BY DEF DeleteCandidates
<1>3. RetentionTypes' /\ Held' /\ Made' = Made /\ Successes' = Successes \ ids
  BY <1>1, <1>2, MarkedInv
<1>4. Spares'
  BY <1>1, <1>3 DEF RInv, Spares, Enough
<1>. QED
  BY <1>3, <1>4 DEF RInv

LEMMA DeleteInstanceInv == ASSUME RInv, NEW q \in Consoles, DeleteInstance(q) PROVE RInv'
<1> DEFINE c == console[q].copy
<1>1. /\ c \in Copies /\ Tonight(c) /\ console[q].op = "delete"
      /\ console' = [console EXCEPT ![q] = AtRest] /\ UNCHANGED <<onDisk, night, cleaning, racing>>
  BY DEF RInv, RetentionTypes, Held, DeleteInstance
<1>2. copies' = [d \in Copies |-> IF d \in {c} /\ d \in Rows
                                 THEN [copies[d] EXCEPT !.deletedAt = night] ELSE copies[d]]
  BY <1>1 DEF DeleteInstance, RInv, RetentionTypes
<1>3. {c} \in SUBSET Copies /\ \A d \in {c} : Tonight(d)
  BY <1>1
<1>. HIDE DEF c
<1>4. RetentionTypes' /\ Held' /\ Made' = Made /\ Successes' = Successes \ {c}
  BY <1>1, <1>2, <1>3, MarkedInv
<1>5. \A r \in Consoles : console'[r].op = "delete" => console[r].op = "delete" /\ r # q
  BY <1>1 DEF RInv, RetentionTypes, AtRest
<1>6. Spares'
  BY <1>1, <1>4, <1>5 DEF RInv, Spares, Enough, HeldBy, c
<1>. QED
  BY <1>4, <1>6 DEF RInv

LEMMA ReadDeleteInv == ASSUME RInv, NEW q \in Consoles, ReadDelete(q) PROVE RInv'
<1>1. PICK c \in Kept : /\ console[q] = AtRest
                        /\ c \in Successes => Cardinality(Successes) > MinSafe
                        /\ console' = [console EXCEPT ![q] = [op |-> "delete", copy |-> c,
                                                             pinned |-> FALSE]]
                        /\ racing' = (racing \/ Deleting)
                        /\ UNCHANGED <<copies, onDisk, night, cleaning>>
  BY DEF ReadDelete
<1>2. c \in Copies /\ Tonight(c)
  BY DeletedLater DEF Kept, Rows, RInv
<1>3. RetentionTypes'
  BY <1>1, <1>2 DEF RInv, RetentionTypes, Deleting
<1>4. Held'
  BY <1>1, <1>2 DEF RInv, RetentionTypes, Held, Tonight, Purged
<1>5. Made' = Made /\ Successes' = Successes
  BY <1>1 DEF Made, Successes, Kept, Rows, Deleted
<1>6. ASSUME Enough(Successes)
      PROVE  Enough(Successes \ {c})
  <2>1. /\ Successes \subseteq Copies /\ IsFiniteSet(Successes) /\ Cardinality(Successes) \in Nat
        /\ MinSafe \in Nat
    BY SuccessesFinite, RetentionAssumption DEF Successes, Kept, Rows
  <2>2. CASE c \in Successes
    <3>1. Cardinality(Successes \ {c}) = Cardinality(Successes) - 1
      BY <2>1, <2>2, FS_RemoveElement
    <3>. QED
      BY <1>1, <2>1, <2>2, <3>1 DEF Enough
  <2>3. CASE c \notin Successes
    <3>1. Successes \ {c} = Successes
      BY <2>3
    <3>. QED
      BY <1>6, <3>1
  <2>. QED
    BY <2>2, <2>3
<1>7. Spares'
  <2> SUFFICES ASSUME ~racing'
               PROVE  /\ cleaning'.pc = "delete" => \A r \in Consoles : console'[r].op # "delete"
                      /\ \A r, t \in Consoles :
                            console'[r].op = "delete" /\ console'[t].op = "delete" => r = t
                      /\ Enough(Made)' =>
                           /\ Enough(Successes)'
                           /\ cleaning'.pc = "delete" => Enough(Successes \ cleaning.ids)'
                           /\ \A r \in Consoles :
                                 console'[r].op = "delete" => Enough(Successes \ HeldBy(r))'
    BY DEF Spares
  <2>1. ~racing /\ cleaning'.pc # "delete" /\ \A r \in Consoles : console[r].op # "delete"
    BY <1>1 DEF Deleting
  <2>2. \A r \in Consoles : console'[r].op = "delete" => r = q
    BY <1>1, <2>1 DEF RInv, RetentionTypes
  <2>3. console'[q].copy = c
    BY <1>1 DEF RInv, RetentionTypes
  <2>4. Enough(Made)' => Enough(Successes) /\ Enough(Successes)'
    BY <1>5, <2>1 DEF RInv, Spares, Enough
  <2>5. Enough(Made)' => Enough(Successes \ HeldBy(q))'
    BY <1>5, <1>6, <2>3, <2>4 DEF Enough, HeldBy
  <2>. QED
    BY <2>1, <2>2, <2>4, <2>5
<1>. QED
  BY <1>3, <1>4, <1>7 DEF RInv

LEMMA PurgeOneInv == ASSUME RInv, PurgeOne PROVE RInv'
<1>1. PICK c \in cleaning.ids :
        /\ cleaning.pc = "files" /\ cleaning' = [cleaning EXCEPT !.ids = @ \ {c}]
        /\ \/ onDisk' = onDisk \ {c} /\ copies' = [copies EXCEPT ![c].purged = TRUE]
           \/ UNCHANGED <<onDisk, copies>>
           \/ onDisk' = onDisk \ {c} /\ UNCHANGED copies
        /\ UNCHANGED <<night, console, racing>>
  BY DEF PurgeOne
<1>2. c \in Copies /\ Purged(c) /\ Deleted(c)
  BY <1>1, DeletedLater DEF RInv, RetentionTypes, Held, Purged
<1>3. \A d \in Copies : /\ copies'[d] \in Copy
                        /\ copies'[d].status = copies[d].status
                        /\ copies'[d].pinned = copies[d].pinned
                        /\ copies'[d].deletedAt = copies[d].deletedAt
                        /\ copies'[d].purged => copies[d].purged \/ d = c
                        /\ copies[d].purged => copies'[d].purged
  <2>1. ASSUME NEW d \in Copies
        PROVE  \/ copies'[d] = copies[d]
               \/ d = c /\ copies'[d] = [copies[d] EXCEPT !.purged = TRUE]
    BY <1>1, <1>2 DEF RInv, RetentionTypes
  <2>2. \A d \in Copies : copies[d] \in Copy
    BY DEF RInv, RetentionTypes
  <2>3. ASSUME NEW r \in Copy
        PROVE  LET t == [r EXCEPT !.purged = TRUE]
               IN  /\ t \in Copy /\ t.status = r.status /\ t.pinned = r.pinned
                   /\ t.deletedAt = r.deletedAt /\ t.purged
    BY DEF Copy
  <2>. QED
    BY <2>1, <2>2, <2>3
<1>4. RetentionTypes'
  BY <1>1, <1>2, <1>3, CopyUpdate DEF RInv, RetentionTypes
<1>5. \A d \in Copies : (Tonight(d)' <=> Tonight(d)) /\ (Purged(d)' <=> Purged(d))
  BY <1>1, <1>3 DEF Tonight, Purged
<1>6. Held'
  BY <1>1, <1>2, <1>3, <1>5 DEF RInv, Held, RetentionTypes
<1>7. Made' = Made /\ Successes' = Successes
  BY <1>2, <1>3, SameSuccesses DEF RInv, Deleted
<1>8. Spares'
  BY <1>1, <1>7, SparesStay DEF RInv, RetentionTypes
<1>. QED
  BY <1>4, <1>6, <1>8 DEF RInv

LEMMA RetentionInitInv == RetentionInit => RInv
<1> SUFFICES ASSUME RetentionInit
             PROVE  RInv
  OBVIOUS
<1>1. PICK what \in [Copies -> {"SUCCESS", "FAILED", "SAFETY"}], old \in SUBSET Copies :
        /\ copies = [c \in Copies |->
               [status |-> IF what[c] = "FAILED" THEN "FAILED" ELSE "SUCCESS",
                normal |-> what[c] # "SAFETY", old |-> c \in old,
                pinned |-> FALSE, deletedAt |-> Never, purged |-> FALSE]]
        /\ onDisk = {c \in Copies : what[c] # "FAILED"}
  BY DEF RetentionInit
<1>2. /\ cleaning = [pc |-> "read", ids |-> {}] /\ \A q \in Consoles : console[q].op = "none"
  BY DEF RetentionInit, AtRest
<1>3. Held
  BY <1>1, <1>2 DEF Held
<1>4. Successes = Made
  BY <1>1 DEF Successes, Made, Kept, Rows, Deleted
<1>5. Spares
  BY <1>2, <1>4 DEF Spares
<1>. QED
  BY <1>3, <1>5, RetentionInitTypes DEF RInv

LEMMA RetentionNextInv == ASSUME RInv, [RetentionNext]_retentionVars PROVE RInv'
<1>1. CASE UNCHANGED retentionVars
  BY <1>1, UntouchedInv DEF retentionVars
<1>. QED
  BY <1>1, ReadCandidatesInv, DeleteCandidatesInv, ReadPurgeInv, PurgeOneInv, RetentionEndsInv,
     NightFallsInv, ReadPinInv, TogglePinInv, ReadDeleteInv, DeleteInstanceInv DEF RetentionNext

\* A pinned copy keeps its file whatever the retention and the console delete, and as long as
\* no deletion overlaps another, MinSafe good copies are left of as many.
THEOREM CopiesTheorem == RetentionSpec => []CopiesKept
<1>1. RInv => CopiesKept
  <2> SUFFICES ASSUME RInv
               PROVE  PinnedIsKept /\ MinimumKept
    BY DEF CopiesKept
  <2>1. PinnedIsKept
    BY DEF RInv, Held, Purged, PinnedIsKept
  <2>2. MinimumKept
    BY DEF RInv, Spares, Enough, Made, MinimumKept
  <2>. QED
    BY <2>1, <2>2
<1>. QED
  BY <1>1, RetentionInitInv, RetentionNextInv, PTL DEF RetentionSpec

-----------------------------------------------------------------------------
(***************************************************************************)
(* Quizzes                                                                 *)
(***************************************************************************)

Edition == [rev : Nat, text : Nat]
Result == [id : Attempts \cup {NoChange}, rev : Nat, text : Nat]
Request == [pc : {"idle", "questions", "submit", "finish", "read", "process", "derive", "create",
                  "createRead", "mark"},
            change : Changes \cup {NoChange}, rev : Nat, text : Nat]

QuizTypes == /\ text \in Nat /\ rev = text
             /\ page \in Edition
             /\ results \in Seq(Result)
             /\ doing \in [QJobs -> Request]

\* A revision is known of no later edition than the one it was read with, and of no
\* later one than there is.
InTime(r, now) == r.rev <= r.text /\ r.text <= now

RevisionsInTime ==
    /\ InTime(page, text)
    /\ \A n \in DOMAIN results : InTime(results[n], text)
    /\ \A j \in QJobs : /\ doing[j].pc = "questions" => doing[j].rev <= text
                        /\ doing[j].pc = "submit" => InTime(doing[j], text)

\* What is about to be marked has been done.
MarkedIsDone == \A j \in QJobs :
    doing[j].pc = "mark" /\ doing[j].change \in Completing => results # << >>

QInv == QuizTypes /\ RevisionsInTime /\ MarkedIsDone /\ CompletedHasResult

-----------------------------------------------------------------------------
(* What a request does to where the requests are *)

\* Where the requests are next is where they were, but for one.
Goes(j, r) == doing' = [doing EXCEPT ![j] = r]

LEMMA RestingIsRequest == Resting \in Request
  BY QuizAssumption DEF Resting, Request

LEMMA RequestTypes == ASSUME QuizTypes, NEW j \in QJobs
                      PROVE  /\ doing[j] \in Request /\ doing[j].rev \in Nat /\ doing[j].text \in Nat
                             /\ doing[j].change \in Changes \cup {NoChange}
<1>1. doing[j] \in Request
  BY DEF QuizTypes
<1>. QED
  BY <1>1 DEF Request

LEMMA StepGoes == ASSUME QuizTypes, NEW j \in QJobs, NEW from, NEW to, Step(j, from, to),
                         to \in {"finish", "read", "derive", "create", "createRead", "mark"}
                  PROVE  /\ Goes(j, [doing[j] EXCEPT !.pc = to]) /\ doing[j].pc = from
                         /\ [doing[j] EXCEPT !.pc = to] \in Request
                         /\ [doing[j] EXCEPT !.pc = to].pc = to
                         /\ [doing[j] EXCEPT !.pc = to].change = doing[j].change
                         /\ UNCHANGED teacherVars
<1>1. doing \in [QJobs -> Request] /\ doing[j] \in Request
  BY RequestTypes DEF QuizTypes
<1>2. [doing[j] EXCEPT !.pc = to] \in Request
  BY <1>1 DEF Request
<1>3. Goes(j, [doing[j] EXCEPT !.pc = to])
  BY <1>1 DEF Step, Goes
<1>4. /\ [doing[j] EXCEPT !.pc = to].pc = to
      /\ [doing[j] EXCEPT !.pc = to].change = doing[j].change
  BY <1>1 DEF Request
<1>. QED
  BY <1>2, <1>3, <1>4 DEF Step

\* A request moves, a result may be added, and the teacher rests.
LEMMA GoesInv ==
    ASSUME QInv, NEW j \in QJobs, NEW r \in Request, Goes(j, r), UNCHANGED <<teacherVars, page>>,
           \/ results' = results
           \/ \E x \in Result : x.rev <= x.text /\ x.text <= text /\ results' = Append(results, x),
           r.pc = "questions" => r.rev <= text,
           r.pc = "submit" => InTime(r, text),
           r.pc = "mark" /\ r.change \in Completing => results' # << >>,
           \/ processed' = processed
           \/ \E c : processed' = processed \cup {c} /\ (c \in Completing => results # << >>)
    PROVE  QInv'
<1>1. /\ doing \in [QJobs -> Request] /\ results \in Seq(Result) /\ text' = text /\ rev' = rev /\ page' = page
  BY DEF QInv, QuizTypes, teacherVars
<1>2. doing' \in [QJobs -> Request] /\ doing'[j] = r /\ \A k \in QJobs \ {j} : doing'[k] = doing[k]
  BY <1>1 DEF Goes
<1> DEFINE Good == /\ results' \in Seq(Result) /\ (results # << >> => results' # << >>)
                   /\ \A n \in DOMAIN results' : InTime(results'[n], text)
<1>3. Good
  <2>1. CASE results' = results
    BY <1>1, <2>1 DEF QInv, RevisionsInTime
  <2>2. ASSUME NEW x \in Result, x.rev <= x.text, x.text <= text, results' = Append(results, x)
        PROVE  Good
    <3>1. \A n \in DOMAIN results : InTime(results[n], text)
      BY DEF QInv, RevisionsInTime
    <3>2. results' \in Seq(Result) /\ Len(results') = Len(results) + 1 /\ DOMAIN results' = 1 .. Len(results')
      BY <1>1, <2>2
    <3>3. InTime(x, text)
      BY <2>2 DEF InTime
    <3>4. \A n \in DOMAIN results' : results'[n] = IF n <= Len(results) THEN results[n] ELSE x
      BY <1>1, <2>2
    <3>5. \A n \in DOMAIN results' : n <= Len(results) => n \in DOMAIN results
      BY <1>1, <3>2
    <3>. QED
      BY <1>1, <3>1, <3>2, <3>3, <3>4, <3>5
  <2>. QED
    BY <2>1, <2>2
<1>4. QuizTypes'
  BY <1>1, <1>2, <1>3 DEF QInv, QuizTypes
<1>5. RevisionsInTime'
  BY <1>1, <1>2, <1>3 DEF QInv, RevisionsInTime, InTime
<1>6. MarkedIsDone'
  BY <1>1, <1>2, <1>3 DEF QInv, MarkedIsDone
<1>7. CompletedHasResult'
  BY <1>3 DEF QInv, CompletedHasResult
<1>. QED
  BY <1>4, <1>5, <1>6, <1>7 DEF QInv

-----------------------------------------------------------------------------
(* One lemma for each action *)

LEMMA EditInv == ASSUME QInv, NEW questions, Edit(questions) PROVE QInv'
<1>1. /\ text \in Nat /\ text' = text + 1 /\ rev' = text' /\ page \in Edition /\ page' = page
      /\ results \in Seq(Result) /\ results' = results /\ processed' = processed /\ doing' = doing
  BY DEF QInv, QuizTypes, Edit
<1>2. QuizTypes'
  BY <1>1 DEF QInv, QuizTypes
<1>3. RevisionsInTime'
  <2>1. \A n \in DOMAIN results : results[n].text \in Nat
    <3>1. \A n \in DOMAIN results : results[n] \in Result
      BY <1>1
    <3>. QED
      BY <3>1 DEF Result
  <2>2. \A j \in QJobs : doing[j].rev \in Nat /\ doing[j].text \in Nat
    BY RequestTypes DEF QInv
  <2>3. page.text \in Nat /\ InTime(page, text')
    BY <1>1 DEF QInv, RevisionsInTime, InTime, Edition
  <2>4. \A n \in DOMAIN results : InTime(results[n], text')
    BY <1>1, <2>1 DEF QInv, RevisionsInTime, InTime
  <2>5. \A j \in QJobs : /\ doing[j].pc = "questions" => doing[j].rev <= text'
                         /\ doing[j].pc = "submit" => InTime(doing[j], text')
    BY <1>1, <2>2 DEF QInv, RevisionsInTime, InTime
  <2>. QED
    BY <1>1, <2>3, <2>4, <2>5 DEF RevisionsInTime
<1>. QED
  BY <1>1, <1>2, <1>3 DEF QInv, MarkedIsDone, CompletedHasResult

\* A request that rests, after whatever it did to the rest.
LEMMA RestGoes == ASSUME NEW j \in QJobs, NEW from, Rest(j, from)
                  PROVE  Goes(j, Resting) /\ doing[j].pc = from /\ UNCHANGED teacherVars
  BY DEF Rest, Goes

LEMMA ReadRevisionInv == ASSUME QInv, NEW j \in QJobs, ReadRevision(j) PROVE QInv'
<1> DEFINE r == [Resting EXCEPT !.pc = "questions", !.rev = rev]
<1>1. r \in Request /\ r.pc = "questions" /\ r.rev = text
  BY RestingIsRequest DEF QInv, QuizTypes, Resting, Request
<1>2. r.rev <= text
  BY <1>1 DEF QInv, QuizTypes
<1>3. Goes(j, r) /\ UNCHANGED <<teacherVars, page, results, progress, processed>>
  BY DEF ReadRevision, Start, Goes
<1>. HIDE DEF r
<1>. QED
  BY <1>1, <1>2, <1>3, GoesInv

LEMMA ReadQuestionsInv == ASSUME QInv, NEW j \in QJobs, ReadQuestions(j) PROVE QInv'
<1>1. /\ Goes(j, Resting) /\ doing[j].pc = "questions" /\ text' = text /\ rev' = rev
      /\ page' = [rev |-> doing[j].rev, text |-> text] /\ results' = results /\ processed' = processed
  BY RestGoes DEF ReadQuestions, teacherVars
<1>2. doing[j].rev \in Nat /\ doing[j].rev <= text /\ text \in Nat
  BY <1>1, RequestTypes DEF QInv, QuizTypes, RevisionsInTime
<1>3. page' \in Edition /\ InTime(page', text)
  BY <1>1, <1>2 DEF Edition, InTime
<1>4. /\ doing \in [QJobs -> Request] /\ doing' \in [QJobs -> Request] /\ doing'[j] = Resting
      /\ \A k \in QJobs \ {j} : doing'[k] = doing[k]
  BY <1>1, RestingIsRequest DEF QInv, QuizTypes, Goes
<1>5. Resting.pc = "idle"
  BY DEF Resting
<1>6. QuizTypes'
  BY <1>1, <1>3, <1>4 DEF QInv, QuizTypes
<1>7. RevisionsInTime'
  BY <1>1, <1>3, <1>4, <1>5 DEF QInv, RevisionsInTime, InTime
<1>8. MarkedIsDone' /\ CompletedHasResult'
  BY <1>1, <1>4, <1>5 DEF QInv, MarkedIsDone, CompletedHasResult
<1>. QED
  BY <1>6, <1>7, <1>8 DEF QInv

\* A request rests and changes neither the results nor what has been processed.
LEMMA RestInv == ASSUME QInv, NEW j \in QJobs, NEW from, Rest(j, from), UNCHANGED <<page, results, processed>>
                 PROVE  QInv'
<1>1. Goes(j, Resting) /\ UNCHANGED <<teacherVars, page>> /\ results' = results /\ processed' = processed
  BY RestGoes
<1>2. Resting.pc = "idle"
  BY DEF Resting
<1>. QED
  BY <1>1, <1>2, RestingIsRequest, GoesInv

\* A request goes on to something that has yet to be done.
LEMMA StepInv == ASSUME QInv, NEW j \in QJobs, NEW from, NEW to, Step(j, from, to),
                        to \in {"finish", "read", "derive", "create", "createRead"},
                        UNCHANGED <<page, results, processed>>
                 PROVE  QInv'
<1> DEFINE r == [doing[j] EXCEPT !.pc = to]
<1>1. Goes(j, r) /\ r \in Request /\ r.pc = to /\ UNCHANGED teacherVars
  BY StepGoes DEF QInv
<1>. HIDE DEF r
<1>. QED
  BY <1>1, GoesInv

\* A result is added; what was known of its questions is in time.
LEMMA StoredInv == ASSUME QInv, NEW j \in QJobs, NEW from, NEW to, Step(j, from, to),
                          to \in {"finish", "mark"}, NEW id \in Attempts \cup {NoChange},
                          NEW rv \in Nat, NEW e \in Nat, rv <= e, e <= text,
                          Stored(id, rv, e), UNCHANGED <<page, processed>>
                   PROVE  QInv'
<1> DEFINE r == [doing[j] EXCEPT !.pc = to]
           x == [id |-> id, rev |-> rv, text |-> IF rv = 0 THEN 0 ELSE e]
<1>1. Goes(j, r) /\ r \in Request /\ r.pc = to /\ UNCHANGED teacherVars
  BY StepGoes DEF QInv
<1>2. x \in Result /\ x.rev = rv /\ x.text = IF rv = 0 THEN 0 ELSE e
  BY DEF Result
<1>3. text \in Nat /\ results \in Seq(Result)
  BY DEF QInv, QuizTypes
<1>4. x.rev <= x.text /\ x.text <= text
  BY <1>2, <1>3
<1>5. results' = Append(results, x)
  BY DEF Stored
<1>6. results' # << >>
  BY <1>2, <1>3, <1>5
<1>. HIDE DEF r, x
<1>. QED
  BY <1>1, <1>2, <1>4, <1>5, <1>6, GoesInv

LEMMA CheckAttemptInv == ASSUME QInv, NEW j \in QJobs, CheckAttempt(j) PROVE QInv'
<1> DEFINE r == [pc |-> "submit", change |-> NoChange, rev |-> page.rev, text |-> page.text]
<1>1. page \in Edition /\ InTime(page, text)
  BY DEF QInv, QuizTypes, RevisionsInTime
<1>2. r \in Request /\ r.pc = "submit" /\ InTime(r, text)
  BY <1>1 DEF Edition, Request, InTime
<1>3. Goes(j, r) /\ UNCHANGED <<teacherVars, page, results, progress, processed>>
  BY DEF CheckAttempt, Start, Goes
<1>. HIDE DEF r
<1>. QED
  BY <1>2, <1>3, GoesInv

LEMMA SubmitResultInv == ASSUME QInv, NEW j \in QJobs, SubmitResult(j) PROVE QInv'
<1>1. /\ Step(j, "submit", "finish") /\ Stored(NoChange, doing[j].rev, doing[j].text)
      /\ UNCHANGED <<page, processed>>
  BY DEF SubmitResult
<1>2. InTime(doing[j], text)
  BY <1>1 DEF Step, QInv, RevisionsInTime
<1>3. doing[j].rev \in Nat /\ doing[j].text \in Nat /\ doing[j].rev <= doing[j].text /\ doing[j].text <= text
  BY <1>2, RequestTypes DEF QInv, InTime
<1>. QED
  BY <1>1, <1>3, StoredInv

LEMMA MarkReadInv == ASSUME QInv, NEW j \in QJobs, MarkRead(j) PROVE QInv'
<1>1. Step(j, "read", "finish") /\ Stored(NoChange, 0, 0) /\ UNCHANGED <<page, processed>>
  BY DEF MarkRead
<1>2. 0 <= text
  BY DEF QInv, QuizTypes
<1>. QED
  BY <1>1, <1>2, StoredInv

LEMMA PushInv == ASSUME QInv, NEW j \in QJobs, Push(j) PROVE QInv'
<1>1. PICK c \in Changes \ processed :
        /\ Start(j, [Resting EXCEPT !.pc = "process", !.change = c])
        /\ UNCHANGED <<page, results, progress, processed>>
  BY DEF Push
<1> DEFINE r == [Resting EXCEPT !.pc = "process", !.change = c]
<1>2. r \in Request /\ r.pc = "process"
  BY DEF Resting, Request
<1>3. Goes(j, r) /\ UNCHANGED <<teacherVars, page, results, progress, processed>>
  BY <1>1 DEF Start, Goes
<1>. HIDE DEF r
<1>. QED
  BY <1>2, <1>3, GoesInv

\* A change that is no completion has nothing more to be done.
LEMMA OtherDoneInv == ASSUME QInv, NEW j \in QJobs, NEW from, Step(j, from, "mark"),
                             doing[j].change \notin Completing \/ results # << >>,
                             UNCHANGED <<page, results, processed>>
                      PROVE  QInv'
<1> DEFINE r == [doing[j] EXCEPT !.pc = "mark"]
<1>1. Goes(j, r) /\ r \in Request /\ r.pc = "mark" /\ r.change = doing[j].change /\ UNCHANGED teacherVars
  BY StepGoes DEF QInv
<1>. HIDE DEF r
<1>. QED
  BY <1>1, GoesInv

LEMMA ProcessProgressInv == ASSUME QInv, NEW j \in QJobs, ProcessProgress(j) PROVE QInv'
<1>1. CASE doing[j].change \in Completing
  <2>1. Step(j, "process", "derive") /\ UNCHANGED <<page, results, processed>>
    BY <1>1 DEF ProcessProgress
  <2>. QED
    BY <2>1, StepInv
<1>2. CASE doing[j].change \notin Completing
  <2>1. Step(j, "process", "mark") /\ UNCHANGED <<page, results, processed>>
    BY <1>2 DEF ProcessProgress
  <2>. QED
    BY <1>2, <2>1, OtherDoneInv
<1>. QED
  BY <1>1, <1>2

LEMMA HasResultInv == ASSUME QInv, NEW j \in QJobs, HasResult(j) PROVE QInv'
<1>1. Step(j, "derive", "mark") /\ results # << >> /\ UNCHANGED <<page, results, processed>>
  BY DEF HasResult
<1>. QED
  BY <1>1, OtherDoneInv

LEMMA FindQuestionsInv == ASSUME QInv, NEW j \in QJobs, FindQuestions(j) PROVE QInv'
<1>1. UNCHANGED <<page, results, processed>> /\ \E to \in {"create", "createRead"} : Step(j, "derive", to)
  BY DEF FindQuestions
<1>. QED
  BY <1>1, StepInv

\* A revision the device knows is that of its page or none.
LEMMA KnownInTime == ASSUME QInv, NEW r \in KnownRevision
                     PROVE  r \in Nat /\ page.text \in Nat /\ r <= page.text /\ page.text <= text
<1>1. page \in Edition /\ InTime(page, text) /\ text \in Nat
  BY DEF QInv, QuizTypes, RevisionsInTime
<1>2. page.rev \in Nat /\ page.text \in Nat /\ page.rev <= page.text /\ page.text <= text
  BY <1>1 DEF Edition, InTime
<1>. QED
  BY <1>2 DEF KnownRevision

LEMMA DeriveResultInv == ASSUME QInv, NEW j \in QJobs, DeriveResult(j) PROVE QInv'
<1>1. UNCHANGED <<page, processed>>
  BY DEF DeriveResult
<1>2. ASSUME Step(j, "create", "mark"), NEW r \in KnownRevision, Stored(NoChange, r, page.text)
      PROVE  QInv'
  BY <1>1, <1>2, KnownInTime, StoredInv
<1>3. ASSUME Step(j, "createRead", "mark"), Stored(NoChange, 0, 0)
      PROVE  QInv'
  <2>1. 0 <= text
    BY DEF QInv, QuizTypes
  <2>. QED
    BY <1>1, <1>3, <2>1, StoredInv
<1>. QED
  BY <1>2, <1>3 DEF DeriveResult

LEMMA ProcessAnswerInv == ASSUME QInv, NEW j \in QJobs, ProcessAnswer(j) PROVE QInv'
<1>1. /\ Step(j, "process", "mark") /\ doing[j].change \notin Completing
      /\ UNCHANGED <<page, results, processed>>
  BY QuizAssumption DEF ProcessAnswer
<1>. QED
  BY <1>1, OtherDoneInv

LEMMA ProcessResultInv == ASSUME QInv, NEW j \in QJobs, ProcessResult(j) PROVE QInv'
<1>1. /\ Step(j, "process", "mark") /\ doing[j].change \in Attempts /\ UNCHANGED <<page, processed>>
      /\ \E r \in KnownRevision : Stored(doing[j].change, r, page.text)
  BY DEF ProcessResult
<1>. QED
  BY <1>1, KnownInTime, StoredInv

LEMMA MarkProcessedInv == ASSUME QInv, NEW j \in QJobs, MarkProcessed(j) PROVE QInv'
<1>1. /\ Goes(j, Resting) /\ UNCHANGED <<teacherVars, page>> /\ results' = results /\ doing[j].pc = "mark"
      /\ processed' = processed \cup {doing[j].change}
  BY RestGoes DEF MarkProcessed
<1>2. Resting.pc = "idle"
  BY DEF Resting
<1>3. doing[j].change \in Completing => results # << >>
  BY <1>1 DEF QInv, MarkedIsDone
<1>. QED
  BY <1>1, <1>2, <1>3, RestingIsRequest, GoesInv

LEMMA QuizInitInv == QuizInit => QInv
<1> SUFFICES ASSUME QuizInit
             PROVE  QInv
  OBVIOUS
<1>1. QuizTypes
  BY RestingIsRequest DEF QuizInit, QuizTypes, Edition
<1>2. Resting.pc = "idle"
  BY DEF Resting
<1>3. RevisionsInTime
  BY <1>2 DEF QuizInit, RevisionsInTime, InTime
<1>4. MarkedIsDone /\ CompletedHasResult
  BY <1>2 DEF QuizInit, MarkedIsDone, CompletedHasResult
<1>. QED
  BY <1>1, <1>3, <1>4 DEF QInv

LEMMA QuizNextInv == ASSUME QInv, [QuizNext]_qVars PROVE QInv'
<1>1. CASE UNCHANGED qVars
  BY <1>1 DEF qVars, QInv, QuizTypes, RevisionsInTime, InTime, MarkedIsDone, CompletedHasResult
<1>2. CASE TeacherEdits
  BY <1>2, EditInv DEF TeacherEdits, CreateQuestion, UpdateQuestion, DeleteQuestion, ReorderQuestions
<1>3. ASSUME NEW j \in QJobs, Quizzes(j)
      PROVE  QInv'
  <2>1. CASE FinishProgress(j)
    <3>1. Rest(j, "finish") /\ UNCHANGED <<page, results, processed>>
      BY <2>1 DEF FinishProgress
    <3>. QED
      BY <3>1, RestInv
  <2>2. CASE CheckRead(j)
    <3>1. Step(j, "idle", "read") /\ UNCHANGED <<page, results, processed>>
      BY <2>2 DEF CheckRead
    <3>. QED
      BY <3>1, StepInv
  <2>. QED
    BY <1>3, <2>1, <2>2, ReadRevisionInv, ReadQuestionsInv, CheckAttemptInv, SubmitResultInv, MarkReadInv
       DEF Quizzes
<1>4. ASSUME NEW j \in QJobs, Pushes(j)
      PROVE  QInv'
  BY <1>4, PushInv, ProcessProgressInv, HasResultInv, FindQuestionsInv, DeriveResultInv,
     ProcessAnswerInv, ProcessResultInv, MarkProcessedInv DEF Pushes
<1>5. ASSUME NEW j \in QJobs, Fail(j)
      PROVE  QInv'
  BY <1>5, RestInv DEF Fail
<1>. QED
  BY <1>1, <1>2, <1>3, <1>4, <1>5 DEF QuizNext

\* An attempt is reviewed with the questions the student was asked.
THEOREM ReviewTheorem == QuizSpec => []ReviewShowsAnswered
<1>1. QInv => ReviewShowsAnswered
  <2> SUFFICES ASSUME QInv, NEW n \in DOMAIN results, results[n].rev = rev
               PROVE  results[n].text = text
    BY DEF ReviewShowsAnswered, ReviewAvailable
  <2>1. results[n] \in Result
    BY DEF QInv, QuizTypes
  <2>2. results[n].text \in Nat /\ text \in Nat /\ rev = text
    BY <2>1 DEF Result, QInv, QuizTypes
  <2>. QED
    BY <2>2 DEF QInv, RevisionsInTime, InTime
<1>. QED
  BY <1>1, QuizInitInv, QuizNextInv, PTL DEF QuizSpec

\* A lesson whose completion was acknowledged has a result.
THEOREM CompletedTheorem == QuizSpec => []CompletedHasResult
<1>1. QInv => CompletedHasResult
  BY DEF QInv
<1>. QED
  BY <1>1, QuizInitInv, QuizNextInv, PTL DEF QuizSpec

-----------------------------------------------------------------------------
(***************************************************************************)
(* The pull of a device                                                    *)
(***************************************************************************)

\* What the device lacks of the lessons is ahead of its cursor, or was committed behind it.
AheadOrLate == \A u \in Lacks("lessons") : u \in late \/ Before(cursor["lessons"], Key("lessons", u))

PullTypes == /\ \A x \in open : x.uuid \in Uuids /\ x.kind \in EditKinds /\ x.stamp \in Nat
             /\ clock \in Nat /\ seen \subseteq Uuids
             /\ cursor \in [Feeds -> Nat \X Nat]
             /\ has \in [Feeds -> [Uuids -> Nat]]
             /\ tables \in [Feeds -> [Uuids -> [version : Nat, stamp : Nat]]]

SInv == PullTypes /\ AheadOrLate /\ LessonsArrive

-----------------------------------------------------------------------------
(* The order of the rows and the pages *)

\* A page is the first rows: what is left out comes after each of them.
LEMMA PageIsFirst ==
    ASSUME NEW R, IsFiniteSet(R), NEW key \in [R -> Keys], NEW n \in Nat,
           NEW u \in R, NEW v \in R,
           Cardinality({w \in R : Before(key[w], key[v])}) < n,
           ~(Cardinality({w \in R : Before(key[w], key[u])}) < n)
    PROVE  ~Before(key[u], key[v])
<1> SUFFICES ASSUME Before(key[u], key[v])
             PROVE  FALSE
  OBVIOUS
<1> DEFINE A == {w \in R : Before(key[w], key[u])}
           B == {w \in R : Before(key[w], key[v])}
<1>1. IsFiniteSet(A) /\ IsFiniteSet(B)
  <2>1. A \in SUBSET R /\ B \in SUBSET R
    OBVIOUS
  <2>. HIDE DEF A, B
  <2>. QED
    BY <2>1, FS_Subset
<1>2. A \subseteq B
  <2>1. \A w \in R : key[w] \in Keys
    OBVIOUS
  <2>. QED
    BY <2>1, BeforeOrders
<1>3. Cardinality(A) \in Nat /\ Cardinality(B) \in Nat /\ Cardinality(A) <= Cardinality(B)
  <2>. HIDE DEF A, B
  <2>. QED
    BY <1>1, <1>2, FS_Subset, FS_CardinalityType
<1>. QED
  BY <1>3

-----------------------------------------------------------------------------
(* One lemma for each action *)

LEMMA KeyTypes == ASSUME PullTypes, NEW t \in Feeds, NEW u \in Uuids
                  PROVE  /\ Key(t, u) \in Keys /\ Key(t, u)[2] = u
                         /\ tables[t][u].stamp \in Nat /\ tables[t][u].version \in Nat
<1>1. tables[t][u] \in [version : Nat, stamp : Nat] /\ u \in Nat
  <2>1. tables[t] \in [Uuids -> [version : Nat, stamp : Nat]]
    BY DEF PullTypes
  <2>. QED
    BY <2>1, PullAssumption
<1>. QED
  BY <1>1 DEF Key, Keys

LEMMA RowUpdate ==
    ASSUME NEW r \in [version : Nat, stamp : Nat], NEW m \in Nat, NEW n \in Nat
    PROVE  /\ [r EXCEPT !.version = m, !.stamp = n] \in [version : Nat, stamp : Nat]
           /\ [r EXCEPT !.version = m, !.stamp = n].stamp = n
  OBVIOUS

LEMMA BeginInv == ASSUME SInv, Begin PROVE SInv'
<1>1. PICK u \in Uuids, k \in EditKinds : open' = open \cup {[uuid |-> u, kind |-> k, stamp |-> clock]}
  BY DEF Begin
<1>2. UNCHANGED <<tables, seen, clock, cursor, has, fresh, late>>
  BY DEF Begin
<1>3. PullTypes'
  BY <1>1, <1>2 DEF SInv, PullTypes
<1>. QED
  BY <1>2, <1>3 DEF SInv, AheadOrLate, LessonsArrive, Lacks, Key

LEMMA MillisecondInv == ASSUME SInv, Millisecond PROVE SInv'
<1>1. clock' = clock + 1 /\ UNCHANGED <<tables, seen, open, edits, cursor, has, fresh, late>>
  BY DEF Millisecond
<1>2. PullTypes'
  BY <1>1 DEF SInv, PullTypes
<1>. QED
  BY <1>1, <1>2 DEF SInv, AheadOrLate, LessonsArrive, Lacks, Key

\* Every change touches its lesson.
LEMMA EditsTouch == ASSUME NEW k \in EditKinds PROVE "lessons" \in k.touches
  BY DEF EditKinds, Feeds

LEMMA CommitInv == ASSUME SInv, Commit PROVE SInv'
<1> DEFINE L == "lessons"
<1>1. PICK x \in open :
        /\ open' = open \ {x}
        /\ tables' = [t \in Feeds |-> [tables[t] EXCEPT
                       ![x.uuid].version = IF t \in x.kind.changes THEN @ + 1 ELSE @,
                       ![x.uuid].stamp = IF t \in x.kind.touches THEN x.stamp ELSE @]]
        /\ seen' = IF x.kind.publishes THEN seen \cup {x.uuid} ELSE seen
        /\ fresh' = {}
        /\ late' = IF Before(cursor[L], <<x.stamp, x.uuid>>) THEN late \ {x.uuid} ELSE late \cup {x.uuid}
        /\ UNCHANGED <<edits, clock, cursor, has>>
  BY DEF Commit
<1>2. x.uuid \in Uuids /\ x.kind \in EditKinds /\ x.stamp \in Nat /\ L \in Feeds
  BY DEF SInv, PullTypes, Feeds
<1>3. ASSUME NEW t \in Feeds
      PROVE  /\ tables'[t] \in [Uuids -> [version : Nat, stamp : Nat]]
             /\ \A u \in Uuids \ {x.uuid} : tables'[t][u] = tables[t][u]
             /\ t \in x.kind.touches => tables'[t][x.uuid].stamp = x.stamp
  <2> DEFINE Row == [version : Nat, stamp : Nat]
             u == x.uuid
             row == tables[t][u]
             new == [row EXCEPT !.version = IF t \in x.kind.changes THEN @ + 1 ELSE @,
                                !.stamp = IF t \in x.kind.touches THEN x.stamp ELSE @]
  <2>1. tables[t] \in [Uuids -> Row] /\ row \in Row
    BY <1>2 DEF SInv, PullTypes
  <2>2. tables'[t] = [tables[t] EXCEPT ![u] = new]
    BY <1>1, <2>1
  <2>3. new \in Row /\ (t \in x.kind.touches => new.stamp = x.stamp)
    <3>1. row.version \in Nat /\ row.version + 1 \in Nat /\ row.stamp \in Nat /\ x.stamp \in Nat
      BY <1>2, <2>1
    <3> DEFINE a == IF t \in x.kind.changes THEN row.version + 1 ELSE row.version
               b == IF t \in x.kind.touches THEN x.stamp ELSE row.stamp
    <3>2. new = [row EXCEPT !.version = a, !.stamp = b]
      OBVIOUS
    <3>3. a \in Nat /\ b \in Nat
      BY <3>1
    <3>. HIDE DEF new, row
    <3>4. new \in Row /\ new.stamp = b
      <4>. HIDE DEF a, b
      <4>. QED
        BY <2>1, <3>2, <3>3, RowUpdate
    <3>. QED
      BY <3>4
  <2>. HIDE DEF new, row, Row
  <2>4. /\ tables'[t] \in [Uuids -> Row] /\ tables'[t][u] = new
        /\ \A v \in Uuids \ {u} : tables'[t][v] = tables[t][v]
    BY <1>2, <2>1, <2>2, <2>3
  <2>. QED
    BY <2>3, <2>4 DEF Row
<1>4. PullTypes'
  <2>1. tables' \in [Feeds -> [Uuids -> [version : Nat, stamp : Nat]]]
    BY <1>1, <1>3
  <2>. QED
    BY <1>1, <1>2, <1>3, <2>1 DEF SInv, PullTypes
<1>5. L \in x.kind.touches
  BY <1>2, EditsTouch
<1>6. ASSUME NEW u \in Lacks(L)'
      PROVE  u \in late' \/ Before(cursor[L], Key(L, u)')
  <2>1. CASE u = x.uuid
    <3>1. Key(L, u)' = <<x.stamp, x.uuid>>
      BY <1>2, <1>3, <1>5, <2>1 DEF Key
    <3>. QED
      BY <1>1, <2>1, <3>1
  <2>2. CASE u # x.uuid
    <3>1. u \in Lacks(L) /\ Key(L, u)' = Key(L, u)
      BY <1>1, <1>2, <1>3, <1>6, <2>2 DEF Lacks, Key, SInv, PullTypes
    <3>. QED
      BY <1>1, <2>2, <3>1 DEF SInv, AheadOrLate
  <2>. QED
    BY <2>1, <2>2
<1>7. AheadOrLate'
  BY <1>1, <1>6 DEF AheadOrLate
<1>8. LessonsArrive'
  BY <1>1 DEF LessonsArrive
<1>. QED
  BY <1>4, <1>7, <1>8 DEF SInv

LEMMA PullInv == ASSUME SInv, NEW t \in Feeds, Pull(t) PROVE SInv'
<1> DEFINE rest == Remaining(t)
           pull == {u \in rest : Cardinality({v \in rest : Before(Key(t, v), Key(t, u))}) < Limit}
           last == CHOOSE u \in pull : \A v \in pull : ~Before(Key(t, u), Key(t, v))
<1>1. /\ has' = [has EXCEPT ![t] = [u \in Uuids |-> IF u \in pull THEN tables[t][u].version ELSE has[t][u]]]
      /\ cursor' = [cursor EXCEPT ![t] = IF pull = {} THEN @ ELSE Key(t, last)]
      /\ fresh' = IF pull = rest THEN fresh \cup {t} ELSE fresh
      /\ UNCHANGED <<tables, seen, open, edits, clock, late>>
  BY DEF Pull
<1>2. /\ rest \subseteq Uuids /\ pull \subseteq rest /\ IsFiniteSet(rest) /\ IsFiniteSet(pull)
      /\ \A u \in Uuids : Key(t, u) \in Keys
  <2>1. rest \in SUBSET Uuids
    <3>1. rest \subseteq seen
      BY DEF Remaining
    <3>. QED
      BY <3>1 DEF SInv, PullTypes
  <2>2. pull \in SUBSET rest
    OBVIOUS
  <2>3. IsFiniteSet(rest) /\ IsFiniteSet(pull)
    BY <2>1, <2>2, PullAssumption, FS_Subset
  <2>. QED
    BY <2>1, <2>2, <2>3, KeyTypes DEF SInv
<1>3. ASSUME pull # {}
      PROVE  last \in pull /\ \A v \in pull : ~Before(Key(t, last), Key(t, v))
  <2> DEFINE key == [u \in pull |-> Key(t, u)]
  <2>1. key \in [pull -> Keys]
    BY <1>2
  <2>. HIDE DEF pull
  <2>2. \E u \in pull : \A v \in pull : ~Before(key[u], key[v])
    <3>. HIDE DEF key
    <3>. QED
      BY <1>2, <1>3, <2>1, LastRow
  <2>3. \E u \in pull : \A v \in pull : ~Before(Key(t, u), Key(t, v))
    BY <2>2
  <2>. QED
    BY <2>3
<1>4. ASSUME NEW u \in rest \ pull, NEW v \in pull
      PROVE  Before(Key(t, v), Key(t, u))
  <2> DEFINE key == [w \in rest |-> Key(t, w)]
  <2>1. key \in [rest -> Keys] /\ Limit \in Nat /\ u \in rest /\ v \in rest
    BY <1>2, PullAssumption
  <2>2. /\ Cardinality({w \in rest : Before(key[w], key[v])}) < Limit
        /\ ~(Cardinality({w \in rest : Before(key[w], key[u])}) < Limit)
    <3>1. /\ {w \in rest : Before(key[w], key[v])} = {w \in rest : Before(Key(t, w), Key(t, v))}
          /\ {w \in rest : Before(key[w], key[u])} = {w \in rest : Before(Key(t, w), Key(t, u))}
      BY <2>1
    <3>. QED
      BY <1>4, <3>1
  <2>3. ~Before(key[u], key[v])
    <3>. HIDE DEF key, rest, pull
    <3>. QED
      BY <1>2, <2>1, <2>2, PageIsFirst
  <2>4. ~Before(Key(t, u), Key(t, v)) /\ Key(t, u) \in Keys /\ Key(t, v) \in Keys
    BY <1>2, <2>1, <2>3
  <2>5. Key(t, u) # Key(t, v)
    <3>1. u # v /\ u \in Uuids /\ v \in Uuids
      BY <1>2, <1>4
    <3>. QED
      BY <3>1, KeyTypes DEF SInv
  <2>. QED
    BY <2>4, <2>5, BeforeOrders
<1>. HIDE DEF pull, last
<1>5. /\ has' \in [Feeds -> [Uuids -> Nat]] /\ cursor' \in [Feeds -> Keys]
      /\ \A u \in Uuids : has'[t][u] = IF u \in pull THEN tables[t][u].version ELSE has[t][u]
      /\ cursor'[t] = IF pull = {} THEN cursor[t] ELSE Key(t, last)
      /\ \A f \in Feeds \ {t} : has'[f] = has[f] /\ cursor'[f] = cursor[f]
  <2> DEFINE got == [u \in Uuids |-> IF u \in pull THEN tables[t][u].version ELSE has[t][u]]
             at == IF pull = {} THEN cursor[t] ELSE Key(t, last)
  <2>1. has \in [Feeds -> [Uuids -> Nat]] /\ cursor \in [Feeds -> Keys]
    BY DEF SInv, PullTypes, Keys
  <2>2. got \in [Uuids -> Nat]
    BY <2>1, KeyTypes DEF SInv
  <2>3. at \in Keys
    <3>1. pull # {} => last \in Uuids
      BY <1>2, <1>3
    <3>. QED
      BY <1>2, <2>1, <3>1
  <2>4. has' = [has EXCEPT ![t] = got] /\ cursor' = [cursor EXCEPT ![t] = at]
    BY <1>1, <2>1
  <2>5. \A u \in Uuids : got[u] = IF u \in pull THEN tables[t][u].version ELSE has[t][u]
    OBVIOUS
  <2>. HIDE DEF got
  <2>. QED
    BY <2>1, <2>2, <2>3, <2>4, <2>5
<1>6. PullTypes'
  BY <1>1, <1>5 DEF SInv, PullTypes, Keys
<1>7. CASE t # "lessons"
  <2>1. /\ "lessons" \in Feeds \ {t} /\ ("lessons" \in fresh' => "lessons" \in fresh)
    BY <1>1, <1>7 DEF Feeds
  <2>2. has'["lessons"] = has["lessons"] /\ cursor'["lessons"] = cursor["lessons"]
    BY <1>5, <2>1
  <2>. QED
    BY <1>1, <1>6, <2>1, <2>2 DEF SInv, AheadOrLate, LessonsArrive, Lacks, Key
<1>8. CASE t = "lessons"
  <2>1. ASSUME NEW u \in Lacks(t)'
        PROVE  u \in Lacks(t) /\ u \notin pull /\ u \in Uuids /\ u \in seen
    <3>1. u \in seen /\ u \in Uuids /\ has'[t][u] # tables[t][u].version
      BY <1>1, <2>1 DEF Lacks, SInv, PullTypes
    <3>2. u \notin pull /\ has'[t][u] = has[t][u]
      BY <1>5, <3>1
    <3>. QED
      BY <3>1, <3>2 DEF Lacks
  <2>2. ASSUME NEW u \in Lacks(t)'
        PROVE  u \in late \/ Before(cursor'[t], Key(t, u))
    <3>1. u \in late \/ Before(cursor[t], Key(t, u))
      BY <1>8, <2>1, <2>2 DEF SInv, AheadOrLate
    <3>2. CASE u \notin late /\ pull # {}
      <4>1. u \in rest \ pull
        BY <2>1, <2>2, <3>1, <3>2 DEF Remaining
      <4>. QED
        BY <1>3, <1>4, <1>5, <3>2, <4>1
    <3>3. CASE u \notin late /\ pull = {}
      BY <1>5, <3>1, <3>3
    <3>. QED
      BY <3>2, <3>3
  <2>3. AheadOrLate'
    BY <1>1, <1>8, <2>2 DEF AheadOrLate, Key
  <2>4. ASSUME "lessons" \in fresh', NEW u \in Lacks(t)'
        PROVE  u \in late
    <3>1. t \notin fresh
      BY DEF Pull
    <3>2. pull = rest
      BY <1>1, <1>8, <2>4, <3>1
    <3>3. u \notin rest /\ u \in seen /\ u \in Lacks(t)
      BY <2>1, <2>4, <3>2
    <3>4. ~Before(cursor[t], Key(t, u))
      BY <3>3 DEF Remaining
    <3>. QED
      BY <1>8, <3>3, <3>4 DEF SInv, AheadOrLate
  <2>5. LessonsArrive'
    BY <1>1, <1>8, <2>4 DEF LessonsArrive
  <2>. QED
    BY <1>6, <2>3, <2>5 DEF SInv
<1>. QED
  BY <1>7, <1>8

LEMMA SyncInitInv == SyncInit => SInv
<1> SUFFICES ASSUME SyncInit
             PROVE  SInv
  OBVIOUS
<1>1. /\ tables \in [Feeds -> [Uuids -> [version : {1}, stamp : {0, 1}]]] /\ seen \subseteq Uuids
      /\ open = {} /\ clock = 1 /\ cursor = [t \in Feeds |-> <<0, 0>>]
      /\ has = [t \in Feeds |-> [u \in Uuids |-> 0]] /\ fresh = {} /\ "lessons" \in Feeds
  BY DEF SyncInit, Feeds
<1>2. PullTypes
  <2>1. tables \in [Feeds -> [Uuids -> [version : Nat, stamp : Nat]]]
    <3>1. [version : {1}, stamp : {0, 1}] \subseteq [version : Nat, stamp : Nat]
      OBVIOUS
    <3>. QED
      BY <1>1, <3>1
  <2>. QED
    BY <1>1, <2>1 DEF PullTypes
<1>3. ASSUME NEW u \in Uuids
      PROVE  Before(cursor["lessons"], Key("lessons", u))
  <2>1. u \in Nat \ {0} /\ tables["lessons"][u].stamp \in Nat /\ cursor["lessons"] = <<0, 0>>
    BY <1>1, <1>2, KeyTypes, PullAssumption
  <2>. QED
    BY <2>1 DEF Before, Key
<1>4. AheadOrLate /\ LessonsArrive
  BY <1>1, <1>3 DEF AheadOrLate, LessonsArrive, Lacks
<1>. QED
  BY <1>2, <1>4 DEF SInv

LEMMA SyncNextInv == ASSUME SInv, [SyncNext]_syncVars PROVE SInv'
<1>1. CASE UNCHANGED syncVars
  BY <1>1 DEF syncVars, SInv, PullTypes, AheadOrLate, LessonsArrive, Lacks, Key
<1>. QED
  BY <1>1, BeginInv, CommitInv, MillisecondInv, PullInv DEF SyncNext

\* A device that has pulled to the end lacks only what was committed behind it.
THEOREM LessonsTheorem == SyncSpec => []LessonsArrive
<1>1. SInv => LessonsArrive
  BY DEF SInv
<1>. QED
  BY <1>1, SyncInitInv, SyncNextInv, PTL DEF SyncSpec

-----------------------------------------------------------------------------
(***************************************************************************)
(* Ordered lists                                                           *)
(***************************************************************************)

Distinct(rs, l) == \A r, s \in In(rs, l) : rs[r].place = rs[s].place => r = s

\* A list is being put in order: its rows were moved, or will be.
Ordering(l) == \E j \in Editors : editing[j].op \in {"renumber", "order"} /\ editing[j].list = l

\* What a request has read is so, as long as no other has overlapped it.
HasRead(e) ==
    /\ e.op = "create" => e.list \in Open /\ e.place \notin Taken(e.list)
    /\ e.op = "change" =>
         /\ e.row \in Alive /\ e.list \in Open \cup {0}
         /\ LET list == IF e.list = 0 THEN rows[e.row].list ELSE e.list
                place == IF e.place = 0 THEN rows[e.row].place ELSE e.place
            IN  \A s \in In(rows, list) \ {e.row} : rows[s].place # place
    /\ e.op \in {"move", "move within"} =>
         /\ e.row \in Alive /\ e.list \in Open
         /\ IF e.op = "move" THEN e.from = rows[e.row].list ELSE e.list = rows[e.row].list
    /\ e.op = "order" => IsInjective(e.order) /\ DOMAIN e.order \subseteq In(rows, e.list)
    /\ e.op = "shut" => In(rows, e.list) = {}

ByTurns == tidy => \A j \in Editors : editing[j] # NotEditing =>
    HasRead(editing[j]) /\ \A k \in Editors \ {j} : editing[k] = NotEditing

Placing == tidy => \A l \in Lists : Distinct(rows, l) \/ Ordering(l)
Housed == (tidy /\ kind # "lessons") => \A r \in Alive : rows[r].list \in Open
Paying == kind = "payments" => /\ tidy /\ shut = {} /\ \A j \in Editors : editing[j] = NotEditing
                               /\ \A r \in DOMAIN rows : rows[r].list = 1

ListRow == [list : Lists, place : Nat, live : BOOLEAN]
Order == UNION {[S -> Nat] : S \in SUBSET Nat}
EditRow == [op : {"none", "create", "change", "order", "move", "move within", "renumber", "shut"},
            row : Nat, from : Nat, list : Nat, place : Nat, order : Order]

ListTypes ==
    /\ kind \in Kinds /\ shut \subseteq Lists /\ tidy \in BOOLEAN
    /\ rows \in Seq(ListRow)
    /\ editing \in [Editors -> EditRow]
    /\ \A j \in Editors : /\ editing[j].list \in Lists \cup {0}
                          /\ editing[j].op \notin {"none", "change"} => editing[j].list \in Lists

OInv == ListTypes /\ ByTurns /\ Placing /\ Housed /\ Paying

-----------------------------------------------------------------------------
(* Lists and orders *)

LEMMA InRows ==
    ASSUME NEW rs \in Seq(ListRow), NEW l
    PROVE  In(rs, l) \subseteq DOMAIN rs /\ IsFiniteSet(In(rs, l)) /\ In(rs, l) \in SUBSET Nat
<1>1. DOMAIN rs = 1 .. Len(rs) /\ Len(rs) \in Nat
  OBVIOUS
<1>2. IsFiniteSet(1 .. Len(rs))
  BY <1>1, FS_Interval
<1>3. In(rs, l) \in SUBSET (1 .. Len(rs))
  BY <1>1 DEF In
<1>. QED
  BY <1>1, <1>2, <1>3, FS_Subset

LEMMA RowTypes == ASSUME NEW rs \in Seq(ListRow), NEW r \in DOMAIN rs
                  PROVE  /\ rs[r] \in ListRow /\ rs[r].list \in Lists /\ rs[r].place \in Nat
                         /\ rs[r].live \in BOOLEAN
<1>1. rs[r] \in ListRow
  OBVIOUS
<1>. QED
  BY <1>1 DEF ListRow

LEMMA OrdersAre ==
    ASSUME NEW S \in SUBSET Nat, IsFiniteSet(S), NEW f \in Orders(S)
    PROVE  f \in [S -> Nat] /\ f \in Order /\ DOMAIN f = S /\ IsInjective(f)
<1>1. Cardinality(S) \in Nat
  BY FS_CardinalityType
<1>2. f \in [S -> 1 .. Cardinality(S)] /\ IsInjective(f)
  BY DEF Orders
<1>3. f \in [S -> Nat]
  BY <1>1, <1>2
<1>. QED
  BY <1>2, <1>3 DEF Order

\* What a numbering leaves and what it changes.
LEMMA PlacedIs ==
    ASSUME NEW rs \in Seq(ListRow), NEW order \in Order
    PROVE  /\ Placed(rs, order) \in Seq(ListRow) /\ DOMAIN Placed(rs, order) = DOMAIN rs
           /\ \A r \in DOMAIN rs :
                /\ Placed(rs, order)[r].list = rs[r].list /\ Placed(rs, order)[r].live = rs[r].live
                /\ Placed(rs, order)[r].place = IF r \in DOMAIN order THEN order[r] ELSE rs[r].place
           /\ \A l : In(Placed(rs, order), l) = In(rs, l)
<1> DEFINE P == Placed(rs, order)
<1>1. DOMAIN rs = 1 .. Len(rs) /\ Len(rs) \in Nat
  OBVIOUS
<1>2. PICK S \in SUBSET Nat : order \in [S -> Nat]
  BY DEF Order
<1>3. DOMAIN P = DOMAIN rs /\ P = [r \in DOMAIN rs |-> P[r]]
  BY DEF Placed
<1>4. ASSUME NEW r \in DOMAIN rs
      PROVE  /\ P[r] \in ListRow /\ P[r].list = rs[r].list /\ P[r].live = rs[r].live
             /\ P[r].place = IF r \in DOMAIN order THEN order[r] ELSE rs[r].place
  <2>1. rs[r] \in ListRow
    BY RowTypes
  <2>2. CASE r \in DOMAIN order
    <3>1. order[r] \in Nat /\ P[r] = [rs[r] EXCEPT !.place = order[r]]
      BY <1>2, <2>2 DEF Placed
    <3>. QED
      BY <2>1, <2>2, <3>1 DEF ListRow
  <2>3. CASE r \notin DOMAIN order
    <3>1. P[r] = rs[r]
      BY <2>3 DEF Placed
    <3>. QED
      BY <2>1, <2>3, <3>1 DEF ListRow
  <2>. QED
    BY <2>2, <2>3
<1>. HIDE DEF P
<1>5. P \in Seq(ListRow)
  <2>1. P \in [1 .. Len(rs) -> ListRow]
    BY <1>1, <1>3, <1>4
  <2>. QED
    BY <1>1, <2>1
<1>6. \A l : In(P, l) = In(rs, l)
  BY <1>3, <1>4 DEF In
<1>. QED
  BY <1>3, <1>4, <1>5, <1>6 DEF P

LEMMA NextPlaceIsFree == ASSUME ListTypes, NEW l
                         PROVE  NextPlace(l) \in Nat /\ NextPlace(l) \notin Taken(l)
<1> DEFINE R == In(rows, l)
<1>1. rows \in Seq(ListRow) /\ IsFiniteSet(R) /\ R \subseteq DOMAIN rows
  BY InRows DEF ListTypes
<1>2. \A r \in R : rows[r].place \in Nat
  BY <1>1, RowTypes
<1>3. CASE Taken(l) = {}
  BY <1>3 DEF NextPlace
<1>4. CASE Taken(l) # {}
  <2> DEFINE num == [r \in R |-> rows[r].place]
             p == CHOOSE q \in Taken(l) : \A t \in Taken(l) : t <= q
  <2>1. num \in [R -> Nat] /\ R # {}
    BY <1>2, <1>4 DEF Taken
  <2>2. \E u \in R : \A v \in R : num[v] <= num[u]
    <3>. HIDE DEF num, R
    <3>. QED
      BY <1>1, <2>1, Greatest
  <2>3. \E q \in Taken(l) : \A t \in Taken(l) : t <= q
    BY <2>2 DEF Taken
  <2>4. p \in Taken(l) /\ \A t \in Taken(l) : t <= p
    BY <2>3
  <2>5. p \in Nat /\ \A t \in Taken(l) : t \in Nat
    BY <1>2, <2>4 DEF Taken
  <2>6. NextPlace(l) = 1 + p
    BY <1>4 DEF NextPlace
  <2>. HIDE DEF p
  <2>. QED
    BY <2>4, <2>5, <2>6
<1>. QED
  BY <1>3, <1>4

LEMMA PlacesAreNumbers == ASSUME NEW p \in Positions PROVE p \in Nat
  BY ListsAssumption DEF Positions

LEMMA NotEditingIs ==
    /\ NotEditing \in EditRow /\ NotEditing.op = "none" /\ NotEditing.list = 0
    /\ NoOrder \in Order
<1>1. NoOrder \in [{} -> Nat]
  BY DEF NoOrder
<1>2. NoOrder \in Order
  BY <1>1 DEF Order
<1>. QED
  BY <1>2 DEF NotEditing, EditRow

\* The requests, field by field.
Asked(o, r, f, l, p, ord) == [op |-> o, row |-> r, from |-> f, list |-> l, place |-> p, order |-> ord]

LEMMA FilledShut ==
    ASSUME NEW o, NEW l
    PROVE  [NotEditing EXCEPT !.op = o, !.list = l] = Asked(o, 0, 0, l, 0, NoOrder)
<1>1. [NotEditing EXCEPT !.op = o, !.list = l] =
        [[NotEditing EXCEPT !.op = o] EXCEPT !.list = l]
  OBVIOUS
<1>2. [NotEditing EXCEPT !.op = o] = Asked(o, 0, 0, 0, 0, NoOrder)
  BY DEF NotEditing, Asked
<1>3. /\ [Asked(o, 0, 0, 0, 0, NoOrder) EXCEPT !.list = l] = Asked(o, 0, 0, l, 0, NoOrder)
  BY DEF Asked
<1>. QED
  BY <1>1, <1>2, <1>3

LEMMA FilledCreate ==
    ASSUME NEW o, NEW l, NEW p
    PROVE  [NotEditing EXCEPT !.op = o, !.list = l, !.place = p] = Asked(o, 0, 0, l, p, NoOrder)
<1>1. [NotEditing EXCEPT !.op = o, !.list = l, !.place = p] =
        [[[NotEditing EXCEPT !.op = o] EXCEPT !.list = l] EXCEPT !.place = p]
  OBVIOUS
<1>2. [NotEditing EXCEPT !.op = o] = Asked(o, 0, 0, 0, 0, NoOrder)
  BY DEF NotEditing, Asked
<1>3. /\ [Asked(o, 0, 0, 0, 0, NoOrder) EXCEPT !.list = l] = Asked(o, 0, 0, l, 0, NoOrder)
      /\ [Asked(o, 0, 0, l, 0, NoOrder) EXCEPT !.place = p] = Asked(o, 0, 0, l, p, NoOrder)
  BY DEF Asked
<1>. QED
  BY <1>1, <1>2, <1>3

LEMMA FilledChange ==
    ASSUME NEW o, NEW r, NEW l, NEW p
    PROVE  [NotEditing EXCEPT !.op = o, !.row = r, !.list = l, !.place = p] = Asked(o, r, 0, l, p, NoOrder)
<1>1. [NotEditing EXCEPT !.op = o, !.row = r, !.list = l, !.place = p] =
        [[[[NotEditing EXCEPT !.op = o] EXCEPT !.row = r] EXCEPT !.list = l] EXCEPT !.place = p]
  OBVIOUS
<1>2. [NotEditing EXCEPT !.op = o] = Asked(o, 0, 0, 0, 0, NoOrder)
  BY DEF NotEditing, Asked
<1>3. /\ [Asked(o, 0, 0, 0, 0, NoOrder) EXCEPT !.row = r] = Asked(o, r, 0, 0, 0, NoOrder)
      /\ [Asked(o, r, 0, 0, 0, NoOrder) EXCEPT !.list = l] = Asked(o, r, 0, l, 0, NoOrder)
      /\ [Asked(o, r, 0, l, 0, NoOrder) EXCEPT !.place = p] = Asked(o, r, 0, l, p, NoOrder)
  BY DEF Asked
<1>. QED
  BY <1>1, <1>2, <1>3

LEMMA FilledOrder ==
    ASSUME NEW o, NEW l, NEW ord
    PROVE  [NotEditing EXCEPT !.op = o, !.list = l, !.order = ord] = Asked(o, 0, 0, l, 0, ord)
<1>1. [NotEditing EXCEPT !.op = o, !.list = l, !.order = ord] =
        [[[NotEditing EXCEPT !.op = o] EXCEPT !.list = l] EXCEPT !.order = ord]
  OBVIOUS
<1>2. [NotEditing EXCEPT !.op = o] = Asked(o, 0, 0, 0, 0, NoOrder)
  BY DEF NotEditing, Asked
<1>3. /\ [Asked(o, 0, 0, 0, 0, NoOrder) EXCEPT !.list = l] = Asked(o, 0, 0, l, 0, NoOrder)
      /\ [Asked(o, 0, 0, l, 0, NoOrder) EXCEPT !.order = ord] = Asked(o, 0, 0, l, 0, ord)
  BY DEF Asked
<1>. QED
  BY <1>1, <1>2, <1>3

LEMMA FilledMove ==
    ASSUME NEW o, NEW r, NEW f, NEW l, NEW p
    PROVE  [NotEditing EXCEPT !.op = o, !.row = r, !.from = f, !.list = l, !.place = p] = Asked(o, r, f, l, p, NoOrder)
<1>1. [NotEditing EXCEPT !.op = o, !.row = r, !.from = f, !.list = l, !.place = p] =
        [[[[[NotEditing EXCEPT !.op = o] EXCEPT !.row = r] EXCEPT !.from = f] EXCEPT !.list = l] EXCEPT !.place = p]
  OBVIOUS
<1>2. [NotEditing EXCEPT !.op = o] = Asked(o, 0, 0, 0, 0, NoOrder)
  BY DEF NotEditing, Asked
<1>3. /\ [Asked(o, 0, 0, 0, 0, NoOrder) EXCEPT !.row = r] = Asked(o, r, 0, 0, 0, NoOrder)
      /\ [Asked(o, r, 0, 0, 0, NoOrder) EXCEPT !.from = f] = Asked(o, r, f, 0, 0, NoOrder)
      /\ [Asked(o, r, f, 0, 0, NoOrder) EXCEPT !.list = l] = Asked(o, r, f, l, 0, NoOrder)
      /\ [Asked(o, r, f, l, 0, NoOrder) EXCEPT !.place = p] = Asked(o, r, f, l, p, NoOrder)
  BY DEF Asked
<1>4. [[[NotEditing EXCEPT !.op = o] EXCEPT !.row = r] EXCEPT !.from = f] = Asked(o, r, f, 0, 0, NoOrder)
  BY <1>2, <1>3
<1>. QED
  BY <1>1, <1>3, <1>4

LEMMA ListsAreNumbers == ASSUME NEW l \in Lists PROVE l \in Nat
  BY DEF Lists

-----------------------------------------------------------------------------
(* Reading and writing *)

\* While no request has overlapped another, what the one at work has read is so,
\* and only the list it puts in order is out of order.
LEMMA Turn ==
    ASSUME OInv, tidy, NEW j \in Editors, editing[j].op # "none"
    PROVE  /\ HasRead(editing[j]) /\ \A k \in Editors \ {j} : editing[k] = NotEditing
           /\ \A l \in Lists : \/ Distinct(rows, l)
                               \/ editing[j].op \in {"renumber", "order"} /\ editing[j].list = l
<1>1. editing[j] # NotEditing
  BY NotEditingIs
<1>2. HasRead(editing[j]) /\ \A k \in Editors \ {j} : editing[k] = NotEditing
  BY <1>1 DEF OInv, ByTurns
<1>. QED
  BY <1>2, NotEditingIs DEF OInv, Placing, Ordering

\* Nobody is at work: every list is in order.
LEMMA Idle == ASSUME OInv, tidy, \A j \in Editors : editing[j] = NotEditing
              PROVE  \A l \in Lists : Distinct(rows, l)
  BY NotEditingIs DEF OInv, Placing, Ordering

LEMMA ReadInv ==
    ASSUME OInv, NEW j \in Editors, NEW k, k # "payments", NEW r \in EditRow, Read(j, k, r), HasRead(r),
           r.list \in Lists \cup {0}, r.op \notin {"none", "change"} => r.list \in Lists
    PROVE  OInv'
<1>1. /\ kind = k /\ editing[j] = NotEditing /\ editing' = [editing EXCEPT ![j] = r]
      /\ UNCHANGED <<kind, rows, shut>> /\ tidy' = (tidy /\ \A i \in Editors : editing[i] = NotEditing)
  BY DEF Read, Overlaps
<1>2. /\ editing' \in [Editors -> EditRow] /\ editing'[j] = r
      /\ \A i \in Editors \ {j} : editing'[i] = editing[i]
  BY <1>1 DEF OInv, ListTypes
<1>3. ListTypes'
  BY <1>1, <1>2 DEF OInv, ListTypes
<1>4. HasRead(r)'
  BY <1>1 DEF HasRead, Open, Taken, Alive
<1>5. ByTurns'
  BY <1>1, <1>2, <1>4 DEF ByTurns
<1>6. Placing'
  BY <1>1, Idle DEF Placing
<1>. QED
  BY <1>1, <1>3, <1>5, <1>6 DEF OInv, Housed, Paying, Open, Alive

\* A request is done.
LEMMA WroteInv ==
    ASSUME OInv, NEW j \in Editors, editing[j].op # "none", editing' = [editing EXCEPT ![j] = NotEditing],
           kind' = kind, tidy' \in BOOLEAN, tidy' => tidy, rows' \in Seq(ListRow), shut' \subseteq Lists,
           tidy' => \A l \in Lists : Distinct(rows', l),
           Housed'
    PROVE  OInv'
<1>1. /\ editing' \in [Editors -> EditRow] /\ editing'[j] = NotEditing
      /\ \A i \in Editors \ {j} : editing'[i] = editing[i]
  BY NotEditingIs DEF OInv, ListTypes
<1>2. ListTypes'
  BY <1>1, NotEditingIs DEF OInv, ListTypes
<1>3. ByTurns'
  BY <1>1, Turn DEF ByTurns
<1>4. Placing'
  BY DEF Placing
<1>5. Paying'
  BY NotEditingIs DEF OInv, Paying
<1>. QED
  BY <1>2, <1>3, <1>4, <1>5 DEF OInv

\* Something is done at once, while the requests wait.
LEMMA AtOnceInv ==
    ASSUME OInv, UNCHANGED <<kind, editing>>, tidy' = (tidy /\ \A i \in Editors : editing[i] = NotEditing),
           rows' \in Seq(ListRow), shut' \subseteq Lists,
           tidy' => \A l \in Lists : Distinct(rows', l),
           kind = "payments" => shut' = {} /\ \A r \in DOMAIN rows' : rows'[r].list = 1,
           Housed'
    PROVE  OInv'
<1>1. ListTypes'
  BY DEF OInv, ListTypes
<1>2. ByTurns' /\ Placing'
  BY DEF ByTurns, Placing
<1>3. Paying'
  BY DEF OInv, Paying
<1>. QED
  BY <1>1, <1>2, <1>3 DEF OInv

-----------------------------------------------------------------------------
(* What is read *)

LEMMA CreateIfFreeInv == ASSUME OInv, NEW j \in Editors, NEW k, k # "payments", CreateIfFree(j, k) PROVE OInv'
<1>1. PICK l \in Open, p \in Positions :
        p \notin Taken(l) /\ Read(j, k, [NotEditing EXCEPT !.op = "create", !.list = l, !.place = p])
  BY DEF CreateIfFree
<1> DEFINE r == [NotEditing EXCEPT !.op = "create", !.list = l, !.place = p]
<1>2. r = Asked("create", 0, 0, l, p, NoOrder)
  BY FilledCreate
<1>3. l \in Lists /\ l \in Nat /\ p \in Nat
  BY PlacesAreNumbers, ListsAreNumbers DEF Open
<1>4. Read(j, k, r)
  BY <1>1
<1>. HIDE DEF r
<1>5. r \in EditRow
  BY <1>2, <1>3, NotEditingIs DEF EditRow, Asked
<1>6. HasRead(r)
  BY <1>1, <1>2 DEF HasRead, Asked
<1>. QED
  BY <1>2, <1>3, <1>4, <1>5, <1>6, ReadInv DEF Asked

LEMMA CreateAnywayInv == ASSUME OInv, NEW j \in Editors, NEW k, k # "payments", CreateAnyway(j, k) PROVE OInv'
<1>1. PICK l \in Open, q \in Positions :
        Read(j, k, [NotEditing EXCEPT !.op = "create", !.list = l,
                                      !.place = IF q \in Taken(l) THEN NextPlace(l) ELSE q])
  BY DEF CreateAnyway
<1> DEFINE p == IF q \in Taken(l) THEN NextPlace(l) ELSE q
           r == [NotEditing EXCEPT !.op = "create", !.list = l, !.place = p]
<1>2. r = Asked("create", 0, 0, l, p, NoOrder)
  BY FilledCreate
<1>3. l \in Lists /\ l \in Nat /\ p \in Nat /\ p \notin Taken(l)
  BY PlacesAreNumbers, NextPlaceIsFree, ListsAreNumbers DEF Open, OInv
<1>4. Read(j, k, r)
  BY <1>1
<1>. HIDE DEF r, p
<1>5. r \in EditRow
  BY <1>2, <1>3, NotEditingIs DEF EditRow, Asked
<1>6. HasRead(r)
  BY <1>1, <1>2, <1>3 DEF HasRead, Asked
<1>. QED
  BY <1>2, <1>3, <1>4, <1>5, <1>6, ReadInv DEF Asked

LEMMA CreateSubjectInv == ASSUME OInv, NEW j \in Editors, CreateSubject(j) PROVE OInv'
<1>1. PICK l \in Open :
        Read(j, "subjects", [NotEditing EXCEPT !.op = "create", !.list = l, !.place = NextPlace(l)])
  BY DEF CreateSubject
<1> DEFINE p == NextPlace(l)
           r == [NotEditing EXCEPT !.op = "create", !.list = l, !.place = p]
<1>2. r = Asked("create", 0, 0, l, p, NoOrder)
  BY FilledCreate
<1>3. l \in Lists /\ l \in Nat /\ p \in Nat /\ p \notin Taken(l)
  BY NextPlaceIsFree, ListsAreNumbers DEF Open, OInv
<1>4. Read(j, "subjects", r)
  BY <1>1
<1>. HIDE DEF r, p
<1>5. r \in EditRow
  BY <1>2, <1>3, NotEditingIs DEF EditRow, Asked
<1>6. HasRead(r)
  BY <1>1, <1>2, <1>3 DEF HasRead, Asked
<1>. QED
  BY <1>2, <1>3, <1>4, <1>5, <1>6, ReadInv DEF Asked

LEMMA AliveAre == ASSUME OInv, NEW r \in Alive
                  PROVE  /\ r \in DOMAIN rows /\ r \in Nat /\ rows[r].live /\ r \in In(rows, rows[r].list)
                         /\ rows[r].list \in Lists /\ rows[r].place \in Nat /\ rows \in Seq(ListRow)
<1>1. rows \in Seq(ListRow)
  BY DEF OInv, ListTypes
<1>2. r \in DOMAIN rows /\ rows[r].live
  BY DEF Alive, In
<1>. QED
  BY <1>1, <1>2, RowTypes DEF In

LEMMA ChangeInv ==
    ASSUME OInv, NEW j \in Editors, NEW k, k # "payments", NEW lists, lists \subseteq Open \cup {0},
           Change(j, k, lists)
    PROVE  OInv'
<1>1. PICK i \in Alive, l \in lists, p \in Positions \cup {0} :
        LET list == IF l = 0 THEN rows[i].list ELSE l
            place == IF p = 0 THEN rows[i].place ELSE p
        IN  /\ \A s \in In(rows, list) \ {i} : rows[s].place # place
            /\ Read(j, k, [NotEditing EXCEPT !.op = "change", !.row = i, !.list = l, !.place = p])
  BY DEF Change
<1> DEFINE r == [NotEditing EXCEPT !.op = "change", !.row = i, !.list = l, !.place = p]
<1>2. r = Asked("change", i, 0, l, p, NoOrder)
  BY FilledChange
<1>3. l \in Open \cup {0} /\ l \in Lists \cup {0} /\ l \in Nat /\ p \in Nat /\ i \in Nat
  BY PlacesAreNumbers, AliveAre, ListsAreNumbers DEF Open
<1>4. Read(j, k, r)
  BY <1>1
<1>. HIDE DEF r
<1>5. r \in EditRow
  BY <1>2, <1>3, NotEditingIs DEF EditRow, Asked
<1>6. HasRead(r)
  BY <1>1, <1>2, <1>3 DEF HasRead, Asked
<1>. QED
  BY <1>2, <1>3, <1>4, <1>5, <1>6, ReadInv DEF Asked

LEMMA ReorderInv ==
    ASSUME OInv, NEW j \in Editors, NEW k, k # "payments", Reorder(j, k, Some) \/ Reorder(j, k, All)
    PROVE  OInv'
<1>1. PICK l \in Open : \E set \in SUBSET In(rows, l) : \E order \in Orders(set) :
        Read(j, k, [NotEditing EXCEPT !.op = "order", !.list = l, !.order = order])
  <2>1. \A l \in Open : l \in Lists /\ All[l] \subseteq SUBSET In(rows, l) /\ Some[l] \subseteq SUBSET In(rows, l)
    BY DEF All, Some, Open
  <2>. QED
    BY <2>1 DEF Reorder
<1>2. PICK set \in SUBSET In(rows, l) : \E order \in Orders(set) :
        Read(j, k, [NotEditing EXCEPT !.op = "order", !.list = l, !.order = order])
  BY <1>1
<1>3. PICK f \in Orders(set) : Read(j, k, [NotEditing EXCEPT !.op = "order", !.list = l, !.order = f])
  BY <1>2
<1> DEFINE r == [NotEditing EXCEPT !.op = "order", !.list = l, !.order = f]
<1>4. r = Asked("order", 0, 0, l, 0, f)
  BY FilledOrder
<1>5. Read(j, k, r)
  BY <1>3
<1>. HIDE DEF r
<1>6. set \in SUBSET Nat /\ IsFiniteSet(set)
  BY InRows, FS_Subset DEF OInv, ListTypes
<1>7. f \in Order /\ DOMAIN f = set /\ IsInjective(f)
  BY <1>6, OrdersAre
<1>8. l \in Lists /\ l \in Nat
  BY ListsAreNumbers DEF Open
<1>9. r \in EditRow
  BY <1>4, <1>7, <1>8 DEF EditRow, Asked
<1>10. HasRead(r)
  BY <1>4, <1>7 DEF HasRead, Asked
<1>. QED
  BY <1>4, <1>5, <1>8, <1>9, <1>10, ReadInv DEF Asked

LEMMA MoveReadInv ==
    ASSUME OInv, NEW j \in Editors, MoveItemToBlock(j) \/ MovePlatformItem(j)
    PROVE  OInv'
<1>1. PICK k \in {"items", "platform items"}, op \in {"move", "move within"}, i \in Alive, l \in Open,
           p \in Positions :
        /\ Read(j, k, [NotEditing EXCEPT !.op = op, !.row = i, !.from = rows[i].list, !.list = l, !.place = p])
        /\ op = "move within" => l = rows[i].list
  <2>1. CASE MoveItemToBlock(j)
    BY <2>1 DEF MoveItemToBlock
  <2>2. CASE MovePlatformItem(j)
    BY <2>2 DEF MovePlatformItem
  <2>. QED
    BY <2>1, <2>2
<1> DEFINE r == [NotEditing EXCEPT !.op = op, !.row = i, !.from = rows[i].list, !.list = l, !.place = p]
<1>2. r = Asked(op, i, rows[i].list, l, p, NoOrder)
  BY FilledMove
<1>3. /\ l \in Lists /\ l \in Nat /\ p \in Nat /\ i \in Nat /\ rows[i].list \in Nat
  BY PlacesAreNumbers, AliveAre, ListsAreNumbers DEF Open
<1>4. Read(j, k, r)
  BY <1>1
<1>. HIDE DEF r
<1>5. r \in EditRow
  BY <1>2, <1>3, NotEditingIs DEF EditRow, Asked
<1>6. HasRead(r)
  BY <1>1, <1>2, <1>3 DEF HasRead, Asked
<1>. QED
  BY <1>2, <1>3, <1>4, <1>5, <1>6, ReadInv DEF Asked

LEMMA CountLessonsInv == ASSUME OInv, NEW j \in Editors, CountLessons(j) PROVE OInv'
<1>1. PICK l \in Open : /\ In(rows, l) = {}
                        /\ Read(j, "platform lessons", [NotEditing EXCEPT !.op = "shut", !.list = l])
  BY DEF CountLessons
<1> DEFINE r == [NotEditing EXCEPT !.op = "shut", !.list = l]
<1>2. r = Asked("shut", 0, 0, l, 0, NoOrder)
  BY FilledShut
<1>3. l \in Lists /\ l \in Nat
  BY ListsAreNumbers DEF Open
<1>4. Read(j, "platform lessons", r)
  BY <1>1
<1>. HIDE DEF r
<1>5. r \in EditRow
  BY <1>2, <1>3, NotEditingIs DEF EditRow, Asked
<1>6. HasRead(r)
  BY <1>1, <1>2 DEF HasRead, Asked
<1>. QED
  BY <1>2, <1>3, <1>4, <1>5, <1>6, ReadInv DEF Asked

-----------------------------------------------------------------------------
(* What is written *)

LEMMA InsertInv == ASSUME OInv, NEW j \in Editors, Insert(j) PROVE OInv'
<1> DEFINE e == editing[j]
           x == [list |-> e.list, place |-> e.place, live |-> TRUE]
<1>1. /\ e.op = "create" /\ editing' = [editing EXCEPT ![j] = NotEditing] /\ UNCHANGED <<kind, tidy, shut>>
      /\ rows' = Append(rows, x)
  BY DEF Insert, Wrote, NewRow
<1>2. rows \in Seq(ListRow) /\ e \in EditRow /\ e.list \in Lists /\ tidy \in BOOLEAN
  BY <1>1 DEF OInv, ListTypes
<1>3. x \in ListRow /\ x.list = e.list /\ x.place = e.place /\ x.live
  BY <1>2 DEF ListRow, EditRow
<1>. HIDE DEF x
<1>4. /\ rows' \in Seq(ListRow) /\ DOMAIN rows \subseteq DOMAIN rows' /\ Len(rows') \in DOMAIN rows'
      /\ \A m \in DOMAIN rows' : (m \in DOMAIN rows /\ rows'[m] = rows[m]) \/ (rows'[m] = x /\ m = Len(rows'))
  BY <1>1, <1>2, <1>3, AddRow
<1>5. ASSUME tidy
      PROVE  /\ \A l \in Lists : Distinct(rows', l)
             /\ e.list \in Open
  <2>1. e.list \in Open /\ e.place \notin Taken(e.list) /\ \A l \in Lists : Distinct(rows, l)
    BY <1>1, <1>5, Turn DEF HasRead
  <2>2. ASSUME NEW l \in Lists, NEW r \in In(rows', l), NEW s \in In(rows', l),
               rows'[r].place = rows'[s].place
        PROVE  r = s
    <3>1. \A m \in In(rows', l) : \/ m \in In(rows, l) /\ rows'[m] = rows[m]
                                  \/ rows'[m] = x /\ m = Len(rows') /\ l = e.list
      BY <1>3, <1>4 DEF In
    <3>2. \A m \in In(rows, l) : l = e.list => rows[m].place # e.place
      BY <2>1 DEF Taken
    <3>. QED
      BY <1>3, <2>1, <2>2, <3>1, <3>2 DEF Distinct
  <2>. QED
    BY <2>1, <2>2 DEF Distinct
<1>6. Housed'
  <2> SUFFICES ASSUME tidy, kind # "lessons", NEW r \in Alive'
               PROVE  rows'[r].list \in Open
    BY <1>1 DEF Housed, Open
  <2>1. r \in DOMAIN rows' /\ rows'[r].live /\ rows'[r].list \in Lists
    BY <1>4, RowTypes DEF Alive, In
  <2>2. CASE rows'[r] = x
    BY <1>3, <1>5, <2>2
  <2>3. CASE r \in DOMAIN rows /\ rows'[r] = rows[r]
    <3>1. r \in Alive
      BY <2>1, <2>3 DEF Alive, In, Lists
    <3>. QED
      BY <2>3, <3>1 DEF OInv, Housed
  <2>. QED
    BY <1>4, <2>1, <2>2, <2>3
<1>. QED
  BY <1>1, <1>2, <1>4, <1>5, <1>6, WroteInv DEF OInv, ListTypes

LEMMA UpdateInv == ASSUME OInv, NEW j \in Editors, Update(j) PROVE OInv'
<1> DEFINE e == editing[j]
           list == IF e.list = 0 THEN rows[e.row].list ELSE e.list
           place == IF e.place = 0 THEN rows[e.row].place ELSE e.place
           x == [rows[e.row] EXCEPT !.list = list, !.place = place]
<1>1. /\ e.op = "change" /\ editing' = [editing EXCEPT ![j] = NotEditing] /\ UNCHANGED <<kind, tidy, shut>>
      /\ rows' = [rows EXCEPT ![e.row].list = IF e.list = 0 THEN @ ELSE e.list,
                              ![e.row].place = IF e.place = 0 THEN @ ELSE e.place]
  BY DEF Update, Wrote
<1>2. /\ rows \in Seq(ListRow) /\ e \in EditRow /\ e.list \in Lists \cup {0} /\ tidy \in BOOLEAN
      /\ e.place \in Nat /\ shut \subseteq Lists
  BY DEF OInv, ListTypes, EditRow
<1>3. CASE e.row \notin DOMAIN rows
  <2>1. rows' = rows
    BY <1>1, <1>2, <1>3
  <2>2. tidy => FALSE
    BY <1>1, <1>3, Turn, AliveAre DEF HasRead
  <2>3. Housed'
    BY <1>1, <2>2 DEF Housed
  <2>. QED
    BY <1>1, <1>2, <2>1, <2>2, <2>3, WroteInv
<1>4. CASE e.row \in DOMAIN rows
  <2>1. /\ rows[e.row] \in ListRow /\ list \in Lists /\ place \in Nat
    BY <1>2, <1>4, RowTypes
  <2>6. rows' = [rows EXCEPT ![e.row] = x]
    <3>1. rows' = [rows EXCEPT ![e.row].list = list, ![e.row].place = place]
      BY <1>1, <1>2, <1>4, <2>1
    <3>. QED
      BY <1>2, <1>4, <3>1
  <2>. HIDE DEF list, place
  <2>2. x \in ListRow /\ x.list = list /\ x.place = place /\ x.live = rows[e.row].live
    BY <2>1 DEF ListRow
  <2>. HIDE DEF x
  <2>3. /\ rows' \in Seq(ListRow) /\ DOMAIN rows' = DOMAIN rows
        /\ \A m \in DOMAIN rows : rows'[m] = IF m = e.row THEN x ELSE rows[m]
    BY <1>2, <1>4, <2>2, <2>6, ReplaceRow
  <2>4. ASSUME tidy
        PROVE  /\ \A l \in Lists : Distinct(rows', l)
               /\ e.row \in Alive /\ e.list \in Open \cup {0}
    <3>1. /\ e.row \in Alive /\ e.list \in Open \cup {0} /\ \A l \in Lists : Distinct(rows, l)
          /\ \A s \in In(rows, list) \ {e.row} : rows[s].place # place
      BY <1>1, <2>4, Turn DEF HasRead, list, place
    <3>2. ASSUME NEW l \in Lists, NEW r \in In(rows', l), NEW s \in In(rows', l),
                 rows'[r].place = rows'[s].place
          PROVE  r = s
      <4>1. \A m \in In(rows', l) : \/ m \in In(rows, l) \ {e.row} /\ rows'[m] = rows[m]
                                    \/ m = e.row /\ rows'[m] = x /\ l = list
        BY <2>2, <2>3 DEF In
      <4>. QED
        BY <2>2, <3>1, <3>2, <4>1 DEF Distinct
    <3>. QED
      BY <3>1, <3>2 DEF Distinct
  <2>5. Housed'
    <3> SUFFICES ASSUME tidy, kind # "lessons", NEW r \in Alive'
                 PROVE  rows'[r].list \in Open
      BY <1>1 DEF Housed, Open
    <3>1. r \in DOMAIN rows /\ rows'[r].live
      BY <2>3 DEF Alive, In
    <3>2. \A m \in DOMAIN rows : rows[m].live => m \in Alive
      BY <1>2, RowTypes DEF Alive, In, Lists
    <3>3. \A m \in Alive : rows[m].list \in Open
      BY DEF OInv, Housed
    <3>4. CASE r = e.row
      <4>1. rows'[r].list = list /\ e.row \in Alive /\ e.list \in Open \cup {0}
        BY <2>2, <2>3, <2>4, <3>1, <3>4
      <4>. QED
        BY <3>3, <4>1 DEF list
    <3>5. CASE r # e.row
      BY <2>3, <3>1, <3>2, <3>3, <3>5
    <3>. QED
      BY <3>4, <3>5
  <2>. QED
    BY <1>1, <1>2, <2>3, <2>4, <2>5, WroteInv
<1>. QED
  BY <1>3, <1>4

LEMMA WriteOrderInv == ASSUME OInv, NEW j \in Editors, WriteOrder(j) PROVE OInv'
<1> DEFINE e == editing[j]
<1>1. /\ e.op = "order" /\ editing' = [editing EXCEPT ![j] = NotEditing] /\ UNCHANGED <<kind, shut>>
      /\ rows' = Placed(rows, e.order) /\ tidy' = (tidy /\ In(rows, e.list) \subseteq DOMAIN e.order)
  BY DEF WriteOrder
<1>2. rows \in Seq(ListRow) /\ e.order \in Order /\ tidy \in BOOLEAN /\ shut \subseteq Lists
  <2>1. e \in EditRow
    BY DEF OInv, ListTypes
  <2>. QED
    BY <2>1 DEF OInv, ListTypes, EditRow
<1>. HIDE DEF e
<1>3. /\ rows' \in Seq(ListRow) /\ DOMAIN rows' = DOMAIN rows
      /\ \A r \in DOMAIN rows :
           /\ rows'[r].list = rows[r].list /\ rows'[r].live = rows[r].live
           /\ rows'[r].place = IF r \in DOMAIN e.order THEN e.order[r] ELSE rows[r].place
      /\ \A l : In(rows', l) = In(rows, l)
  BY <1>1, <1>2, PlacedIs
<1>4. ASSUME tidy'
      PROVE  \A l \in Lists : Distinct(rows', l)
  <2>1. /\ IsInjective(e.order) /\ DOMAIN e.order = In(rows, e.list)
        /\ \A l \in Lists : Distinct(rows, l) \/ l = e.list
    BY <1>1, <1>4, Turn DEF HasRead, e
  <2>2. ASSUME NEW l \in Lists, NEW r \in In(rows, l), NEW s \in In(rows, l),
               rows'[r].place = rows'[s].place
        PROVE  r = s
    <3>1. r \in DOMAIN rows /\ s \in DOMAIN rows /\ rows[r].list = l /\ rows[s].list = l
      BY <2>2 DEF In
    <3>2. CASE l = e.list
      BY <1>3, <2>1, <2>2, <3>1, <3>2 DEF IsInjective
    <3>3. CASE l # e.list
      <4>1. r \notin DOMAIN e.order /\ s \notin DOMAIN e.order
        BY <2>1, <3>1, <3>3 DEF In
      <4>. QED
        BY <1>3, <2>1, <2>2, <3>1, <3>3, <4>1 DEF Distinct
    <3>. QED
      BY <3>2, <3>3
  <2>. QED
    BY <1>3, <2>2 DEF Distinct
<1>5. Housed'
  <2> SUFFICES ASSUME tidy, kind # "lessons", NEW r \in Alive'
               PROVE  rows'[r].list \in Open
    BY <1>1 DEF Housed, Open
  <2>1. r \in Alive /\ r \in DOMAIN rows
    BY <1>3 DEF Alive, In
  <2>. QED
    BY <1>3, <2>1 DEF OInv, Housed
<1>. QED
  BY <1>1, <1>2, <1>3, <1>4, <1>5, WroteInv DEF e

\* The order of a renumbered list.
LEMMA RenumberingIs ==
    ASSUME NEW rs \in Seq(ListRow), NEW l, NEW f \in Renumberings(rs, l)
    PROVE  f \in Order /\ DOMAIN f = In(rs, l) /\ IsInjective(f)
<1>1. f \in Orders(In(rs, l))
  BY DEF Renumberings
<1>. QED
  BY <1>1, InRows, OrdersAre

\* A row is moved to another list and place.
LEMMA MovedIs ==
    ASSUME OInv, NEW e \in EditRow, e.list \in Lists
    PROVE  /\ Moved(e) \in Seq(ListRow) /\ DOMAIN Moved(e) = DOMAIN rows
           /\ \A m \in DOMAIN rows : m # e.row => Moved(e)[m] = rows[m]
           /\ e.row \in DOMAIN rows => /\ Moved(e)[e.row].list = e.list
                                       /\ Moved(e)[e.row].live = rows[e.row].live
<1> DEFINE x == [rows[e.row] EXCEPT !.list = e.list, !.place = e.place]
<1>1. rows \in Seq(ListRow) /\ e.place \in Nat
  BY DEF OInv, ListTypes, EditRow
<1>2. Moved(e) = [rows EXCEPT ![e.row] = x]
  BY DEF Moved
<1>3. CASE e.row \in DOMAIN rows
  <2>1. rows[e.row] \in ListRow
    BY <1>1, <1>3, RowTypes
  <2>2. x \in ListRow /\ x.list = e.list /\ x.live = rows[e.row].live
    BY <1>1, <2>1 DEF ListRow
  <2>. HIDE DEF x
  <2>. QED
    BY <1>1, <1>2, <1>3, <2>2, ReplaceRow
<1>4. CASE e.row \notin DOMAIN rows
  <2>1. Moved(e) = rows
    BY <1>1, <1>2, <1>4
  <2>. QED
    BY <1>1, <1>4, <2>1
<1>. QED
  BY <1>3, <1>4

LEMMA MoveAndRenumberInv == ASSUME OInv, NEW j \in Editors, MoveAndRenumber(j) PROVE OInv'
<1> DEFINE e == editing[j]
           M == Moved(e)
<1>1. /\ e.op = "move" /\ editing' = [editing EXCEPT ![j] = NotEditing] /\ UNCHANGED <<kind, tidy, shut>>
  BY DEF MoveAndRenumber, Wrote
<1>2. PICK f \in Renumberings(M, e.from) :
        \E g \in Renumberings(Placed(M, f), e.list) : rows' = Placed(Placed(M, f), g)
  BY DEF MoveAndRenumber
<1>3. PICK g \in Renumberings(Placed(M, f), e.list) : rows' = Placed(Placed(M, f), g)
  BY <1>2
<1>4. e \in EditRow /\ e.list \in Lists /\ tidy \in BOOLEAN /\ shut \subseteq Lists
  BY <1>1 DEF OInv, ListTypes
<1>. HIDE DEF e
<1>5. /\ M \in Seq(ListRow) /\ DOMAIN M = DOMAIN rows
      /\ \A m \in DOMAIN rows : m # e.row => M[m] = rows[m]
      /\ e.row \in DOMAIN rows => M[e.row].list = e.list /\ M[e.row].live = rows[e.row].live
  BY <1>4, MovedIs
<1>. HIDE DEF M
<1> DEFINE N == Placed(M, f)
<1>6. f \in Order /\ DOMAIN f = In(M, e.from) /\ IsInjective(f)
  BY <1>5, RenumberingIs
<1>7. /\ N \in Seq(ListRow) /\ DOMAIN N = DOMAIN rows
      /\ \A r \in DOMAIN rows : /\ N[r].list = M[r].list /\ N[r].live = M[r].live
                                /\ N[r].place = IF r \in DOMAIN f THEN f[r] ELSE M[r].place
      /\ \A l : In(N, l) = In(M, l)
  BY <1>5, <1>6, PlacedIs
<1>. HIDE DEF N
<1>8. g \in Order /\ DOMAIN g = In(M, e.list) /\ IsInjective(g)
  BY <1>7, RenumberingIs DEF N
<1>9. /\ rows' \in Seq(ListRow) /\ DOMAIN rows' = DOMAIN rows
      /\ \A r \in DOMAIN rows :
           /\ rows'[r].list = M[r].list /\ rows'[r].live = M[r].live
           /\ rows'[r].place = IF r \in DOMAIN g THEN g[r] ELSE IF r \in DOMAIN f THEN f[r] ELSE M[r].place
      /\ \A l : In(rows', l) = In(M, l)
  <2>1. rows' = Placed(N, g)
    BY <1>3 DEF N
  <2>. QED
    BY <1>7, <1>8, <2>1, PlacedIs
<1>10. ASSUME tidy
       PROVE  /\ \A l \in Lists : Distinct(rows', l)
              /\ e.row \in Alive /\ e.list \in Open
  <2>1. /\ e.row \in Alive /\ e.list \in Open /\ e.from = rows[e.row].list
        /\ \A l \in Lists : Distinct(rows, l)
    BY <1>1, <1>10, Turn DEF HasRead, e
  <2>2. ASSUME NEW l \in Lists, NEW r \in In(M, l), NEW s \in In(M, l), rows'[r].place = rows'[s].place
        PROVE  r = s
    <3>1. r \in DOMAIN rows /\ s \in DOMAIN rows /\ M[r].list = l /\ M[s].list = l
      BY <1>5, <2>2 DEF In
    <3>2. CASE l = e.list
      BY <1>8, <1>9, <2>2, <3>1, <3>2 DEF IsInjective
    <3>3. CASE l # e.list
      <4>1. r \notin DOMAIN g /\ s \notin DOMAIN g
        BY <1>8, <3>1, <3>3 DEF In
      <4>2. CASE l = e.from
        BY <1>6, <1>9, <2>2, <3>1, <4>1, <4>2 DEF IsInjective
      <4>3. CASE l # e.from
        <5>1. r \notin DOMAIN f /\ s \notin DOMAIN f
          BY <1>6, <3>1, <4>3 DEF In
        <5>2. r # e.row /\ s # e.row
          BY <1>5, <3>1, <3>3
        <5>3. M[r] = rows[r] /\ M[s] = rows[s] /\ r \in In(rows, l) /\ s \in In(rows, l)
          BY <1>5, <2>2, <3>1, <5>2 DEF In
        <5>. QED
          BY <1>9, <2>1, <2>2, <3>1, <4>1, <5>1, <5>3 DEF Distinct
      <4>. QED
        BY <4>2, <4>3
    <3>. QED
      BY <3>2, <3>3
  <2>. QED
    BY <1>9, <2>1, <2>2 DEF Distinct
<1>11. Housed'
  <2> SUFFICES ASSUME tidy, kind # "lessons", NEW r \in Alive'
               PROVE  rows'[r].list \in Open
    BY <1>1 DEF Housed, Open
  <2>1. r \in DOMAIN rows /\ rows'[r].live
    BY <1>9 DEF Alive, In
  <2>2. CASE r = e.row
    BY <1>5, <1>9, <1>10, <2>1, <2>2
  <2>3. CASE r # e.row
    <3>1. rows'[r].list = rows[r].list /\ rows[r].live
      BY <1>5, <1>9, <2>1, <2>3
    <3>2. rows \in Seq(ListRow)
      BY DEF OInv, ListTypes
    <3>3. r \in Alive
      BY <2>1, <3>1, <3>2, RowTypes DEF Alive, In, Lists
    <3>. QED
      BY <3>1, <3>3 DEF OInv, Housed
  <2>. QED
    BY <2>2, <2>3
<1>. QED
  BY <1>1, <1>4, <1>9, <1>10, <1>11, WroteInv DEF e

\* A request goes on: it stays with the list it is to put in order.
LEMMA MoveOnlyInv == ASSUME OInv, NEW j \in Editors, MoveOnly(j) PROVE OInv'
<1> DEFINE e == editing[j]
           d == [e EXCEPT !.op = "renumber"]
<1>1. /\ e.op = "move within" /\ rows' = Moved(e) /\ editing' = [editing EXCEPT ![j] = d]
      /\ UNCHANGED <<kind, shut, tidy>>
  BY DEF MoveOnly
<1>2. e \in EditRow /\ e.list \in Lists
  BY <1>1 DEF OInv, ListTypes
<1>3. d \in EditRow /\ d.op = "renumber" /\ d.list = e.list
  BY <1>2 DEF EditRow
<1>. HIDE DEF d
<1>4. /\ editing' \in [Editors -> EditRow] /\ editing'[j] = d
      /\ \A i \in Editors \ {j} : editing'[i] = editing[i]
  BY <1>1, <1>3 DEF OInv, ListTypes
<1>. HIDE DEF e
<1>5. /\ rows' \in Seq(ListRow) /\ DOMAIN rows' = DOMAIN rows
      /\ \A m \in DOMAIN rows : m # e.row => rows'[m] = rows[m]
      /\ e.row \in DOMAIN rows => rows'[e.row].list = e.list /\ rows'[e.row].live = rows[e.row].live
  BY <1>1, <1>2, MovedIs
<1>6. ListTypes'
  BY <1>1, <1>2, <1>3, <1>4, <1>5 DEF OInv, ListTypes
<1>7. ASSUME tidy
      PROVE  /\ e.row \in Alive /\ e.list = rows[e.row].list
             /\ \A i \in Editors \ {j} : editing[i] = NotEditing
             /\ \A l \in Lists : Distinct(rows, l)
  BY <1>1, <1>7, Turn DEF HasRead, e
<1>8. ASSUME tidy
      PROVE  /\ \A l : In(rows', l) = In(rows, l)
             /\ \A r \in DOMAIN rows : rows'[r].list = rows[r].list
  BY <1>5, <1>7, <1>8 DEF In
<1>9. ByTurns'
  BY <1>1, <1>3, <1>4, <1>7 DEF ByTurns, HasRead
<1>10. Placing'
  <2> SUFFICES ASSUME tidy, NEW l \in Lists, l # e.list
               PROVE  Distinct(rows', l)
    BY <1>1, <1>3, <1>4 DEF Placing, Ordering
  <2>1. \A r \in In(rows', l) : r \in In(rows, l) /\ rows'[r] = rows[r]
    BY <1>5, <1>7, <1>8 DEF In
  <2>. QED
    BY <1>7, <2>1 DEF Distinct
<1>11. Housed'
  <2> SUFFICES ASSUME tidy, kind # "lessons", NEW r \in Alive'
               PROVE  rows'[r].list \in Open
    BY <1>1 DEF Housed, Open
  <2>1. r \in Alive /\ r \in DOMAIN rows
    BY <1>8 DEF Alive, In
  <2>. QED
    BY <1>8, <2>1 DEF OInv, Housed
<1>12. Paying'
  BY <1>1, NotEditingIs DEF OInv, Paying, e
<1>. QED
  BY <1>6, <1>9, <1>10, <1>11, <1>12 DEF OInv

LEMMA ReadAgainInv == ASSUME OInv, NEW j \in Editors, ReadAgain(j) PROVE OInv'
<1> DEFINE e == editing[j]
<1>1. e.op = "renumber" /\ UNCHANGED <<kind, rows, shut, tidy>>
  BY DEF ReadAgain
<1>2. PICK f \in Renumberings(rows, e.list) :
        editing' = [editing EXCEPT ![j] = [NotEditing EXCEPT !.op = "order", !.list = e.list, !.order = f]]
  BY DEF ReadAgain
<1>3. e.list \in Lists /\ rows \in Seq(ListRow)
  BY <1>1 DEF OInv, ListTypes
<1> DEFINE d == [NotEditing EXCEPT !.op = "order", !.list = e.list, !.order = f]
<1>4. f \in Order /\ DOMAIN f = In(rows, e.list) /\ IsInjective(f)
  BY <1>3, RenumberingIs
<1>5. d = Asked("order", 0, 0, e.list, 0, f)
  BY FilledOrder
<1>6. editing' = [editing EXCEPT ![j] = d]
  BY <1>2
<1>. HIDE DEF d, e
<1>7. d \in EditRow /\ d.op = "order" /\ d.list = e.list
  BY <1>3, <1>4, <1>5, ListsAreNumbers DEF EditRow, Asked
<1>8. /\ editing' \in [Editors -> EditRow] /\ editing'[j] = d
      /\ \A i \in Editors \ {j} : editing'[i] = editing[i]
  BY <1>6, <1>7 DEF OInv, ListTypes
<1>9. ListTypes'
  BY <1>1, <1>3, <1>7, <1>8 DEF OInv, ListTypes
<1>10. HasRead(editing[j])'
  <2>1. editing'[j].op = "order" /\ editing'[j].order = f /\ editing'[j].list = e.list
    BY <1>5, <1>8 DEF Asked
  <2>. QED
    BY <1>1, <1>4, <2>1 DEF HasRead
<1>11. ByTurns'
  <2>1. tidy => \A i \in Editors \ {j} : editing[i] = NotEditing
    BY <1>1, Turn DEF e
  <2>. QED
    BY <1>1, <1>8, <1>10, <2>1 DEF ByTurns
<1>12. Placing'
  BY <1>1, <1>7, <1>8, Turn DEF Placing, Ordering, e
<1>13. Housed' /\ Paying'
  BY <1>1, NotEditingIs DEF OInv, Housed, Paying, Open, Alive, e
<1>. QED
  BY <1>9, <1>11, <1>12, <1>13 DEF OInv

LEMMA DeletePlatformUnitInv == ASSUME OInv, NEW j \in Editors, DeletePlatformUnit(j) PROVE OInv'
<1> DEFINE e == editing[j]
<1>1. /\ e.op = "shut" /\ editing' = [editing EXCEPT ![j] = NotEditing] /\ UNCHANGED <<kind, tidy, rows>>
      /\ shut' = shut \cup {e.list}
  BY DEF DeletePlatformUnit, Wrote
<1>2. e.list \in Lists /\ rows \in Seq(ListRow) /\ shut \subseteq Lists /\ tidy \in BOOLEAN
  BY <1>1 DEF OInv, ListTypes
<1>. HIDE DEF e
<1>3. ASSUME tidy
      PROVE  In(rows, e.list) = {} /\ \A l \in Lists : Distinct(rows, l)
  BY <1>1, <1>3, Turn DEF HasRead, e
<1>4. Housed'
  <2> SUFFICES ASSUME tidy, kind # "lessons", NEW r \in Alive
               PROVE  rows[r].list \in Open'
    BY <1>1 DEF Housed, Alive
  <2>1. rows[r].list \in Open /\ r \in In(rows, rows[r].list)
    BY AliveAre DEF OInv, Housed
  <2>. QED
    BY <1>1, <1>3, <2>1 DEF Open
<1>. QED
  BY <1>1, <1>2, <1>3, <1>4, WroteInv DEF e

-----------------------------------------------------------------------------
(* What is done at once *)

LEMMA DeleteInv == ASSUME OInv, NEW k, Delete(k) PROVE OInv'
<1>1. PICK r \in Alive : rows' = [rows EXCEPT ![r].live = FALSE]
  BY DEF Delete
<1>2. /\ UNCHANGED <<kind, shut, editing>> /\ tidy' = (tidy /\ \A i \in Editors : editing[i] = NotEditing)
  BY DEF Delete, Overlaps
<1> DEFINE x == [rows[r] EXCEPT !.live = FALSE]
<1>3. rows \in Seq(ListRow) /\ r \in DOMAIN rows /\ rows[r] \in ListRow /\ shut \subseteq Lists
  BY AliveAre, RowTypes DEF OInv, ListTypes
<1>4. x \in ListRow /\ ~x.live /\ x.list = rows[r].list
  BY <1>3 DEF ListRow
<1>5. rows' = [rows EXCEPT ![r] = x]
  BY <1>1
<1>. HIDE DEF x
<1>6. /\ rows' \in Seq(ListRow) /\ DOMAIN rows' = DOMAIN rows
      /\ \A m \in DOMAIN rows : rows'[m] = IF m = r THEN x ELSE rows[m]
  BY <1>3, <1>4, <1>5, ReplaceRow
<1>7. \A l : \A m \in In(rows', l) : m \in In(rows, l) /\ rows'[m] = rows[m]
  BY <1>4, <1>6 DEF In
<1>8. tidy' => \A l \in Lists : Distinct(rows', l)
  BY <1>2, <1>7, Idle DEF Distinct
<1>9. Housed'
  BY <1>2, <1>7 DEF OInv, Housed, Open, Alive
<1>10. kind = "payments" => shut' = {} /\ \A m \in DOMAIN rows' : rows'[m].list = 1
  BY <1>2, <1>3, <1>4, <1>6 DEF OInv, Paying
<1>. QED
  BY <1>2, <1>3, <1>6, <1>8, <1>9, <1>10, AtOnceInv

LEMMA DeleteUnitInv == ASSUME OInv, DeleteUnit PROVE OInv'
<1>1. /\ kind = "lessons" /\ UNCHANGED <<kind, rows, editing>> /\ shut' \subseteq Lists
      /\ tidy' = (tidy /\ \A i \in Editors : editing[i] = NotEditing)
  BY DEF DeleteUnit, Overlaps, Open, OInv, ListTypes
<1>2. rows' \in Seq(ListRow) /\ Housed'
  BY <1>1 DEF OInv, ListTypes, Housed
<1>3. tidy' => \A l \in Lists : Distinct(rows', l)
  BY <1>1, Idle
<1>. QED
  BY <1>1, <1>2, <1>3, AtOnceInv

LEMMA DeleteBlockInv == ASSUME OInv, DeleteBlockWithItems PROVE OInv'
<1>1. PICK l \in Open :
        /\ shut' = shut \cup {l}
        /\ rows' = [r \in DOMAIN rows |-> IF rows[r].list = l THEN [rows[r] EXCEPT !.live = FALSE] ELSE rows[r]]
  BY DEF DeleteBlockWithItems
<1>2. /\ kind \in {"items", "platform items"} /\ UNCHANGED <<kind, editing>>
      /\ tidy' = (tidy /\ \A i \in Editors : editing[i] = NotEditing)
  BY DEF DeleteBlockWithItems, Overlaps
<1>3. rows \in Seq(ListRow) /\ shut' \subseteq Lists
  BY <1>1 DEF OInv, ListTypes, Open
<1>4. ASSUME NEW r \in DOMAIN rows
      PROVE  rows'[r] \in ListRow /\ (rows'[r].live => rows'[r] = rows[r] /\ rows[r].list # l)
  <2>1. rows[r] \in ListRow
    BY <1>3, RowTypes
  <2>2. [rows[r] EXCEPT !.live = FALSE] \in ListRow /\ ~[rows[r] EXCEPT !.live = FALSE].live
    BY <2>1 DEF ListRow
  <2>. QED
    BY <1>1, <2>1, <2>2
<1>5. rows' \in Seq(ListRow) /\ DOMAIN rows' = DOMAIN rows
  <2>1. DOMAIN rows = 1 .. Len(rows) /\ Len(rows) \in Nat
    BY <1>3
  <2>2. rows' \in [1 .. Len(rows) -> ListRow]
    BY <1>1, <1>4, <2>1
  <2>. QED
    BY <2>1, <2>2
<1>6. \A k : \A m \in In(rows', k) : m \in In(rows, k) /\ rows'[m] = rows[m] /\ rows[m].list # l
  BY <1>4, <1>5 DEF In
<1>7. tidy' => \A k \in Lists : Distinct(rows', k)
  BY <1>2, <1>6, Idle DEF Distinct
<1>8. Housed'
  <2> SUFFICES ASSUME tidy', kind # "lessons", NEW r \in Alive'
               PROVE  rows'[r].list \in Lists \ shut'
    BY <1>2 DEF Housed, Open
  <2>1. r \in Alive /\ rows'[r] = rows[r] /\ rows[r].list # l
    BY <1>6 DEF Alive
  <2>2. tidy
    BY <1>2
  <2>3. rows[r].list \in Open
    BY <1>2, <2>1, <2>2 DEF OInv, Housed
  <2>. QED
    BY <1>1, <2>1, <2>3 DEF Open
<1>. QED
  BY <1>2, <1>3, <1>5, <1>7, <1>8, AtOnceInv

\* The ways to pay are one list, and nobody is in the middle of anything.
LEMMA PaymentsAre == ASSUME OInv, kind = "payments"
                     PROVE  /\ tidy /\ shut = {} /\ rows \in Seq(ListRow) /\ Distinct(rows, 1)
                            /\ \A i \in Editors : editing[i] = NotEditing
                            /\ \A r \in DOMAIN rows : rows[r].list = 1
                            /\ Alive = In(rows, 1) /\ 1 \in Lists
<1>1. /\ tidy /\ shut = {} /\ rows \in Seq(ListRow) /\ \A i \in Editors : editing[i] = NotEditing
      /\ \A r \in DOMAIN rows : rows[r].list = 1
  BY DEF OInv, Paying, ListTypes
<1>2. 1 \in Lists
  BY DEF Lists
<1>3. Alive = In(rows, 1)
  BY <1>1 DEF Alive, In
<1>. QED
  BY <1>1, <1>2, <1>3, Idle

LEMMA CreatePaymentMethodInv == ASSUME OInv, CreatePaymentMethod PROVE OInv'
<1> DEFINE p == NextPlace(1)
           x == [list |-> 1, place |-> p, live |-> TRUE]
<1>1. kind = "payments" /\ rows' = Append(rows, x) /\ UNCHANGED <<kind, shut, editing, tidy>>
  BY DEF CreatePaymentMethod, NewRow
<1>2. /\ tidy /\ shut = {} /\ rows \in Seq(ListRow) /\ Distinct(rows, 1)
      /\ \A i \in Editors : editing[i] = NotEditing
      /\ \A r \in DOMAIN rows : rows[r].list = 1
      /\ Alive = In(rows, 1) /\ 1 \in Lists
  BY <1>1, PaymentsAre
<1>3. p \in Nat /\ p \notin Taken(1)
  BY NextPlaceIsFree DEF OInv
<1>. HIDE DEF p
<1>4. x \in ListRow /\ x.list = 1 /\ x.place = p /\ x.live
  BY <1>2, <1>3 DEF ListRow
<1>. HIDE DEF x
<1>5. /\ rows' \in Seq(ListRow)
      /\ \A m \in DOMAIN rows' : (m \in DOMAIN rows /\ rows'[m] = rows[m]) \/ (rows'[m] = x /\ m = Len(rows'))
  BY <1>1, <1>2, <1>4, AddRow
<1>6. \A m \in DOMAIN rows' : rows'[m].list = 1
  BY <1>2, <1>4, <1>5
<1>7. ASSUME NEW l \in Lists, NEW r \in In(rows', l), NEW s \in In(rows', l), rows'[r].place = rows'[s].place
      PROVE  r = s
  <2>1. \A m \in In(rows', l) : \/ m \in In(rows, 1) /\ rows'[m] = rows[m]
                                \/ rows'[m] = x /\ m = Len(rows')
    BY <1>2, <1>5 DEF In
  <2>2. \A m \in In(rows, 1) : rows[m].place # p
    BY <1>3 DEF Taken
  <2>. QED
    BY <1>2, <1>4, <1>7, <2>1, <2>2 DEF Distinct
<1>8. Housed'
  BY <1>1, <1>2, <1>6 DEF Housed, Open, Alive, In
<1>. QED
  BY <1>1, <1>2, <1>5, <1>6, <1>7, <1>8, AtOnceInv DEF Distinct

LEMMA ReorderPaymentMethodsInv == ASSUME OInv, ReorderPaymentMethods PROVE OInv'
<1>1. PICK f \in Orders(Alive) : /\ kind = "payments" /\ rows' = Placed(rows, f)
                                 /\ UNCHANGED <<kind, shut, editing, tidy>>
  BY DEF ReorderPaymentMethods
<1>2. /\ tidy /\ shut = {} /\ rows \in Seq(ListRow) /\ \A i \in Editors : editing[i] = NotEditing
      /\ \A r \in DOMAIN rows : rows[r].list = 1
      /\ Alive = In(rows, 1) /\ 1 \in Lists
  BY <1>1, PaymentsAre
<1>3. f \in Order /\ DOMAIN f = In(rows, 1) /\ IsInjective(f)
  BY <1>1, <1>2, InRows, OrdersAre
<1>4. /\ rows' \in Seq(ListRow) /\ DOMAIN rows' = DOMAIN rows
      /\ \A r \in DOMAIN rows :
           /\ rows'[r].list = rows[r].list
           /\ rows'[r].place = IF r \in DOMAIN f THEN f[r] ELSE rows[r].place
      /\ \A l : In(rows', l) = In(rows, l)
  BY <1>1, <1>2, <1>3, PlacedIs
<1>5. ASSUME NEW l \in Lists, NEW r \in In(rows, l), NEW s \in In(rows, l), rows'[r].place = rows'[s].place
      PROVE  r = s
  <2>1. r \in DOMAIN rows /\ s \in DOMAIN rows /\ r \in In(rows, 1) /\ s \in In(rows, 1)
    BY <1>2, <1>5 DEF In
  <2>. QED
    BY <1>3, <1>4, <1>5, <2>1 DEF IsInjective
<1>6. Housed'
  BY <1>1, <1>2, <1>4 DEF Housed, Open, Alive, In
<1>. QED
  BY <1>1, <1>2, <1>4, <1>5, <1>6, AtOnceInv DEF Distinct

LEMMA ListsInitInv == ListsInit => OInv
<1> SUFFICES ASSUME ListsInit
             PROVE  OInv
  OBVIOUS
<1>1. /\ kind \in Kinds /\ rows = << >> /\ shut = {} /\ tidy = TRUE
      /\ editing = [j \in Editors |-> NotEditing]
  BY DEF ListsInit
<1>2. rows \in Seq(ListRow) /\ DOMAIN rows = {} /\ Alive = {} /\ \A l : In(rows, l) = {}
  BY <1>1 DEF Alive, In
<1>3. ListTypes
  BY <1>1, <1>2, NotEditingIs DEF ListTypes
<1>4. ByTurns /\ Placing /\ Housed /\ Paying
  BY <1>1, <1>2 DEF ByTurns, Placing, Distinct, Housed, Paying
<1>. QED
  BY <1>3, <1>4 DEF OInv

LEMMA ListsNextInv == ASSUME OInv, [ListsNext]_listVars PROVE OInv'
<1>1. CASE UNCHANGED listVars
  <2>1. ListTypes' /\ Paying'
    BY <1>1 DEF listVars, OInv, ListTypes, Paying
  <2>2. ByTurns'
    <3>1. ASSUME NEW j \in Editors, HasRead(editing[j])
          PROVE  HasRead(editing[j])'
      BY <1>1, <3>1 DEF listVars, HasRead, Open, Alive, Taken
    <3>. QED
      BY <1>1, <3>1 DEF listVars, OInv, ByTurns
  <2>3. Placing'
    BY <1>1 DEF listVars, OInv, Placing, Distinct, Ordering
  <2>4. Housed'
    BY <1>1 DEF listVars, OInv, Housed, Open, Alive
  <2>. QED
    BY <2>1, <2>2, <2>3, <2>4 DEF OInv
<1>2. CASE \/ DeleteBlock \/ DeleteBlockItem \/ DeleteTeacherQuestion
           \/ DeletePlatformBlock \/ DeletePlatformItem \/ DeletePlatformQuestion \/ DeletePaymentMethod
  BY <1>2, DeleteInv DEF DeleteBlock, DeleteBlockItem, DeleteTeacherQuestion, DeletePlatformBlock,
                         DeletePlatformItem, DeletePlatformQuestion, DeletePaymentMethod
<1>3. ASSUME NEW j \in Editors,
             \/ CreateUnit(j) \/ CreateLesson(j) \/ CreatePlatformUnit(j) \/ CreatePlatformLesson(j)
      PROVE  OInv'
  BY <1>3, CreateIfFreeInv DEF CreateUnit, CreateLesson, CreatePlatformUnit, CreatePlatformLesson
<1>4. ASSUME NEW j \in Editors,
             \/ CreateBlock(j) \/ CreateBlockItem(j) \/ CreateTeacherQuestion(j)
             \/ CreatePlatformBlock(j) \/ CreatePlatformItem(j) \/ CreatePlatformQuestion(j)
      PROVE  OInv'
  BY <1>4, CreateAnywayInv DEF CreateBlock, CreateBlockItem, CreateTeacherQuestion, CreatePlatformBlock,
                               CreatePlatformItem, CreatePlatformQuestion
<1>5. ASSUME NEW j \in Editors,
             UpdateUnit(j) \/ UpdateLesson(j) \/ UpdatePlatformUnit(j) \/ UpdatePlatformLesson(j)
      PROVE  OInv'
  BY <1>5, ChangeInv DEF UpdateUnit, UpdateLesson, UpdatePlatformUnit, UpdatePlatformLesson
<1>6. ASSUME NEW j \in Editors,
             \/ ReorderUnits(j) \/ ReorderBlocks(j) \/ ReorderBlockItems(j) \/ ReorderTeacherQuestions(j)
             \/ ReorderPlatformUnits(j) \/ ReorderPlatformBlocks(j) \/ ReorderPlatformItems(j)
             \/ ReorderPlatformQuestions(j) \/ ReorderSubjects(j)
      PROVE  OInv'
  BY <1>6, ReorderInv DEF ReorderUnits, ReorderBlocks, ReorderBlockItems, ReorderTeacherQuestions,
                          ReorderPlatformUnits, ReorderPlatformBlocks, ReorderPlatformItems,
                          ReorderPlatformQuestions, ReorderSubjects
<1>. QED
  BY <1>1, <1>2, <1>3, <1>4, <1>5, <1>6, MoveReadInv, CountLessonsInv, CreateSubjectInv, InsertInv,
     UpdateInv, WriteOrderInv, MoveAndRenumberInv, MoveOnlyInv, ReadAgainInv, DeletePlatformUnitInv,
     DeleteUnitInv, DeleteBlockInv, CreatePaymentMethodInv, ReorderPaymentMethodsInv DEF ListsNext

\* No two rows of a list are in one place, and none is in a deleted parent, as long as
\* requests do not overlap; the ways to pay whatever overlaps.
THEOREM ListsTheorem == ListsSpec => []ListsInOrder
<1>1. OInv => ListsInOrder
  <2> SUFFICES ASSUME OInv
               PROVE  ListsInOrder
    OBVIOUS
  <2>1. ASSUME \/ tidy /\ \A j \in Editors : editing[j].op \notin {"renumber", "order"}
               \/ kind = "payments",
               NEW r \in Alive, NEW s \in Alive,
               rows[r].list = rows[s].list, rows[r].place = rows[s].place
        PROVE  r = s
    <3>1. tidy /\ \A j \in Editors : editing[j].op \notin {"renumber", "order"}
      BY <2>1, PaymentsAre, NotEditingIs
    <3>2. Distinct(rows, rows[r].list)
      BY <3>1, AliveAre DEF OInv, Placing, Ordering
    <3>3. r \in In(rows, rows[r].list) /\ s \in In(rows, rows[r].list)
      BY <2>1, AliveAre
    <3>. QED
      BY <2>1, <3>2, <3>3 DEF Distinct
  <2>2. tidy /\ kind # "lessons" => \A r \in Alive : rows[r].list \in Open
    BY DEF OInv, Housed
  <2>. QED
    BY <2>1, <2>2 DEF ListsInOrder
<1>. QED
  BY <1>1, ListsInitInv, ListsNextInv, PTL DEF ListsSpec

-----------------------------------------------------------------------------
(***************************************************************************)
(* Copies of the platform's lessons                                        *)
(***************************************************************************)

Bumping == {j \in LibraryJobs : library[j].pc = "bump"}

SourceRow == [status : {"DRAFT", "READY"}, live : BOOLEAN, version : Nat, blocks : Nat, questions : Nat]
ForkRow == [school : Schools, version : Nat, blocks : Nat, questions : Nat, live : BOOLEAN]
BatchRow == [said : SUBSET Schools, got : SUBSET Schools]
Errand == [pc : {"idle", "bump", "delete", "batch", "rows", "fork", "questions"},
           schools : SUBSET Schools, version : Nat, blocks : Nat]

LibraryTypes ==
    /\ source \in SourceRow
    /\ DOMAIN distributed \subseteq Schools
    /\ \A s \in DOMAIN distributed : distributed[s] \in {0} \cup DOMAIN forks
    /\ forks \in Seq(ForkRow)
    /\ batches \in Seq(BatchRow)
    /\ library \in [LibraryJobs -> Errand]
    /\ unversioned \in BOOLEAN

\* Every edit has raised the version, is about to, or has failed to.
VersionsCount == /\ IsFiniteSet(Bumping)
                 /\ source.version + Cardinality(Bumping) <= source.blocks
                 /\ ~unversioned => source.version + Cardinality(Bumping) = source.blocks

\* A copy, or what is read for one, is of no earlier edition than the version it goes by.
NoEarlier(version, blocks) == version <= blocks /\ blocks <= source.blocks

CopiesFollow ==
    /\ \A j \in LibraryJobs : library[j].pc \in {"fork", "questions"} => library[j].version <= source.version
    /\ source.live => \A j \in LibraryJobs :
         library[j].pc = "questions" => NoEarlier(library[j].version, library[j].blocks)
    /\ source.live => \A n \in DOMAIN forks : NoEarlier(forks[n].version, forks[n].blocks)

LInv == LibraryTypes /\ VersionsCount /\ CopiesFollow

-----------------------------------------------------------------------------
(* Rows and requests *)

LEMMA InLobbyIsErrand == InLobby \in Errand /\ InLobby.pc = "idle"
  BY DEF InLobby, Errand

LEMMA ErrandTypes == ASSUME LibraryTypes, NEW j \in LibraryJobs
                     PROVE  /\ library[j] \in Errand /\ library[j].version \in Nat /\ library[j].blocks \in Nat
                            /\ library[j].schools \subseteq Schools
<1>1. library[j] \in Errand
  BY DEF LibraryTypes
<1>. QED
  BY <1>1 DEF Errand

LEMMA SourceIsRow == ASSUME LibraryTypes PROVE source \in SourceRow
  BY DEF LibraryTypes

LEMMA SourceTypes == ASSUME LibraryTypes
                     PROVE  /\ source.version \in Nat /\ source.blocks \in Nat /\ source.questions \in Nat
                            /\ source.live \in BOOLEAN
  BY SourceIsRow DEF SourceRow

\* One request goes on, none of those that are about to raise the version.
LEMMA GoesOnInv ==
    ASSUME LInv, NEW j \in LibraryJobs, NEW r \in Errand, library' = [library EXCEPT ![j] = r],
           source' = source, unversioned' = unversioned, library[j].pc # "bump", r.pc # "bump",
           r.pc \in {"fork", "questions"} => r.version <= source.version,
           source.live /\ r.pc = "questions" => NoEarlier(r.version, r.blocks),
           DOMAIN distributed' \subseteq Schools, batches' \in Seq(BatchRow), forks' \in Seq(ForkRow),
           \A s \in DOMAIN distributed' : distributed'[s] \in {0} \cup DOMAIN forks',
           source.live => \A n \in DOMAIN forks' : NoEarlier(forks'[n].version, forks'[n].blocks)
    PROVE  LInv'
<1>1. library \in [LibraryJobs -> Errand]
  BY DEF LInv, LibraryTypes
<1>2. /\ library' \in [LibraryJobs -> Errand] /\ library'[j] = r
      /\ \A k \in LibraryJobs \ {j} : library'[k] = library[k]
  BY <1>1
<1>3. LibraryTypes'
  BY <1>2 DEF LInv, LibraryTypes
<1>4. Bumping' = Bumping
  BY <1>2 DEF Bumping
<1>5. VersionsCount'
  BY <1>4 DEF LInv, VersionsCount
<1>6. CopiesFollow'
  BY <1>2 DEF LInv, CopiesFollow, NoEarlier
<1>. QED
  BY <1>3, <1>5, <1>6 DEF LInv

\* ... and the tables stay as they are.
LEMMA ReadsInv ==
    ASSUME LInv, NEW j \in LibraryJobs, NEW r \in Errand, library' = [library EXCEPT ![j] = r],
           library[j].pc # "bump", r.pc # "bump",
           UNCHANGED <<source, distributed, forks, batches, unversioned>>,
           r.pc \in {"fork", "questions"} => r.version <= source.version,
           source.live /\ r.pc = "questions" => NoEarlier(r.version, r.blocks)
    PROVE  LInv'
<1>1. /\ DOMAIN distributed' \subseteq Schools /\ batches' \in Seq(BatchRow) /\ forks' \in Seq(ForkRow)
      /\ \A s \in DOMAIN distributed' : distributed'[s] \in {0} \cup DOMAIN forks'
      /\ source.live => \A n \in DOMAIN forks' : NoEarlier(forks'[n].version, forks'[n].blocks)
  BY DEF LInv, LibraryTypes, CopiesFollow
<1>. QED
  BY <1>1, GoesOnInv

\* The lesson is written, with no other version and no later blocks, by nobody or
\* by a request that is done.
LEMMA WrittenInv ==
    ASSUME LInv, UNCHANGED <<distributed, forks, batches, unversioned>>,
           source' \in SourceRow,
           source'.version = source.version, source'.blocks = source.blocks, source'.live => source.live,
           \/ library' = library
           \/ \E j \in LibraryJobs : library[j].pc # "bump" /\ library' = [library EXCEPT ![j] = InLobby]
    PROVE  LInv'
<1>1. /\ library \in [LibraryJobs -> Errand] /\ library' \in [LibraryJobs -> Errand]
      /\ \A k \in LibraryJobs : \/ library'[k] = library[k]
                                \/ library[k].pc # "bump" /\ library'[k].pc = "idle"
  <2>1. library \in [LibraryJobs -> Errand]
    BY DEF LInv, LibraryTypes
  <2>. QED
    BY <2>1, InLobbyIsErrand
<1>2. LibraryTypes'
  BY <1>1 DEF LInv, LibraryTypes
<1>3. Bumping' = Bumping
  BY <1>1 DEF Bumping
<1>4. VersionsCount'
  BY <1>3 DEF LInv, VersionsCount
<1>5. CopiesFollow'
  BY <1>1 DEF LInv, CopiesFollow, NoEarlier
<1>. QED
  BY <1>2, <1>4, <1>5 DEF LInv

-----------------------------------------------------------------------------
(* One lemma for each action *)

LEMMA EditBlocksInv == ASSUME LInv, NEW j \in LibraryJobs, EditBlocks(j) PROVE LInv'
<1> DEFINE r == [InLobby EXCEPT !.pc = "bump"]
<1>1. /\ library[j] = InLobby /\ library' = [library EXCEPT ![j] = r] /\ source.live
      /\ source' = [source EXCEPT !.blocks = @ + 1]
      /\ UNCHANGED <<distributed, forks, batches, unversioned>>
  BY DEF EditBlocks, Enters
<1>2. r \in Errand /\ r.pc = "bump" /\ library[j].pc = "idle"
  BY <1>1 DEF InLobby, Errand
<1>. HIDE DEF r
<1>3. /\ source' \in SourceRow
      /\ source'.version = source.version /\ source'.blocks = source.blocks + 1 /\ source'.live = source.live
  <2>1. source \in SourceRow /\ source.blocks + 1 \in Nat
    BY SourceTypes, SourceIsRow DEF LInv
  <2>. QED
    BY <1>1, <2>1 DEF SourceRow
<1>4. /\ library \in [LibraryJobs -> Errand] /\ library' \in [LibraryJobs -> Errand] /\ library'[j] = r
      /\ \A k \in LibraryJobs \ {j} : library'[k] = library[k]
  BY <1>1, <1>2 DEF LInv, LibraryTypes
<1>5. LibraryTypes'
  BY <1>1, <1>3, <1>4 DEF LInv, LibraryTypes
<1>6. Bumping' = Bumping \cup {j} /\ j \notin Bumping
  BY <1>2, <1>4 DEF Bumping
<1>7. /\ IsFiniteSet(Bumping') /\ Cardinality(Bumping') = Cardinality(Bumping) + 1
      /\ Cardinality(Bumping) \in Nat
  BY <1>6, FS_AddElement, FS_CardinalityType DEF LInv, VersionsCount
<1>8. VersionsCount'
  BY <1>1, <1>3, <1>7, SourceTypes DEF LInv, VersionsCount
<1>9. /\ source.blocks \in Nat /\ source.version \in Nat
      /\ \A k \in LibraryJobs : library[k].blocks \in Nat /\ library[k].version \in Nat
      /\ \A n \in DOMAIN forks : forks[n].blocks \in Nat /\ forks[n].version \in Nat
  <2>1. \A n \in DOMAIN forks : forks[n] \in ForkRow
    BY DEF LInv, LibraryTypes
  <2>. QED
    BY <2>1, SourceTypes, ErrandTypes DEF LInv, ForkRow
<1>10. CopiesFollow'
  BY <1>1, <1>2, <1>3, <1>4, <1>9 DEF LInv, CopiesFollow, NoEarlier
<1>. QED
  BY <1>5, <1>8, <1>10 DEF LInv

\* The version is raised, or is not.
LEMMA BumpedInv ==
    ASSUME LInv, NEW j \in LibraryJobs, Exits(j, "bump"), UNCHANGED <<distributed, forks, batches>>,
           \/ source' = [source EXCEPT !.version = @ + 1] /\ unversioned' = unversioned
           \/ source' = source /\ unversioned' = TRUE
    PROVE  LInv'
<1>1. /\ library \in [LibraryJobs -> Errand] /\ library' \in [LibraryJobs -> Errand] /\ library'[j].pc = "idle"
      /\ library[j].pc = "bump" /\ \A k \in LibraryJobs \ {j} : library'[k] = library[k]
  BY InLobbyIsErrand DEF LInv, LibraryTypes, Exits
<1> DEFINE Raised == /\ source' \in SourceRow
                     /\ source'.blocks = source.blocks /\ source'.live = source.live /\ unversioned' \in BOOLEAN
                     /\ source'.version \in {source.version, source.version + 1}
                     /\ ~unversioned' => (~unversioned /\ source'.version = source.version + 1)
<1>2. Raised
  <2>1. source \in SourceRow /\ source.version + 1 \in Nat /\ unversioned \in BOOLEAN
    BY SourceTypes, SourceIsRow DEF LInv, LibraryTypes
  <2>2. ASSUME source' = [source EXCEPT !.version = source.version + 1], unversioned' = unversioned
        PROVE  Raised
    BY <2>1, <2>2 DEF SourceRow
  <2>3. ASSUME source' = source, unversioned' = TRUE
        PROVE  Raised
    BY <2>1, <2>3
  <2>. QED
    BY <2>2, <2>3
<1>3. LibraryTypes'
  BY <1>1, <1>2 DEF LInv, LibraryTypes
<1>4. Bumping' = Bumping \ {j} /\ j \in Bumping
  BY <1>1 DEF Bumping
<1>5. /\ IsFiniteSet(Bumping') /\ Cardinality(Bumping') = Cardinality(Bumping) - 1
      /\ Cardinality(Bumping) \in Nat /\ Cardinality(Bumping') \in Nat
  BY <1>4, FS_RemoveElement, FS_CardinalityType DEF LInv, VersionsCount
<1>6. VersionsCount'
  BY <1>2, <1>5, SourceTypes DEF LInv, VersionsCount
<1>7. \A k \in LibraryJobs : library[k].version \in Nat
  BY ErrandTypes DEF LInv
<1>8. CopiesFollow'
  BY <1>1, <1>2, <1>7, SourceTypes DEF LInv, CopiesFollow, NoEarlier
<1>. QED
  BY <1>3, <1>6, <1>8 DEF LInv

LEMMA SourceWrittenInv == ASSUME LInv, EditQuestions \/ UpdateStatus PROVE LInv'
<1>1. CASE EditQuestions
  <2>1. /\ source' = [source EXCEPT !.questions = @ + 1]
        /\ UNCHANGED <<distributed, forks, batches, library, unversioned>>
    BY <1>1 DEF EditQuestions
  <2>2. /\ source' \in SourceRow
        /\ source'.version = source.version /\ source'.blocks = source.blocks /\ source'.live = source.live
    BY <2>1, SourceTypes, SourceIsRow DEF LInv, SourceRow
  <2>. QED
    BY <2>1, <2>2, WrittenInv
<1>2. CASE UpdateStatus
  <2>1. PICK status \in {"DRAFT", "READY"} : source' = [source EXCEPT !.status = status]
    BY <1>2 DEF UpdateStatus
  <2>2. UNCHANGED <<distributed, forks, batches, library, unversioned>>
    BY <1>2 DEF UpdateStatus
  <2>3. /\ source' \in SourceRow
        /\ source'.version = source.version /\ source'.blocks = source.blocks /\ source'.live = source.live
    BY <2>1, SourceTypes, SourceIsRow DEF LInv, SourceRow
  <2>. QED
    BY <2>2, <2>3, WrittenInv
<1>. QED
  BY <1>1, <1>2

LEMMA DeletePlatformLessonInv == ASSUME LInv, NEW j \in LibraryJobs, DeletePlatformLesson(j) PROVE LInv'
<1>1. /\ library[j].pc # "bump" /\ library' = [library EXCEPT ![j] = InLobby]
      /\ source' = [source EXCEPT !.live = FALSE] /\ UNCHANGED <<distributed, forks, batches, unversioned>>
  BY DEF DeletePlatformLesson, Exits
<1>2. /\ source' \in SourceRow
      /\ source'.version = source.version /\ source'.blocks = source.blocks /\ ~source'.live
  BY <1>1, SourceIsRow DEF LInv, SourceRow
<1>. QED
  BY <1>1, <1>2, WrittenInv

LEMMA CheckLessonDraftInv == ASSUME LInv, NEW j \in LibraryJobs, CheckLessonDraft(j) PROVE LInv'
<1> DEFINE r == [InLobby EXCEPT !.pc = "delete"]
<1>1. /\ library[j] = InLobby /\ library' = [library EXCEPT ![j] = r]
      /\ UNCHANGED <<source, distributed, forks, batches, unversioned>>
  BY DEF CheckLessonDraft, Enters
<1>2. r \in Errand /\ r.pc = "delete" /\ library[j].pc = "idle"
  BY <1>1 DEF InLobby, Errand
<1>. HIDE DEF r
<1>. QED
  BY <1>1, <1>2, ReadsInv

LEMMA ReadDistributionsInv == ASSUME LInv, NEW j \in LibraryJobs, ReadDistributions(j) PROVE LInv'
<1>1. PICK chosen \in SUBSET Schools :
        /\ Enters(j, [InLobby EXCEPT !.pc = "batch", !.schools = chosen \ DOMAIN distributed])
        /\ UNCHANGED <<source, distributed, forks, batches, unversioned>>
  BY DEF ReadDistributions
<1> DEFINE new == chosen \ DOMAIN distributed
           r == [InLobby EXCEPT !.pc = "batch", !.schools = new]
<1>2. library[j] = InLobby /\ library' = [library EXCEPT ![j] = r]
  BY <1>1 DEF Enters
<1>3. r \in Errand /\ r.pc = "batch" /\ library[j].pc = "idle"
  <2>1. new \in SUBSET Schools
    OBVIOUS
  <2>2. r = [InLobby EXCEPT !.pc = "batch", !.schools = new]
    OBVIOUS
  <2>. HIDE DEF new, r
  <2>. QED
    <3>1. r = [pc |-> "batch", schools |-> new, version |-> 0, blocks |-> 0]
      BY <2>2 DEF InLobby
    <3>2. r \in Errand
      BY <2>1, <3>1 DEF Errand
    <3>. QED
      BY <1>2, <3>1, <3>2, InLobbyIsErrand
<1>. HIDE DEF r
<1>. QED
  BY <1>1, <1>2, <1>3, ReadsInv

LEMMA ReadSourceInv == ASSUME LInv, NEW j \in LibraryJobs, ReadSource(j) PROVE LInv'
<1>1. PICK s \in DOMAIN distributed :
        /\ Enters(j, [InLobby EXCEPT !.pc = "fork", !.schools = {s}, !.version = source.version])
        /\ UNCHANGED <<source, distributed, forks, batches, unversioned>>
  BY DEF ReadSource
<1> DEFINE r == [InLobby EXCEPT !.pc = "fork", !.schools = {s}, !.version = source.version]
<1>2. library[j] = InLobby /\ library' = [library EXCEPT ![j] = r]
  BY <1>1 DEF Enters
<1>3. s \in Schools /\ source.version \in Nat
  BY SourceTypes DEF LInv, LibraryTypes
<1>4. r \in Errand /\ r.pc = "fork" /\ library[j].pc = "idle" /\ r.version = source.version
  <2> DEFINE one == {s}
  <2>1. one \in SUBSET Schools
    BY <1>3
  <2>2. r = [InLobby EXCEPT !.pc = "fork", !.schools = one, !.version = source.version]
    OBVIOUS
  <2>. HIDE DEF one, r
  <2>. QED
    <3>1. r = [pc |-> "fork", schools |-> one, version |-> source.version, blocks |-> 0]
      BY <2>2 DEF InLobby
    <3>2. r \in Errand
      BY <1>3, <2>1, <3>1 DEF Errand
    <3>. QED
      BY <1>2, <3>1, <3>2, InLobbyIsErrand
<1>5. r.version <= source.version
  BY <1>3, <1>4
<1>. HIDE DEF r
<1>. QED
  BY <1>1, <1>2, <1>4, <1>5, ReadsInv

LEMMA GiveUpInv == ASSUME LInv, NEW j \in LibraryJobs, GiveUp(j) PROVE LInv'
<1>1. /\ library[j].pc # "bump" /\ library' = [library EXCEPT ![j] = InLobby]
      /\ UNCHANGED <<source, distributed, forks, batches, unversioned>>
  BY DEF GiveUp, Exits
<1>. QED
  BY <1>1, InLobbyIsErrand, ReadsInv

\* What is read of the blocks while the lesson is there is no earlier than its version.
LEMMA CopyBlocksAndItemsInv == ASSUME LInv, NEW j \in LibraryJobs, CopyBlocksAndItems(j) PROVE LInv'
<1> DEFINE r == [library[j] EXCEPT !.pc = "questions", !.blocks = Found(source.blocks)]
<1>1. /\ library[j].pc = "fork" /\ UNCHANGED <<source, distributed, forks, batches, unversioned>>
      /\ library' = [library EXCEPT ![j] = r]
  BY DEF CopyBlocksAndItems
<1>2. library[j] \in Errand /\ library[j].version \in Nat /\ Found(source.blocks) \in Nat
  BY ErrandTypes, SourceTypes DEF LInv, Found
<1>3. /\ r \in Errand /\ r.pc = "questions" /\ r.blocks = Found(source.blocks)
      /\ r.version = library[j].version
  BY <1>2 DEF Errand
<1>. HIDE DEF r
<1>4. library[j].version <= source.version
  BY <1>1 DEF LInv, CopiesFollow
<1>5. source.version <= source.blocks /\ source.version \in Nat /\ source.blocks \in Nat
  <2>1. Cardinality(Bumping) \in Nat /\ source.version + Cardinality(Bumping) <= source.blocks
    BY FS_CardinalityType DEF LInv, VersionsCount
  <2>. QED
    BY <2>1, SourceTypes DEF LInv
<1>6. source.live => NoEarlier(r.version, r.blocks)
  BY <1>2, <1>3, <1>4, <1>5 DEF NoEarlier, Found
<1>. QED
  BY <1>1, <1>3, <1>4, <1>6, ReadsInv

LEMMA CopyQuestionsInv == ASSUME LInv, NEW j \in LibraryJobs, CopyQuestions(j) PROVE LInv'
<1>1. PICK s \in library[j].schools :
        /\ forks' = Append(forks, [school |-> s, version |-> library[j].version, blocks |-> library[j].blocks,
                                   questions |-> Found(source.questions), live |-> TRUE])
        /\ distributed' = [distributed EXCEPT ![s] = Len(forks')]
  BY DEF CopyQuestions
<1> DEFINE x == [school |-> s, version |-> library[j].version, blocks |-> library[j].blocks,
                 questions |-> Found(source.questions), live |-> TRUE]
<1>2. /\ library[j].pc = "questions" /\ library' = [library EXCEPT ![j] = InLobby]
      /\ UNCHANGED <<source, batches, unversioned>>
  BY DEF CopyQuestions, Exits
<1>3. /\ s \in Schools /\ library[j].version \in Nat /\ library[j].blocks \in Nat
      /\ Found(source.questions) \in Nat
  BY ErrandTypes, SourceTypes DEF LInv, Found
<1>4. x \in ForkRow /\ x.version = library[j].version /\ x.blocks = library[j].blocks
  BY <1>3 DEF ForkRow
<1>5. forks' = Append(forks, x)
  BY <1>1
<1>. HIDE DEF x
<1>6. forks \in Seq(ForkRow)
  BY DEF LInv, LibraryTypes
<1>7. /\ forks' \in Seq(ForkRow) /\ DOMAIN forks \subseteq DOMAIN forks' /\ Len(forks') \in DOMAIN forks'
      /\ \A m \in DOMAIN forks' : (m \in DOMAIN forks /\ forks'[m] = forks[m]) \/ forks'[m] = x
  BY <1>4, <1>5, <1>6, AddRow
<1>8. /\ DOMAIN distributed' \subseteq Schools /\ batches' \in Seq(BatchRow)
      /\ \A t \in DOMAIN distributed' : distributed'[t] \in {0} \cup DOMAIN forks'
  BY <1>1, <1>2, <1>7 DEF LInv, LibraryTypes
<1>9. source.live => \A n \in DOMAIN forks' : NoEarlier(forks'[n].version, forks'[n].blocks)
  BY <1>2, <1>4, <1>7 DEF LInv, CopiesFollow
<1>. QED
  BY <1>2, <1>7, <1>8, <1>9, InLobbyIsErrand, GoesOnInv

LEMMA CreateBatchInv == ASSUME LInv, NEW j \in LibraryJobs, CreateBatch(j) PROVE LInv'
<1> DEFINE x == [said |-> library[j].schools, got |-> {}]
           r == [library[j] EXCEPT !.pc = "rows", !.version = Len(batches')]
<1>1. /\ library[j].pc = "batch" /\ batches' = Append(batches, x) /\ library' = [library EXCEPT ![j] = r]
      /\ UNCHANGED <<source, distributed, forks, unversioned>>
  BY DEF CreateBatch
<1>2. library[j] \in Errand /\ library[j].schools \subseteq Schools /\ batches \in Seq(BatchRow)
  BY ErrandTypes DEF LInv, LibraryTypes
<1>3. x \in BatchRow
  BY <1>2 DEF BatchRow
<1>4. batches' \in Seq(BatchRow) /\ Len(batches') \in Nat
  BY <1>1, <1>2, <1>3, AddRow
<1>5. r \in Errand /\ r.pc = "rows"
  BY <1>2, <1>4 DEF Errand
<1>. HIDE DEF x, r
<1>6. /\ DOMAIN distributed' \subseteq Schools /\ forks' \in Seq(ForkRow)
      /\ \A s \in DOMAIN distributed' : distributed'[s] \in {0} \cup DOMAIN forks'
      /\ source.live => \A n \in DOMAIN forks' : NoEarlier(forks'[n].version, forks'[n].blocks)
  BY <1>1 DEF LInv, LibraryTypes, CopiesFollow
<1>. QED
  BY <1>1, <1>4, <1>5, <1>6, GoesOnInv

LEMMA CreateDistributionsInv == ASSUME LInv, NEW j \in LibraryJobs, CreateDistributions(j) PROVE LInv'
<1> DEFINE new == library[j].schools
           b == library[j].version
<1>1. /\ library[j].pc = "rows" /\ library' = [library EXCEPT ![j] = InLobby]
      /\ UNCHANGED <<source, forks, unversioned>>
      /\ \/ /\ distributed' = [s \in DOMAIN distributed \cup new |-> IF s \in new THEN 0 ELSE distributed[s]]
            /\ batches' = [batches EXCEPT ![b].got = new]
         \/ UNCHANGED <<distributed, batches>>
  BY DEF CreateDistributions, Exits
<1>2. new \subseteq Schools /\ batches \in Seq(BatchRow)
  BY ErrandTypes DEF LInv, LibraryTypes
<1>. HIDE DEF new, b
<1>3. /\ DOMAIN distributed' \subseteq Schools
      /\ \A s \in DOMAIN distributed' : distributed'[s] \in {0} \cup DOMAIN forks
  BY <1>1, <1>2 DEF LInv, LibraryTypes
<1>4. batches' \in Seq(BatchRow)
  <2>1. ASSUME batches' = [batches EXCEPT ![b].got = new], b \in DOMAIN batches
        PROVE  batches' \in Seq(BatchRow)
    <3>1. batches[b] \in BatchRow
      BY <1>2, <2>1
    <3>2. [batches[b] EXCEPT !.got = new] \in BatchRow
      BY <1>2, <3>1 DEF BatchRow
    <3>3. batches' = [batches EXCEPT ![b] = [batches[b] EXCEPT !.got = new]]
      BY <2>1
    <3>. QED
      BY <1>2, <2>1, <3>2, <3>3, ReplaceRow
  <2>2. ASSUME batches' = [batches EXCEPT ![b].got = new], b \notin DOMAIN batches
        PROVE  batches' = batches
    BY <1>2, <2>2
  <2>. QED
    BY <1>1, <1>2, <2>1, <2>2
<1>5. /\ forks' \in Seq(ForkRow)
      /\ source.live => \A n \in DOMAIN forks' : NoEarlier(forks'[n].version, forks'[n].blocks)
  BY <1>1 DEF LInv, LibraryTypes, CopiesFollow
<1>. QED
  BY <1>1, <1>3, <1>4, <1>5, InLobbyIsErrand, GoesOnInv

LEMMA DeleteForkInv == ASSUME LInv, DeleteFork PROVE LInv'
<1>1. PICK n \in DOMAIN forks : forks' = [forks EXCEPT ![n].live = FALSE]
  BY DEF DeleteFork
<1>2. UNCHANGED <<source, distributed, batches, library, unversioned>>
  BY DEF DeleteFork
<1> DEFINE x == [forks[n] EXCEPT !.live = FALSE]
<1>3. forks \in Seq(ForkRow) /\ forks[n] \in ForkRow
  BY DEF LInv, LibraryTypes
<1>4. x \in ForkRow /\ x.version = forks[n].version /\ x.blocks = forks[n].blocks
  BY <1>3 DEF ForkRow
<1>5. forks' = [forks EXCEPT ![n] = x]
  BY <1>1
<1>. HIDE DEF x
<1>6. /\ forks' \in Seq(ForkRow) /\ DOMAIN forks' = DOMAIN forks
      /\ \A m \in DOMAIN forks : forks'[m] = IF m = n THEN x ELSE forks[m]
  BY <1>3, <1>4, <1>5, ReplaceRow
<1>7. \A m \in DOMAIN forks : forks'[m].version = forks[m].version /\ forks'[m].blocks = forks[m].blocks
  BY <1>4, <1>6
<1>8. LibraryTypes'
  BY <1>2, <1>6 DEF LInv, LibraryTypes
<1>9. VersionsCount'
  BY <1>2 DEF LInv, VersionsCount, Bumping
<1>10. CopiesFollow'
  BY <1>2, <1>6, <1>7 DEF LInv, CopiesFollow, NoEarlier
<1>. QED
  BY <1>8, <1>9, <1>10 DEF LInv

LEMMA DistributionInitInv == DistributionInit => LInv
<1> SUFFICES ASSUME DistributionInit
             PROVE  LInv
  OBVIOUS
<1>1. LibraryTypes
  <2>1. source \in SourceRow
    BY DEF DistributionInit, SourceRow
  <2>2. distributed = [s \in {} |-> 0] /\ DOMAIN distributed = {}
    BY DEF DistributionInit
  <2>3. forks \in Seq(ForkRow) /\ batches \in Seq(BatchRow) /\ unversioned \in BOOLEAN
    <3>1. forks = << >> /\ batches = << >> /\ unversioned = FALSE
      BY DEF DistributionInit
    <3>2. \A S : << >> \in Seq(S)
      OBVIOUS
    <3>3. unversioned \in BOOLEAN
      BY <3>1
    <3>. QED
      BY <3>1, <3>2, <3>3, Zenon
  <2>4. library \in [LibraryJobs -> Errand]
    BY InLobbyIsErrand DEF DistributionInit
  <2>. QED
    BY <2>1, <2>2, <2>3, <2>4 DEF LibraryTypes
<1>2. Bumping = {}
  BY InLobbyIsErrand DEF DistributionInit, Bumping
<1>3. VersionsCount
  BY <1>2, FS_EmptySet DEF DistributionInit, VersionsCount
<1>4. CopiesFollow
  BY InLobbyIsErrand DEF DistributionInit, CopiesFollow
<1>. QED
  BY <1>1, <1>3, <1>4 DEF LInv

LEMMA DistributionNextInv == ASSUME LInv, [DistributionNext]_libraryVars PROVE LInv'
<1>1. CASE UNCHANGED libraryVars
  BY <1>1 DEF libraryVars, LInv, LibraryTypes, VersionsCount, Bumping, CopiesFollow, NoEarlier
<1>2. ASSUME NEW j \in LibraryJobs, Author(j)
      PROVE  LInv'
  <2>1. CASE BumpVersion(j) \/ BumpLost(j)
    BY <2>1, BumpedInv DEF BumpVersion, BumpLost
  <2>. QED
    BY <1>2, <2>1, EditBlocksInv, CheckLessonDraftInv, DeletePlatformLessonInv DEF Author
<1>3. ASSUME NEW j \in LibraryJobs, Admin(j)
      PROVE  LInv'
  BY <1>3, ReadDistributionsInv, CreateBatchInv, CreateDistributionsInv DEF Admin
<1>4. ASSUME NEW j \in LibraryJobs, Teacher(j)
      PROVE  LInv'
  BY <1>4, ReadSourceInv, CopyBlocksAndItemsInv, CopyQuestionsInv DEF Teacher
<1>. QED
  BY <1>1, <1>2, <1>3, <1>4, SourceWrittenInv, DeleteForkInv, GiveUpInv DEF DistributionNext

\* A copy that is shown as up to date has the blocks of the platform's lesson.
THEOREM CopyTheorem == DistributionSpec => []CopyIsCurrent
<1>1. LInv => CopyIsCurrent
  <2> SUFFICES ASSUME LInv, source.live, ~unversioned, \A j \in LibraryJobs : library[j].pc # "bump",
                      NEW s \in DOMAIN distributed, StateOf(s) = "forked"
               PROVE  forks[distributed[s]].blocks = source.blocks
    BY DEF CopyIsCurrent
  <2> DEFINE n == distributed[s]
  <2>1. HasFork(s) /\ ~(source.version > forks[n].version)
    BY DEF StateOf
  <2>2. n \in DOMAIN forks
    BY <2>1 DEF HasFork, LInv, LibraryTypes
  <2>3. forks[n] \in ForkRow
    BY <2>2 DEF LInv, LibraryTypes
  <2>4. forks[n].version \in Nat /\ forks[n].blocks \in Nat
    BY <2>3 DEF ForkRow
  <2>5. forks[n].version <= forks[n].blocks /\ forks[n].blocks <= source.blocks
    BY <2>2 DEF LInv, CopiesFollow, NoEarlier
  <2>6. Bumping = {}
    BY DEF Bumping
  <2>7. source.version = source.blocks
    BY <2>6, FS_EmptySet, SourceTypes DEF LInv, VersionsCount
  <2>. QED
    BY <2>1, <2>4, <2>5, <2>7, SourceTypes DEF LInv
<1>. QED
  BY <1>1, DistributionInitInv, DistributionNextInv, PTL DEF DistributionSpec

-----------------------------------------------------------------------------
(***************************************************************************)
(* The attempts that are reported                                          *)
(***************************************************************************)

Attempt == [lesson : Lessons, score : Scores, calculatedAt : Nat]

\* No attempt is of the future.
AttemptTypes == /\ published \in Seq(Lessons)
                /\ attempts \in Seq(Attempt)
                /\ sending \subseteq Attempt /\ IsFiniteSet(sending)
                /\ \A n \in DOMAIN attempts : attempts[n].calculatedAt < Attempted
                /\ \A x \in sending : x.calculatedAt < Attempted

\* Of a lesson whose attempts did not cross, the rows are in the order of both times, and
\* what is being sent, one attempt at most, comes after them.
InOrder(l) ==
    /\ \A n, m \in ResultsOf(l) : n < m => attempts[n].calculatedAt < attempts[m].calculatedAt
    /\ \A x \in sending : x.lesson = l =>
         /\ \A n \in ResultsOf(l) : attempts[n].calculatedAt < x.calculatedAt
         /\ \A y \in sending : y.lesson = l => x = y

AInv == AttemptTypes /\ \A l \in Lessons \ crossed : InOrder(l)

LEMMA ReportsInitInv == ReportsInit => AInv
<1> SUFFICES ASSUME ReportsInit PROVE AInv
  OBVIOUS
<1>1. attempts = << >> /\ sending = {} /\ published = << >>
  BY DEF ReportsInit
<1>2. AttemptTypes
  BY <1>1, FS_EmptySet DEF AttemptTypes
<1>. QED
  BY <1>1, <1>2 DEF AInv, InOrder, ResultsOf

LEMMA AttemptsStay ==
    ASSUME AInv, published' \in Seq(Lessons), UNCHANGED <<attempts, sending, crossed>>
    PROVE  AInv'
  BY DEF AInv, AttemptTypes, Attempted, InOrder, ResultsOf

LEMMA AttemptsAre ==
    ASSUME AttemptTypes
    PROVE  /\ Len(attempts) \in Nat /\ Cardinality(sending) \in Nat /\ Attempted \in Nat
           /\ Attempted = Len(attempts) + Cardinality(sending)
           /\ DOMAIN attempts = 1 .. Len(attempts)
           /\ \A n \in DOMAIN attempts : attempts[n] \in Attempt /\ attempts[n].calculatedAt \in Nat
           /\ \A x \in sending : x.calculatedAt \in Nat
<1>1. Len(attempts) \in Nat /\ Cardinality(sending) \in Nat /\ DOMAIN attempts = 1 .. Len(attempts)
  BY FS_CardinalityType DEF AttemptTypes
<1>2. \A n \in DOMAIN attempts : attempts[n] \in Attempt
  BY <1>1 DEF AttemptTypes
<1>. QED
  BY <1>1, <1>2 DEF Attempted, Attempt, AttemptTypes

LEMMA SendAttemptInv == ASSUME AInv, SendAttempt PROVE AInv'
<1>1. PICK l \in SeqSet(published), e \in Scores :
        /\ sending' = sending \cup {[lesson |-> l, score |-> e, calculatedAt |-> Attempted]}
        /\ crossed' = IF \E x \in sending : x.lesson = l THEN crossed \cup {l} ELSE crossed
        /\ UNCHANGED <<attempts, published>>
  BY DEF SendAttempt
<1> DEFINE new == [lesson |-> l, score |-> e, calculatedAt |-> Attempted]
<1>2. AttemptTypes /\ \A k \in Lessons \ crossed : InOrder(k)
  BY DEF AInv
<1>3. l \in Lessons
  BY <1>2 DEF SeqSet, AttemptTypes
<1>4. new \in Attempt /\ new.lesson = l /\ new.calculatedAt = Attempted
  BY <1>2, <1>3, AttemptsAre DEF Attempt
<1>. HIDE DEF new
<1>5. sending' = sending \cup {new}
  BY <1>1 DEF new
<1>6. new \notin sending
  BY <1>2, <1>4, AttemptsAre DEF AttemptTypes
<1>7. IsFiniteSet(sending') /\ Cardinality(sending') = Cardinality(sending) + 1
  BY <1>2, <1>5, <1>6, FS_AddElement DEF AttemptTypes
<1>8. Attempted' = Attempted + 1
  BY <1>1, <1>2, <1>7, AttemptsAre DEF Attempted
<1>9. AttemptTypes'
  <2>1. /\ \A n \in DOMAIN attempts : attempts[n].calculatedAt < Attempted'
        /\ \A x \in sending' : x.calculatedAt < Attempted'
    BY <1>2, <1>4, <1>5, <1>8, AttemptsAre DEF AttemptTypes
  <2>. QED
    BY <1>1, <1>2, <1>4, <1>5, <1>7, <2>1 DEF AttemptTypes
<1>10. ASSUME NEW k \in Lessons, k \notin crossed'
       PROVE  InOrder(k)'
  <2>1. InOrder(k) /\ (k = l => \A x \in sending : x.lesson # k)
    BY <1>1, <1>2, <1>10
  <2>2. ResultsOf(k)' = ResultsOf(k) /\ ResultsOf(k) \subseteq DOMAIN attempts
    BY <1>1 DEF ResultsOf
  <2>3. \A n \in ResultsOf(k) : attempts[n].calculatedAt < new.calculatedAt
    BY <1>2, <1>4, <2>2 DEF AttemptTypes
  <2>4. CASE k = l
    BY <1>1, <1>5, <2>1, <2>2, <2>3, <2>4 DEF InOrder
  <2>5. CASE k # l
    BY <1>1, <1>4, <1>5, <2>1, <2>2, <2>5 DEF InOrder
  <2>. QED
    BY <2>4, <2>5
<1>. QED
  BY <1>9, <1>10 DEF AInv

LEMMA InsertResultInv == ASSUME AInv, InsertResult PROVE AInv'
<1>1. PICK x \in sending : /\ sending' = sending \ {x} /\ attempts' = Append(attempts, x)
                           /\ UNCHANGED <<published, crossed>>
  BY DEF InsertResult
<1>2. AttemptTypes /\ (\A k \in Lessons \ crossed : InOrder(k)) /\ x \in Attempt
  BY <1>1 DEF AInv, AttemptTypes
<1> DEFINE last == Len(attempts) + 1
<1>3. /\ last \in Nat /\ DOMAIN attempts' = 1 .. last /\ Len(attempts') = last /\ attempts'[last] = x
      /\ \A n \in DOMAIN attempts : n < last /\ attempts'[n] = attempts[n]
      /\ \A n \in DOMAIN attempts' : n \in DOMAIN attempts \/ n = last
      /\ attempts' \in Seq(Attempt)
  BY <1>1, <1>2, AttemptsAre DEF AttemptTypes
<1>. HIDE DEF last
<1>4. IsFiniteSet(sending') /\ Cardinality(sending') = Cardinality(sending) - 1
  BY <1>1, <1>2, FS_RemoveElement DEF AttemptTypes
<1>5. Attempted' = Attempted
  BY <1>2, <1>3, <1>4, AttemptsAre DEF Attempted, last
<1>6. AttemptTypes'
  <2>1. /\ \A n \in DOMAIN attempts' : attempts'[n].calculatedAt < Attempted
        /\ \A y \in sending' : y.calculatedAt < Attempted
    BY <1>1, <1>2, <1>3 DEF AttemptTypes
  <2>. QED
    BY <1>1, <1>2, <1>3, <1>4, <1>5, <2>1 DEF AttemptTypes
<1>7. ASSUME NEW k \in Lessons, k \notin crossed
      PROVE  InOrder(k)'
  <2>1. InOrder(k) /\ sending' \subseteq sending /\ x \notin sending'
    BY <1>1, <1>2, <1>7
  <2>2. /\ ResultsOf(k) \subseteq DOMAIN attempts
        /\ \A n \in ResultsOf(k)' : n \in ResultsOf(k) \/ (n = last /\ x.lesson = k)
    BY <1>3 DEF ResultsOf
  <2>3. ASSUME NEW n \in ResultsOf(k)', NEW m \in ResultsOf(k)', n < m
        PROVE  attempts'[n].calculatedAt < attempts'[m].calculatedAt
    <3>1. n \in ResultsOf(k)
      BY <1>3, <2>2, <2>3, <1>2, AttemptsAre
    <3>2. CASE m \in ResultsOf(k)
      BY <1>3, <2>1, <2>2, <2>3, <3>1, <3>2 DEF InOrder
    <3>3. CASE m = last /\ x.lesson = k
      BY <1>1, <1>3, <2>1, <2>2, <3>1, <3>3 DEF InOrder
    <3>. QED
      BY <2>2, <3>2, <3>3
  <2>4. ASSUME NEW y \in sending', y.lesson = k
        PROVE  /\ \A n \in ResultsOf(k)' : attempts'[n].calculatedAt < y.calculatedAt
               /\ \A z \in sending' : z.lesson = k => y = z
    <3>1. x.lesson # k
      BY <1>1, <2>1, <2>4 DEF InOrder
    <3>. QED
      BY <1>3, <2>1, <2>2, <2>4, <3>1 DEF InOrder
  <2>. QED
    BY <2>3, <2>4 DEF InOrder
<1>. QED
  BY <1>1, <1>6, <1>7 DEF AInv

LEMMA ReportsNextInv == ASSUME AInv, [ReportsNext]_reportVars PROVE AInv'
<1>1. ASSUME Publish
      PROVE  AInv'
  <2>1. PICK l \in Lessons : published' = Append(published, l)
    BY <1>1 DEF Publish
  <2>2. published' \in Seq(Lessons)
    BY <2>1 DEF AInv, AttemptTypes
  <2>. QED
    BY <1>1, <2>2, AttemptsStay DEF Publish
<1>2. ASSUME TakeBack \/ ChangeTerm \/ CompleteLesson \/ UNCHANGED reportVars
      PROVE  AInv'
  <2>1. UNCHANGED <<published, attempts, sending, crossed>>
    BY <1>2 DEF TakeBack, ChangeTerm, CompleteLesson, reportVars
  <2>. QED
    BY <2>1, AttemptsStay DEF AInv, AttemptTypes
<1>. QED
  BY <1>1, <1>2, SendAttemptInv, InsertResultInv DEF ReportsNext

\* Unless two attempts at a lesson were under way at once, the last row is of the last attempt.
LEMMA LastOfUncrossed == ASSUME AInv PROVE LastIsLast
<1> SUFFICES ASSUME NEW l \in Lessons \ crossed, Evaluated(l)
             PROVE  LastResult(l) = LastAttempt(l)
  BY DEF LastIsLast
<1> DEFINE P == ResultsOf(l)
           num == [n \in P |-> n]
<1>1. /\ AttemptTypes /\ P # {} /\ P \subseteq 1 .. Len(attempts) /\ Len(attempts) \in Nat
      /\ \A n \in P : attempts[n].calculatedAt \in Nat
      /\ \A n, m \in P : n < m => attempts[n].calculatedAt < attempts[m].calculatedAt
  BY AttemptsAre DEF AInv, InOrder, Evaluated, ResultsOf
<1>2. IsFiniteSet(P)
  <2>1. IsFiniteSet(1 .. Len(attempts))
    BY <1>1, FS_Interval
  <2>. HIDE DEF P
  <2>. QED
    BY <1>1, <2>1, FS_Subset
<1>3. num \in [P -> Nat]
  BY <1>1
<1>. HIDE DEF P
<1>4. PICK u \in P : \A v \in P : v <= u
  <2>. HIDE DEF num
  <2>1. PICK u \in P : \A v \in P : num[v] <= num[u]
    BY <1>1, <1>2, <1>3, Greatest
  <2>. QED
    BY <2>1 DEF num
<1>5. \A n \in P : (\A m \in P : m <= n) => n = u
  BY <1>1, <1>4
<1>6. LastResult(l) = u
  BY <1>4, <1>5 DEF LastResult, P
<1>7. \A m \in P : attempts[m].calculatedAt <= attempts[u].calculatedAt
  BY <1>1, <1>4
<1>8. \A n \in P : (\A m \in P : attempts[m].calculatedAt <= attempts[n].calculatedAt) => n = u
  BY <1>1, <1>4
<1>9. LastAttempt(l) = u
  BY <1>4, <1>7, <1>8 DEF LastAttempt, P
<1>. QED
  BY <1>6, <1>9

\* What is shown is computed from rows of the right kind, for subjects of the grade.
ShownFrom == AInv /\ active \subseteq Subjects

LEMMA ReportsInv == ReportsSpec => []ShownFrom
<1>1. ReportsInit => ShownFrom
  BY ReportsInitInv DEF ReportsInit, ShownFrom
<1>2. ASSUME [ReportsNext]_reportVars PROVE active' = active
  BY <1>2 DEF ReportsNext, reportVars, Publish, TakeBack, ChangeTerm, CompleteLesson, SendAttempt,
              InsertResult
<1>3. ShownFrom /\ [ReportsNext]_reportVars => ShownFrom'
  BY <1>2, ReportsNextInv DEF ShownFrom
<1>. QED
  BY <1>1, <1>3, PTL DEF ReportsSpec

LEMMA VisibleIsFinite ==
    ASSUME AttemptTypes
    PROVE  /\ IsFiniteSet(Visible) /\ Visible \subseteq Lessons
           /\ \A ls \in SUBSET Visible : \A period \in Periods : IsFiniteSet(During(ls, period))
<1>1. DOMAIN published = 1 .. Len(published) /\ Len(published) \in Nat
  BY DEF AttemptTypes
<1>2. IsFiniteSet(SeqSet(published))
  <2>1. IsFiniteSet(DOMAIN published)
    BY <1>1, FS_Interval
  <2>2. published \in Surjection(DOMAIN published, SeqSet(published))
    BY DEF AttemptTypes, SeqSet, Surjection
  <2>. QED
    BY <2>1, <2>2, FS_Surjection
<1>3. Visible \subseteq SeqSet(published) /\ SeqSet(published) \subseteq Lessons
  BY DEF Visible, SeqSet, AttemptTypes
<1>4. IsFiniteSet(Visible)
  BY <1>2, <1>3, FS_Subset
<1>5. ASSUME NEW ls \in SUBSET Visible, NEW period \in Periods
      PROVE  IsFiniteSet(During(ls, period))
  <2>1. IsFiniteSet(ls) /\ IsFiniteSet({}) /\ IsFiniteSet({LatestOf(ls)})
    BY <1>4, FS_Subset, FS_EmptySet, FS_Singleton
  <2>. QED
    BY <2>1 DEF During, LastPublishedDay
<1>. QED
  BY <1>3, <1>4, <1>5

\* The term of the reports is the one of the parents.
LEMMA SameTerm ==
    ASSUME term # NoTerm
    PROVE  /\ AcademicContext = term /\ ReportContext = term
           /\ \A ls : During(ls, Whole) = ls
           /\ \A row : PerStudent(row) = {row}
  BY DEF AcademicContext, ReportContext, During, Whole, PerStudent

LEMMA ListedOf ==
    ASSUME term # NoTerm, NEW s \in Subjects
    PROVE  SubjectLessons(s) = Targets({s}, term)
  BY DEF SubjectLessons, Targets

\* The lessons of a subject that a list shows as completed are those its summary counts.
LEMMA ListCounts ==
    ASSUME term # NoTerm, NEW s \in Subjects
    PROVE  LET listed == StudentSubjectProgress(s)
           IN  StudentProgressReport({s}, Whole) =
                   {[total |-> Cardinality(DOMAIN listed), completed |-> Cardinality(Trues(listed))]}
<1>1. DOMAIN StudentSubjectProgress(s) = Targets({s}, term)
  BY ListedOf DEF StudentSubjectProgress
<1>2. Trues(StudentSubjectProgress(s)) = Targets({s}, term) \cap done
  BY <1>1, ListedOf DEF StudentSubjectProgress, Trues
<1>. QED
  BY <1>1, <1>2, SameTerm DEF StudentProgressReport, CalculateStudentProgress, Count

\* The whole of the comprehensive report is the sum of its subjects, and so of their lessons.
LEMMA WholeIsTheSum ==
    ASSUME AttemptTypes, active \subseteq Subjects, term # NoTerm, NEW ls
    PROVE  /\ SumFunction([s \in active |-> Cardinality(Targets({s}, term) \cap ls)])
                  = Cardinality(Targets(active, term) \cap ls)
           /\ IsFiniteSet(Targets(Subjects, term) \cap ls)
           /\ Targets(active, term) \cap ls \subseteq Targets(Subjects, term) \cap ls
<1> DEFINE A == [s \in active |-> Targets({s}, term) \cap ls]
           sizes == [s \in active |-> Cardinality(A[s])]
<1>1. IsFiniteSet(active)
  BY ReportsAssumption, FS_Subset
<1>2. \A s \in active : IsFiniteSet(A[s]) /\ A[s] = Targets({s}, term) \cap ls
  <2> SUFFICES ASSUME NEW s \in active PROVE IsFiniteSet(Targets({s}, term) \cap ls)
    OBVIOUS
  <2>1. Targets({s}, term) \cap ls \subseteq Visible
    BY DEF Targets
  <2>. QED
    BY <2>1, VisibleIsFinite, FS_Subset
<1>3. \A s, t \in active : s # t => A[s] \cap A[t] = {}
  BY DEF Targets
<1>4. UNION {A[s] : s \in active} = Targets(active, term) \cap ls
  BY DEF Targets
<1>5. sizes = [s \in active |-> Cardinality(Targets({s}, term) \cap ls)]
  BY <1>2
<1>6. SumFunction(sizes) = Cardinality(UNION {A[s] : s \in active})
  <2> HIDE DEF A
  <2>1. \A s \in active : IsFiniteSet(A[s])
    BY <1>2
  <2>2. SumFunction([s \in active |-> Cardinality(A[s])]) = Cardinality(UNION {A[s] : s \in active})
    BY <1>1, <1>3, <2>1, SumOfSizes
  <2>. QED
    BY <2>2
<1>7. IsFiniteSet(Targets(Subjects, term) \cap ls)
  <2>1. Targets(Subjects, term) \cap ls \subseteq Visible
    BY DEF Targets
  <2>. QED
    BY <2>1, VisibleIsFinite, FS_Subset
<1>8. Targets(active, term) \cap ls \subseteq Targets(Subjects, term) \cap ls
  BY DEF Targets
<1>. QED
  BY <1>4, <1>5, <1>6, <1>7, <1>8

LEMMA ComprehensiveAgrees ==
    ASSUME AttemptTypes, active \subseteq Subjects, term # NoTerm
    PROVE  LET all == StudentComprehensiveDetail(Whole)
           IN  /\ \A s \in active : ComprehensiveReport({s}, Whole) = {all.subjects[s]}
               /\ all.total <= StudentProgressSummary.total
               /\ active = Subjects => all.total = StudentProgressSummary.total
                                       /\ all.completed = StudentProgressSummary.completed
<1> DEFINE all == StudentComprehensiveDetail(Whole)
<1>1. \A s \in active : ComprehensiveReport({s}, Whole) = {all.subjects[s]}
  BY SameTerm DEF StudentComprehensiveDetail, ComprehensiveReport
<1>2. /\ StudentProgressSummary.total = Cardinality(Targets(Subjects, term))
      /\ StudentProgressSummary.completed = Cardinality(Targets(Subjects, term) \cap done)
  BY SameTerm DEF StudentProgressSummary, Count
<1>3. \A s : /\ CalculateStudentProgress({s}, Whole).total = Cardinality(Targets({s}, term))
             /\ CalculateStudentProgress({s}, Whole).completed
                    = Cardinality(Targets({s}, term) \cap done)
  BY SameTerm DEF CalculateStudentProgress, Count
<1>4. /\ all.total = SumFunction([s \in active |-> Cardinality(Targets({s}, term))])
      /\ all.completed = SumFunction([s \in active |-> Cardinality(Targets({s}, term) \cap done)])
  BY <1>3 DEF StudentComprehensiveDetail
<1>5. \A t : t \cap Visible = t => t \cap done \subseteq Visible
  OBVIOUS
<1>6. \A subjects : Targets(subjects, term) \cap Visible = Targets(subjects, term)
  BY DEF Targets
<1>7. /\ all.total = Cardinality(Targets(active, term))
      /\ IsFiniteSet(Targets(Subjects, term))
      /\ Targets(active, term) \subseteq Targets(Subjects, term)
  <2>1. /\ SumFunction([s \in active |-> Cardinality(Targets({s}, term) \cap Visible)])
               = Cardinality(Targets(active, term) \cap Visible)
        /\ IsFiniteSet(Targets(Subjects, term) \cap Visible)
        /\ Targets(active, term) \cap Visible \subseteq Targets(Subjects, term) \cap Visible
    BY WholeIsTheSum
  <2>. QED
    BY <1>4, <1>6, <2>1
<1>8. all.completed = Cardinality(Targets(active, term) \cap done)
  BY <1>4, WholeIsTheSum
<1>9. Cardinality(Targets(active, term)) <= Cardinality(Targets(Subjects, term))
  BY <1>7, FS_Subset
<1> HIDE DEF all
<1>10. all.total <= StudentProgressSummary.total
  BY <1>2, <1>7, <1>9
<1>11. active = Subjects => all.total = StudentProgressSummary.total
                            /\ all.completed = StudentProgressSummary.completed
  BY <1>2, <1>7, <1>8
<1>. QED
  BY <1>1, <1>10, <1>11 DEF all

\* The student is shown what the parents are, and the other terms.
LEMMA StudentIsShownNoLess ==
    ASSUME AttemptTypes, NEW s \in active
    PROVE  /\ ChildSubjects[s].total <= MySubjects[s].total
           /\ ChildSubjects[s].completed <= MySubjects[s].completed
<1> DEFINE some == Targets({s}, AcademicContext)
           more == {l \in Visible : l[1] = s}
<1>1. IsFiniteSet(more) /\ IsFiniteSet(more \cap done)
  BY VisibleIsFinite, FS_Subset
<1>2. some \subseteq more /\ some \cap done \subseteq more \cap done
  BY DEF Targets
<1>3. /\ ChildSubjects[s] = Count(some, done) /\ MySubjects[s] = Count(more, done)
  BY DEF ChildSubjects, MySubjects
<1> HIDE DEF some, more
<1>4. Cardinality(some) <= Cardinality(more) /\ Cardinality(some \cap done) <= Cardinality(more \cap done)
  BY <1>1, <1>2, FS_Subset
<1>. QED
  BY <1>3, <1>4 DEF Count

\* What the manager, the parents and the student are shown of the progress agrees, in all and
\* of each subject (student-progress-summary.service.ts:55-123, parent-children.service.ts:
\* 126-285, reports.service.ts:213-301, 307-432, 634-691 and 1009-1134).
THEOREM ProgressTheorem == ReportsSpec => []ProgressAgrees
<1>1. ASSUME ShownFrom PROVE ProgressAgrees
  <2>1. AttemptTypes /\ active \subseteq Subjects
    BY <1>1 DEF ShownFrom, AInv
  <2>2. ASSUME term # NoTerm
        PROVE  /\ StudentProgressDetail(Whole).summary = StudentProgressSummary
               /\ StudentProgressDetail(Whole).subjects = ChildSubjects
    BY <2>2, SameTerm DEF StudentProgressDetail, CalculateStudentProgress, StudentProgressSummary,
                          ChildSubjects
  <2>3. ASSUME term # NoTerm, NEW s \in active
        PROVE  LET listed == StudentSubjectProgress(s)
               IN  StudentProgressReport({s}, Whole) =
                       {[total |-> Cardinality(DOMAIN listed), completed |-> Cardinality(Trues(listed))]}
    <3>1. s \in Subjects
      BY <2>1
    <3>. QED
      BY <2>3, <3>1, ListCounts
  <2>4. ASSUME term # NoTerm
        PROVE  LET all == StudentComprehensiveDetail(Whole)
               IN  /\ \A s \in active : ComprehensiveReport({s}, Whole) = {all.subjects[s]}
                   /\ all.total <= StudentProgressSummary.total
                   /\ active = Subjects => all.total = StudentProgressSummary.total
                                           /\ all.completed = StudentProgressSummary.completed
    BY <2>1, <2>4, ComprehensiveAgrees
  <2>5. \A s \in active : /\ ChildSubjects[s].total <= MySubjects[s].total
                          /\ ChildSubjects[s].completed <= MySubjects[s].completed
    BY <2>1, StudentIsShownNoLess
  <2>. QED
    BY <2>2, <2>3, <2>4, <2>5 DEF ProgressAgrees
<1>. QED
  BY <1>1, ReportsInv, PTL

\* The last attempt at a lesson, by either time, is one of its attempts.
LEMMA LastAttemptIs ==
    ASSUME AttemptTypes, NEW l, Evaluated(l)
    PROVE  LastAttempt(l) \in ResultsOf(l) /\ attempts[LastAttempt(l)].score \in Scores
<1> DEFINE P == ResultsOf(l)
           time == [n \in P |-> attempts[n].calculatedAt]
<1>1. /\ P # {} /\ P \subseteq 1 .. Len(attempts) /\ Len(attempts) \in Nat
      /\ \A n \in P : attempts[n].calculatedAt \in Nat /\ attempts[n] \in Attempt
  BY AttemptsAre DEF Evaluated, ResultsOf
<1> HIDE DEF P
<1>2. IsFiniteSet(P)
  <2>1. IsFiniteSet(1 .. Len(attempts))
    BY <1>1, FS_Interval
  <2>. QED
    BY <1>1, <2>1, FS_Subset
<1>3. time \in [P -> Nat]
  BY <1>1
<1>4. \E u \in P : \A v \in P : attempts[v].calculatedAt <= attempts[u].calculatedAt
  <2> HIDE DEF time
  <2>1. PICK u \in P : \A v \in P : time[v] <= time[u]
    BY <1>1, <1>2, <1>3, Greatest
  <2>. QED
    BY <2>1 DEF time
<1>5. LastAttempt(l) \in P
  BY <1>4 DEF LastAttempt, P
<1>. QED
  BY <1>1, <1>5 DEF P, Attempt

\* The manager and the parents are shown the results of the same lessons of a subject.
LEMMA SameLessons ==
    ASSUME term # NoTerm, NEW s \in Subjects
    PROVE  LET shown == StudentSubjectGrades(s, Whole)
           IN  /\ DOMAIN shown = Targets({s}, AcademicContext)
               /\ \A l \in DOMAIN shown :
                    /\ shown[l].completed = Evaluated(l)
                    /\ shown[l].score = IF Evaluated(l) THEN attempts[LastAttempt(l)].score ELSE 0
  BY ListedOf, SameTerm DEF StudentSubjectGrades

\* The points of a subject are the same, if no two of its attempts crossed.
LEMMA SamePoints ==
    ASSUME AInv, active \subseteq Subjects, term # NoTerm, NEW s \in active
    PROVE  LET grades == StudentGradesDetail(Whole).subjects[s]
               child == AggregateChildResults
           IN  IF s \in DOMAIN child
               THEN /\ child[s].results = grades.evaluated
                    /\ (\A l \in crossed : l[1] # s) => child[s].points = grades.earned
               ELSE grades.evaluated = 0
<1> DEFINE of(q) == {l \in Targets({q}, term) : Evaluated(l)}
           grades == StudentGradesDetail(Whole).subjects[s]
           child == AggregateChildResults
<1>1. /\ grades.evaluated = Cardinality(of(s))
      /\ grades.earned = Points([l \in of(s) |-> LastAttempt(l)])
  BY SameTerm DEF StudentGradesDetail, CalculateStudentGrades
<1>2. /\ DOMAIN child = {q \in Subjects : of(q) # {}}
      /\ s \in DOMAIN child => /\ child[s].results = Cardinality(of(s))
                               /\ child[s].points = Points([l \in of(s) |-> LastResult(l)])
  BY SameTerm DEF AggregateChildResults
<1>3. s \notin DOMAIN child => grades.evaluated = 0
  BY <1>1, <1>2, FS_EmptySet
<1>4. ASSUME \A l \in crossed : l[1] # s
      PROVE  [l \in of(s) |-> LastResult(l)] = [l \in of(s) |-> LastAttempt(l)]
  <2>1. ASSUME NEW l \in of(s) PROVE LastResult(l) = LastAttempt(l)
    <3>1. l \in Visible /\ l[1] = s /\ Evaluated(l)
      BY DEF Targets
    <3>2. l \in Lessons \ crossed
      BY <1>4, <3>1, VisibleIsFinite DEF AInv
    <3>. QED
      BY <3>1, <3>2, LastOfUncrossed DEF LastIsLast
  <2>. QED
    BY <2>1
<1> HIDE DEF of, grades, child
<1>. QED
  BY <1>1, <1>2, <1>3, <1>4 DEF grades, child

\* What is listed of the lessons of a subject is what the parents are shown of them.
LEMMA SameList ==
    ASSUME AInv, active \subseteq Subjects, term # NoTerm, NEW s \in active
    PROVE  LET shown == StudentSubjectGrades(s, Whole)
           IN  /\ DOMAIN AggregateSubjectResults(s) = {l \in DOMAIN shown : shown[l].completed}
               /\ \A l \in DOMAIN shown : LET listed == ChildSubjectLessons(s)[l] IN
                    /\ listed.completed = shown[l].completed
                    /\ \A score \in listed.best : score >= shown[l].score
               /\ \A l \in DOMAIN AggregateSubjectResults(s) \ crossed :
                    AggregateSubjectResults(s)[l].score = ChildLessonReview(l).score
<1> DEFINE shown == StudentSubjectGrades(s, Whole)
           wanted == Targets({s}, AcademicContext)
<1>1. /\ DOMAIN shown = wanted
      /\ \A l \in wanted : /\ shown[l].completed = Evaluated(l)
                          /\ shown[l].score = IF Evaluated(l) THEN attempts[LastAttempt(l)].score ELSE 0
  BY SameLessons
<1>2. DOMAIN AggregateSubjectResults(s) = {l \in wanted : Evaluated(l)}
  BY DEF AggregateSubjectResults
<1>3. ASSUME NEW l \in wanted
      PROVE  /\ ChildSubjectLessons(s)[l].completed = Evaluated(l)
             /\ \A score \in ChildSubjectLessons(s)[l].best : score >= shown[l].score
  <2>1. /\ ChildSubjectLessons(s)[l].completed = Evaluated(l)
        /\ ChildSubjectLessons(s)[l].best = {attempts[n].score : n \in {m \in ResultsOf(l) :
                  \A k \in ResultsOf(l) : attempts[k].score <= attempts[m].score}}
    BY DEF ChildSubjectLessons
  <2>2. CASE Evaluated(l)
    <3>1. LastAttempt(l) \in ResultsOf(l) /\ shown[l].score = attempts[LastAttempt(l)].score
      BY <1>1, <2>2, LastAttemptIs DEF AInv
    <3>2. \A m \in ResultsOf(l) : attempts[m].score \in Nat
      BY ReportsAssumption, AttemptsAre DEF AInv, ResultsOf, Attempt
    <3> HIDE DEF shown
    <3>3. ASSUME NEW m \in ResultsOf(l), \A k \in ResultsOf(l) : attempts[k].score <= attempts[m].score
          PROVE  attempts[m].score >= shown[l].score
      BY <3>1, <3>2, <3>3
    <3>. QED
      BY <2>1, <3>3
  <2>3. CASE ~Evaluated(l)
    <3>1. ChildSubjectLessons(s)[l].best = {}
      BY <2>1, <2>3 DEF Evaluated
    <3>. QED
      BY <2>1, <3>1
  <2>. QED
    BY <2>2, <2>3
<1>4. ASSUME NEW l \in wanted, Evaluated(l), l \notin crossed
      PROVE  AggregateSubjectResults(s)[l].score = ChildLessonReview(l).score
  <2>1. AggregateSubjectResults(s)[l].score = attempts[LastResult(l)].score
    BY <1>4 DEF AggregateSubjectResults
  <2>2. l \in Lessons \ crossed
    BY <1>4, VisibleIsFinite DEF AInv, Targets
  <2>. QED
    BY <1>4, <2>1, <2>2, LastOfUncrossed DEF LastIsLast, ChildLessonReview
<1> HIDE DEF shown, wanted
<1>. QED
  BY <1>1, <1>2, <1>3, <1>4 DEF shown

\* The points of a report are those of the list it sums up, in each period.
LEMMA ListAddsUp ==
    ASSUME AttemptTypes, active \subseteq Subjects, term # NoTerm, NEW s \in active,
           NEW period \in Periods
    PROVE  LET list == StudentSubjectGrades(s, period)
           IN  StudentGradesReport({s}, period) =
                   {[evaluated |-> Cardinality(Trues(StudentSubjectComprehensive(s, period))),
                     earned |-> SumFunction([l \in DOMAIN list |-> list[l].score])]}
<1> DEFINE ls == During(Targets({s}, term), period)
           evaluated == {l \in ls : Evaluated(l)}
           list == StudentSubjectGrades(s, period)
           points == [l \in ls |-> IF Evaluated(l) THEN attempts[LastAttempt(l)].score ELSE 0]
<1>1. IsFiniteSet(ls)
  <2>1. Targets({s}, term) \in SUBSET Visible
    BY DEF Targets
  <2>. QED
    BY <2>1, VisibleIsFinite
<1>2. StudentGradesReport({s}, period) =
          {[evaluated |-> Cardinality(evaluated),
            earned |-> Points([l \in evaluated |-> LastAttempt(l)])]}
  BY SameTerm DEF StudentGradesReport, CalculateStudentGrades
<1>3. Trues(StudentSubjectComprehensive(s, period)) = evaluated
  BY ListedOf DEF StudentSubjectComprehensive, Trues
<1>4. [l \in DOMAIN list |-> list[l].score] = points
  BY ListedOf DEF StudentSubjectGrades
<1>5. points \in [ls -> Nat] /\ evaluated \in SUBSET ls /\ \A l \in ls \ evaluated : points[l] = 0
  BY ReportsAssumption, LastAttemptIs
<1>6. Points([l \in evaluated |-> LastAttempt(l)]) = SumFunction([l \in evaluated |-> points[l]])
  BY DEF Points
<1>7. SumFunction(points) = SumFunction([l \in evaluated |-> points[l]])
  <2> HIDE DEF points, evaluated, ls
  <2>. QED
    BY <1>1, <1>5, SumWithoutZeros
<1> HIDE DEF points, evaluated, ls
<1>. QED
  BY <1>2, <1>3, <1>4, <1>6, <1>7

\* The results of the manager and of the parents are of the same attempts: of a lesson whose
\* attempts did not cross the last created is the last calculated, so the points of a subject
\* are the same for both, and those of its list (student-results-aggregation.service.ts:150,
\* reports.service.ts:1478-1643).
THEOREM SameAttemptTheorem == ReportsSpec => []SameAttempt
<1>1. ASSUME ShownFrom PROVE SameAttempt
  <2>1. AInv /\ AttemptTypes /\ active \subseteq Subjects
    BY <1>1 DEF ShownFrom, AInv
  <2>2. LastIsLast
    BY <2>1, LastOfUncrossed
  <2>. QED
    BY <2>1, <2>2, SamePoints, SameList, ListAddsUp DEF SameAttempt
<1>. QED
  BY <1>1, ReportsInv, PTL
=============================================================================
