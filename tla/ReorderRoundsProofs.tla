-------------------------- MODULE ReorderRoundsProofs --------------------------
(***************************************************************************)
(* Proofs about ReorderPlan and ReorderRounds, for any item records,       *)
(* policies, purchase orders and bound.                                    *)
(***************************************************************************)
EXTENDS ReorderRounds, FiniteSetTheorems, SequenceTheorems, TLAPS

-----------------------------------------------------------------------------
(* Sums over finite sets.  SumFunctionOnSet takes away one chosen element    *)
(* after the other.                                                         *)

Chosen(s) == CHOOSE x \in s : TRUE

\* What the library computes: the sums of f over all subsets of S.
AreSums(sums, f, S) ==
  sums = [s \in SUBSET S |-> IF s = {} THEN 0
                             ELSE f[Chosen(s)] + sums[s \ {Chosen(s)}]]

LEMMA ChosenIn ==
  ASSUME NEW s, s # {}
  PROVE  Chosen(s) \in s
  BY DEF Chosen

\* Induction on finite sets: of sets of which something is not so, there is one
\* that is smallest.
LEMMA SmallestSet ==
  ASSUME NEW S, IsFiniteSet(S), NEW Bad \in SUBSET (SUBSET S), Bad # {}
  PROVE  \E s \in Bad : \A t \in SUBSET s : t # s => t \notin Bad
<1>1. IsWellFoundedOn(StrictSubsetOrdering(S), FiniteSubsetsOf(S))
  BY FS_StrictSubsetOrderingWellFounded
<1>2. Bad \subseteq FiniteSubsetsOf(S)
  BY FS_Subset DEF FiniteSubsetsOf
<1>3. PICK s \in Bad : \A t \in Bad : ~ (<<t, s>> \in StrictSubsetOrdering(S))
  BY <1>1, <1>2, WFMin
<1>4. ASSUME NEW t \in SUBSET s, t # s, t \in Bad
      PROVE  FALSE
  <2>1. <<t, s>> \in StrictSubsetOrdering(S)
    BY <1>4 DEF StrictSubsetOrdering
  <2> QED BY <1>3, <1>4, <2>1
<1> QED BY <1>4

LEMMA SumsOfSubset ==
  ASSUME NEW f, NEW S, NEW sums, AreSums(sums, f, S), NEW T \in SUBSET S
  PROVE  AreSums([s \in SUBSET T |-> sums[s]], f, T)
<1>1. PICK some : some = [s \in SUBSET T |-> sums[s]]
  OBVIOUS
<1>2. ASSUME NEW s \in SUBSET T
      PROVE  some[s] = IF s = {} THEN 0 ELSE f[Chosen(s)] + some[s \ {Chosen(s)}]
  <2>1. s \in SUBSET S /\ s \ {Chosen(s)} \in SUBSET T
    OBVIOUS
  <2>2. sums[s] = IF s = {} THEN 0 ELSE f[Chosen(s)] + sums[s \ {Chosen(s)}]
    BY <2>1 DEF AreSums
  <2> QED BY <1>1, <2>1, <2>2
<1>3. some = [s \in SUBSET T |-> IF s = {} THEN 0 ELSE f[Chosen(s)] + some[s \ {Chosen(s)}]]
  BY <1>1, <1>2
<1> QED BY <1>1, <1>3 DEF AreSums

LEMMA SumsAreUnique ==
  ASSUME NEW f, NEW S, IsFiniteSet(S), NEW a, AreSums(a, f, S), NEW b, AreSums(b, f, S)
  PROVE  a = b
<1>1. PICK Bad : Bad = {s \in SUBSET S : a[s] # b[s]}
  OBVIOUS
<1>2. Bad = {}
  <2> SUFFICES ASSUME Bad # {} PROVE FALSE
    OBVIOUS
  <2>1. PICK s \in Bad : \A t \in SUBSET s : t # s => t \notin Bad
    BY <1>1, SmallestSet
  <2>2. a[s] = IF s = {} THEN 0 ELSE f[Chosen(s)] + a[s \ {Chosen(s)}]
    BY <1>1, <2>1 DEF AreSums
  <2>3. b[s] = IF s = {} THEN 0 ELSE f[Chosen(s)] + b[s \ {Chosen(s)}]
    BY <1>1, <2>1 DEF AreSums
  <2>4. s # {}
    BY <1>1, <2>1, <2>2, <2>3
  <2>5. a[s \ {Chosen(s)}] = b[s \ {Chosen(s)}]
    BY <1>1, <2>1, <2>4, ChosenIn
  <2> QED BY <1>1, <2>1, <2>2, <2>3, <2>5
<1>3. \A s \in SUBSET S : a[s] = b[s]
  BY <1>1, <1>2
<1>4. a = [s \in SUBSET S |-> a[s]] /\ b = [s \in SUBSET S |-> b[s]]
  BY DEF AreSums
<1> QED BY <1>3, <1>4

\* The sums of a set are put together from those of its proper subsets.
LEMMA SumsExist ==
  ASSUME NEW f, NEW S, IsFiniteSet(S)
  PROVE  \E sums : AreSums(sums, f, S)
<1>1. PICK Bad : Bad = {s \in SUBSET S : ~ \E sums : AreSums(sums, f, s)}
  OBVIOUS
<1> SUFFICES ASSUME Bad # {} PROVE FALSE
  BY <1>1
<1>2. PICK T \in Bad : \A t \in SUBSET T : t # T => t \notin Bad
  <2>1. Bad \in SUBSET (SUBSET S)
    BY <1>1
  <2> QED BY <2>1, SmallestSet
<1>3. T \in SUBSET S /\ IsFiniteSet(T)
  BY <1>1, FS_Subset
<1> DEFINE Of(s) == CHOOSE sums : AreSums(sums, f, s)
           Rest(s) == s \ {Chosen(s)}
<1>4. ASSUME NEW s \in SUBSET T, s # T
      PROVE  AreSums(Of(s), f, s)
  <2>1. \E sums : AreSums(sums, f, s)
    BY <1>1, <1>2, <1>3, <1>4
  <2> QED BY <2>1
<1>5. PICK whole : whole = [s \in SUBSET T |-> IF s = {} THEN 0
                                              ELSE f[Chosen(s)] + Of(Rest(s))[Rest(s)]]
  OBVIOUS
<1>6. ASSUME NEW s \in SUBSET T, s # {}
      PROVE  Rest(s) \in SUBSET T /\ Rest(s) # T
  BY <1>6, ChosenIn
<1>7. ASSUME NEW u \in SUBSET T, u # T
      PROVE  whole[u] = Of(u)[u]
  <2>1. AreSums(Of(u), f, u)
    BY <1>4, <1>7
  <2>2. Of(u)[u] = IF u = {} THEN 0 ELSE f[Chosen(u)] + Of(u)[Rest(u)]
    BY <2>1 DEF AreSums
  <2>3. CASE u = {}
    BY <1>5, <2>2, <2>3
  <2>4. CASE u # {}
    <3>1. Rest(u) \in SUBSET u /\ Rest(u) \in SUBSET T /\ Rest(u) # T
      BY <1>6, <2>4
    <3>2. AreSums([s \in SUBSET Rest(u) |-> Of(u)[s]], f, Rest(u))
      BY <2>1, <3>1, SumsOfSubset
    <3>3. AreSums(Of(Rest(u)), f, Rest(u))
      BY <1>4, <3>1
    <3>4. IsFiniteSet(Rest(u))
      BY <1>3, <3>1, FS_Subset
    <3>5. [s \in SUBSET Rest(u) |-> Of(u)[s]] = Of(Rest(u))
      BY <3>2, <3>3, <3>4, SumsAreUnique
    <3>6. Of(u)[Rest(u)] = Of(Rest(u))[Rest(u)]
      BY <3>5
    <3> QED BY <1>5, <2>2, <2>4, <3>6
  <2> QED BY <2>3, <2>4
<1>8. ASSUME NEW s \in SUBSET T
      PROVE  whole[s] = IF s = {} THEN 0 ELSE f[Chosen(s)] + whole[Rest(s)]
  <2>1. whole[s] = IF s = {} THEN 0 ELSE f[Chosen(s)] + Of(Rest(s))[Rest(s)]
    BY <1>5
  <2>2. s # {} => whole[Rest(s)] = Of(Rest(s))[Rest(s)]
    BY <1>6, <1>7
  <2> QED BY <2>1, <2>2
<1>9. whole = [s \in SUBSET T |-> IF s = {} THEN 0 ELSE f[Chosen(s)] + whole[Rest(s)]]
  BY <1>5, <1>8
<1>10. AreSums(whole, f, T)
  BY <1>9 DEF AreSums
<1> QED BY <1>1, <1>2, <1>10

\* SumFunctionOnSet takes a chosen element of the set and the sum of the rest.
LEMMA SumStep ==
  ASSUME NEW f, NEW S, IsFiniteSet(S)
  PROVE  SumFunctionOnSet(f, S) =
           IF S = {} THEN 0 ELSE f[Chosen(S)] + SumFunctionOnSet(f, S \ {Chosen(S)})
<1>1. ASSUME NEW T, IsFiniteSet(T)
      PROVE  \E sums : AreSums(sums, f, T) /\ SumFunctionOnSet(f, T) = sums[T]
  <2>1. \E sums : AreSums(sums, f, T)
    BY <1>1, SumsExist
  <2>2. SumFunctionOnSet(f, T) =
          (CHOOSE sums : sums = [s \in SUBSET T |->
             IF s = {} THEN 0
             ELSE f[CHOOSE x \in s : TRUE] + sums[s \ {CHOOSE x \in s : TRUE}]])[T]
    BY DEF SumFunctionOnSet, FoldFunctionOnSet, MapThenFoldSet
  <2> QED BY <2>1, <2>2 DEF AreSums, Chosen
<1>2. PICK sums : AreSums(sums, f, S) /\ SumFunctionOnSet(f, S) = sums[S]
  BY <1>1
<1>3. sums[S] = IF S = {} THEN 0 ELSE f[Chosen(S)] + sums[S \ {Chosen(S)}]
  BY <1>2 DEF AreSums
<1>4. PICK R : R = S \ {Chosen(S)}
  OBVIOUS
<1>5. R \in SUBSET S /\ IsFiniteSet(R)
  BY <1>4, FS_Subset
<1>6. PICK rest : AreSums(rest, f, R) /\ SumFunctionOnSet(f, R) = rest[R]
  BY <1>1, <1>5
<1>7. AreSums([s \in SUBSET R |-> sums[s]], f, R)
  BY <1>2, <1>5, SumsOfSubset
<1>8. [s \in SUBSET R |-> sums[s]] = rest
  BY <1>5, <1>6, <1>7, SumsAreUnique
<1>9. sums[R] = rest[R]
  BY <1>8
<1> QED BY <1>2, <1>3, <1>4, <1>6, <1>9

LEMMA SumNothing == \A f : SumFunctionOnSet(f, {}) = 0
BY SumStep, FS_EmptySet

LEMMA SumType ==
  ASSUME NEW f, NEW S, IsFiniteSet(S), \A x \in S : f[x] \in Nat
  PROVE  SumFunctionOnSet(f, S) \in Nat
<1>1. PICK Bad : Bad = {s \in SUBSET S : SumFunctionOnSet(f, s) \notin Nat}
  OBVIOUS
<1> SUFFICES ASSUME Bad # {} PROVE FALSE
  BY <1>1
<1>2. Bad \in SUBSET (SUBSET S)
  BY <1>1
<1>3. PICK s \in Bad : \A t \in SUBSET s : t # s => t \notin Bad
  BY <1>2, SmallestSet
<1>4. s \in SUBSET S /\ IsFiniteSet(s)
  BY <1>2, FS_Subset
<1>5. SumFunctionOnSet(f, s) =
        IF s = {} THEN 0 ELSE f[Chosen(s)] + SumFunctionOnSet(f, s \ {Chosen(s)})
  BY <1>4, SumStep
<1>6. CASE s = {}
  BY <1>1, <1>5, <1>6
<1>7. CASE s # {}
  <2>1. Chosen(s) \in s
    BY <1>7, ChosenIn
  <2>2. SumFunctionOnSet(f, s \ {Chosen(s)}) \in Nat
    BY <1>1, <1>3, <1>4, <2>1
  <2>3. f[Chosen(s)] \in Nat
    BY <1>4, <2>1
  <2>4. SumFunctionOnSet(f, s) \in Nat
    BY <1>5, <1>7, <2>2, <2>3
  <2> QED BY <1>1, <1>3, <2>4
<1> QED BY <1>6, <1>7

\* It does not matter which element is taken.
LEMMA SumRemove ==
  ASSUME NEW f, NEW S, IsFiniteSet(S), \A x \in S : f[x] \in Nat, NEW x \in S
  PROVE  SumFunctionOnSet(f, S) = f[x] + SumFunctionOnSet(f, S \ {x})
<1>1. PICK Bad : Bad = {s \in SUBSET S : \E y \in s :
                          SumFunctionOnSet(f, s) # f[y] + SumFunctionOnSet(f, s \ {y})}
  OBVIOUS
<1> SUFFICES ASSUME Bad # {} PROVE FALSE
  BY <1>1
<1>2. Bad \in SUBSET (SUBSET S)
  BY <1>1
<1>3. PICK s \in Bad : \A t \in SUBSET s : t # s => t \notin Bad
  BY <1>2, SmallestSet
<1>4. s \in SUBSET S /\ IsFiniteSet(s)
  BY <1>2, FS_Subset
<1>5. PICK y \in s : SumFunctionOnSet(f, s) # f[y] + SumFunctionOnSet(f, s \ {y})
  BY <1>1, <1>3
<1>6. PICK z : z = Chosen(s)
  OBVIOUS
<1>7. z \in s /\ SumFunctionOnSet(f, s) = f[z] + SumFunctionOnSet(f, s \ {z})
  BY <1>4, <1>5, <1>6, ChosenIn, SumStep
<1>8. y # z
  BY <1>5, <1>7
<1>9. SumFunctionOnSet(f, s \ {z}) = f[y] + SumFunctionOnSet(f, (s \ {z}) \ {y})
  <2>1. s \ {z} \in SUBSET s /\ s \ {z} # s /\ y \in s \ {z}
    BY <1>5, <1>7, <1>8
  <2> QED BY <1>1, <1>3, <1>4, <2>1
<1>10. SumFunctionOnSet(f, s \ {y}) = f[z] + SumFunctionOnSet(f, (s \ {y}) \ {z})
  <2>1. s \ {y} \in SUBSET s /\ s \ {y} # s /\ z \in s \ {y}
    BY <1>5, <1>7, <1>8
  <2> QED BY <1>1, <1>3, <1>4, <2>1
<1>11. (s \ {z}) \ {y} = (s \ {y}) \ {z}
  OBVIOUS
<1>12. PICK n : n = SumFunctionOnSet(f, (s \ {z}) \ {y})
  OBVIOUS
<1>13. n \in Nat /\ f[y] \in Nat /\ f[z] \in Nat
  <2>1. IsFiniteSet((s \ {z}) \ {y}) /\ (s \ {z}) \ {y} \subseteq S
    BY <1>4, FS_Subset
  <2>2. n \in Nat
    BY <1>12, <2>1, SumType
  <2> QED BY <1>4, <1>7, <2>2
<1>14. SumFunctionOnSet(f, s) = f[y] + SumFunctionOnSet(f, s \ {y})
  <2>1. SumFunctionOnSet(f, s) = f[z] + (f[y] + n)
    BY <1>7, <1>9, <1>12
  <2>2. SumFunctionOnSet(f, s \ {y}) = f[z] + n
    BY <1>10, <1>11, <1>12
  <2> QED BY <1>13, <2>1, <2>2
<1> QED BY <1>5, <1>14

\* The sum depends on the values of f on the set only.
LEMMA SumEqual ==
  ASSUME NEW f, NEW g, NEW S, IsFiniteSet(S), \A x \in S : f[x] = g[x]
  PROVE  SumFunctionOnSet(f, S) = SumFunctionOnSet(g, S)
<1>1. PICK Bad : Bad = {s \in SUBSET S : SumFunctionOnSet(f, s) # SumFunctionOnSet(g, s)}
  OBVIOUS
<1> SUFFICES ASSUME Bad # {} PROVE FALSE
  BY <1>1
<1>2. Bad \in SUBSET (SUBSET S)
  BY <1>1
<1>3. PICK s \in Bad : \A t \in SUBSET s : t # s => t \notin Bad
  BY <1>2, SmallestSet
<1>4. s \in SUBSET S /\ IsFiniteSet(s)
  BY <1>2, FS_Subset
<1>5. /\ SumFunctionOnSet(f, s) =
           IF s = {} THEN 0 ELSE f[Chosen(s)] + SumFunctionOnSet(f, s \ {Chosen(s)})
      /\ SumFunctionOnSet(g, s) =
           IF s = {} THEN 0 ELSE g[Chosen(s)] + SumFunctionOnSet(g, s \ {Chosen(s)})
  BY <1>4, SumStep
<1>6. s # {}
  BY <1>1, <1>3, <1>5
<1>7. Chosen(s) \in s /\ f[Chosen(s)] = g[Chosen(s)]
  BY <1>4, <1>6, ChosenIn
<1>8. SumFunctionOnSet(f, s \ {Chosen(s)}) = SumFunctionOnSet(g, s \ {Chosen(s)})
  BY <1>1, <1>3, <1>4, <1>7
<1> QED BY <1>1, <1>3, <1>5, <1>7, <1>8

\* Less of it sums up to no more.
LEMMA SumSubset ==
  ASSUME NEW f, NEW S, IsFiniteSet(S), \A x \in S : f[x] \in Nat, NEW T \in SUBSET S
  PROVE  SumFunctionOnSet(f, T) <= SumFunctionOnSet(f, S)
<1>1. PICK Bad : Bad = {s \in SUBSET S : T \subseteq s /\
                          ~ (SumFunctionOnSet(f, T) <= SumFunctionOnSet(f, s))}
  OBVIOUS
<1> SUFFICES ASSUME Bad # {} PROVE FALSE
  BY <1>1
<1>2. Bad \in SUBSET (SUBSET S)
  BY <1>1
<1>3. PICK s \in Bad : \A t \in SUBSET s : t # s => t \notin Bad
  BY <1>2, SmallestSet
<1>4. s \in SUBSET S /\ IsFiniteSet(s) /\ T \in SUBSET s
  BY <1>1, <1>3, FS_Subset
<1>5. SumFunctionOnSet(f, s) \in Nat /\ SumFunctionOnSet(f, T) \in Nat
  <2>1. IsFiniteSet(T)
    BY <1>4, FS_Subset
  <2> QED BY <1>4, <2>1, SumType
<1>6. s # T
  BY <1>1, <1>3, <1>5
<1>7. PICK x \in s : x \notin T
  BY <1>4, <1>6
<1>8. /\ s \ {x} \in SUBSET s /\ s \ {x} # s /\ s \ {x} \in SUBSET S
      /\ T \subseteq s \ {x}
  BY <1>4, <1>7
<1>9. SumFunctionOnSet(f, T) <= SumFunctionOnSet(f, s \ {x})
  BY <1>1, <1>3, <1>8
<1>10. SumFunctionOnSet(f, s) = f[x] + SumFunctionOnSet(f, s \ {x})
  BY <1>4, <1>7, SumRemove
<1>11. SumFunctionOnSet(f, s \ {x}) \in Nat /\ f[x] \in Nat
  <2>1. IsFiniteSet(s \ {x})
    BY <1>4, <1>8, FS_Subset
  <2> QED BY <1>4, <1>8, <2>1, SumType
<1>12. SumFunctionOnSet(f, T) <= SumFunctionOnSet(f, s)
  BY <1>5, <1>9, <1>10, <1>11
<1> QED BY <1>1, <1>3, <1>12

\* A sum in two parts.
LEMMA SumSplit ==
  ASSUME NEW f, NEW S, IsFiniteSet(S), \A x \in S : f[x] \in Nat, NEW T \in SUBSET S
  PROVE  SumFunctionOnSet(f, S) = SumFunctionOnSet(f, T) + SumFunctionOnSet(f, S \ T)
<1>1. PICK Bad : Bad = {s \in SUBSET S : T \subseteq s /\
                          SumFunctionOnSet(f, s)
                            # SumFunctionOnSet(f, T) + SumFunctionOnSet(f, s \ T)}
  OBVIOUS
<1> SUFFICES ASSUME Bad # {} PROVE FALSE
  BY <1>1
<1>2. Bad \in SUBSET (SUBSET S)
  BY <1>1
<1>3. PICK s \in Bad : \A t \in SUBSET s : t # s => t \notin Bad
  BY <1>2, SmallestSet
<1>4. s \in SUBSET S /\ IsFiniteSet(s) /\ T \in SUBSET s /\ IsFiniteSet(T)
  BY <1>1, <1>3, FS_Subset
<1>5. PICK a : a = SumFunctionOnSet(f, T)
  OBVIOUS
<1>6. a \in Nat
  BY <1>4, <1>5, SumType
<1>7. s # T
  <2> SUFFICES ASSUME s = T PROVE FALSE
    OBVIOUS
  <2>1. s \ T = {} /\ SumFunctionOnSet(f, s) = a
    BY <1>5
  <2>2. SumFunctionOnSet(f, s \ T) = 0
    BY <2>1, SumNothing
  <2>3. SumFunctionOnSet(f, s) = a + 0
    BY <1>6, <2>1
  <2> QED BY <1>1, <1>3, <1>5, <2>2, <2>3
<1>8. PICK x \in s : x \notin T
  BY <1>4, <1>7
<1>9. PICK u : u = s \ {x}
  OBVIOUS
<1>10. u \in SUBSET s /\ u # s /\ u \in SUBSET S /\ T \subseteq u /\ IsFiniteSet(u)
  BY <1>4, <1>8, <1>9, FS_Subset
<1>11. PICK b : b = SumFunctionOnSet(f, u \ T)
  OBVIOUS
<1>12. SumFunctionOnSet(f, u) = a + b
  BY <1>1, <1>3, <1>5, <1>10, <1>11
<1>13. SumFunctionOnSet(f, s) = f[x] + SumFunctionOnSet(f, u)
  BY <1>4, <1>8, <1>9, SumRemove
<1>14. PICK rest : rest = s \ T
  OBVIOUS
<1>15. /\ rest \in SUBSET S /\ IsFiniteSet(rest) /\ x \in rest /\ rest \ {x} = u \ T
       /\ IsFiniteSet(u \ T) /\ u \ T \in SUBSET S
  BY <1>4, <1>8, <1>9, <1>10, <1>14, FS_Subset
<1>16. SumFunctionOnSet(f, rest) = f[x] + b
  BY <1>11, <1>15, SumRemove
<1>17. b \in Nat /\ f[x] \in Nat
  BY <1>4, <1>8, <1>11, <1>15, SumType
<1>18. SumFunctionOnSet(f, s) = a + SumFunctionOnSet(f, rest)
  BY <1>6, <1>12, <1>13, <1>16, <1>17
<1> QED BY <1>1, <1>3, <1>5, <1>14, <1>18

\* It does not matter by what the summands are named.
LEMMA SumPairs ==
  ASSUME NEW f, NEW g, NEW S, IsFiniteSet(S), IsFiniteSet(S \X {1}),
         \A x \in S : f[<<x, 1>>] = g[x] /\ g[x] \in Nat
  PROVE  SumFunctionOnSet(f, S \X {1}) = SumFunctionOnSet(g, S)
<1>1. PICK Bad : Bad = {s \in SUBSET S :
                          SumFunctionOnSet(f, s \X {1}) # SumFunctionOnSet(g, s)}
  OBVIOUS
<1> SUFFICES ASSUME Bad # {} PROVE FALSE
  BY <1>1
<1>2. Bad \in SUBSET (SUBSET S)
  BY <1>1
<1>3. PICK s \in Bad : \A t \in SUBSET s : t # s => t \notin Bad
  BY <1>2, SmallestSet
<1>4. s \in SUBSET S /\ IsFiniteSet(s)
  BY <1>2, FS_Subset
<1>5. IsFiniteSet(s \X {1}) /\ \A y \in s \X {1} : f[y] \in Nat
  <2>1. s \X {1} \subseteq S \X {1}
    BY <1>4
  <2>2. \A y \in s \X {1} : \E x \in s : y = <<x, 1>>
    OBVIOUS
  <2> QED BY <1>4, <2>1, <2>2, FS_Subset
<1>6. s # {}
  <2> SUFFICES ASSUME s = {} PROVE FALSE
    OBVIOUS
  <2>1. s \X {1} = {}
    OBVIOUS
  <2>2. SumFunctionOnSet(f, s \X {1}) = 0 /\ SumFunctionOnSet(g, s) = 0
    BY <1>4, <1>5, <2>1, SumStep
  <2> QED BY <1>1, <1>3, <2>2
<1>7. PICK x \in s : TRUE
  BY <1>6
<1>8. SumFunctionOnSet(g, s) = g[x] + SumFunctionOnSet(g, s \ {x})
  <2>1. IsFiniteSet(s) /\ \A y \in s : g[y] \in Nat
    BY <1>4
  <2> QED BY <1>7, <2>1, SumRemove
<1>9. SumFunctionOnSet(f, s \X {1})
        = f[<<x, 1>>] + SumFunctionOnSet(f, (s \X {1}) \ {<<x, 1>>})
  <2>1. <<x, 1>> \in s \X {1}
    OBVIOUS
  <2> QED BY <1>5, <2>1, SumRemove
<1>10. (s \X {1}) \ {<<x, 1>>} = (s \ {x}) \X {1}
  OBVIOUS
<1>11. SumFunctionOnSet(f, (s \ {x}) \X {1}) = SumFunctionOnSet(g, s \ {x})
  BY <1>1, <1>3, <1>4
<1>12. f[<<x, 1>>] = g[x]
  BY <1>4
<1> QED BY <1>1, <1>3, <1>8, <1>9, <1>10, <1>11, <1>12

-----------------------------------------------------------------------------
(* The plan *)

LEMMA MaxOfTwo ==
  ASSUME NEW a \in Int, NEW b \in Int
  PROVE  Max({a, b}) = IF a >= b THEN a ELSE b
<1>1. PICK m : m = IF a >= b THEN a ELSE b
  OBVIOUS
<1>2. m \in {a, b} /\ \A y \in {a, b} : m >= y
  BY <1>1
<1>3. \A x \in {a, b} : (\A y \in {a, b} : x >= y) => x = m
  BY <1>1
<1> QED BY <1>1, <1>2, <1>3 DEF Max

LEMMA MinOfTwo ==
  ASSUME NEW a \in Int, NEW b \in Int
  PROVE  Min({a, b}) = IF a <= b THEN a ELSE b
<1>1. PICK m : m = IF a <= b THEN a ELSE b
  OBVIOUS
<1>2. m \in {a, b} /\ \A y \in {a, b} : m <= y
  BY <1>1
<1>3. \A x \in {a, b} : (\A y \in {a, b} : x <= y) => x = m
  BY <1>1
<1> QED BY <1>1, <1>2, <1>3 DEF Min

LEMMA AtLeastZeroIs ==
  ASSUME NEW n \in Int
  PROVE  AtLeastZero(n) = IF n >= 0 THEN n ELSE 0
  BY MaxOfTwo DEF AtLeastZero

\* int() drops less than one.
LEMMA WholeBounds ==
  ASSUME NEW n \in Int
  PROVE  Whole(n) \in Int /\ Whole(n) <= n /\ Whole(n) > n - Unit
<1>1. Unit \in Int /\ Unit > 0
  BY UnitAssumption
<1>2. PICK d \in Int : d = n \div Unit
  BY <1>1
<1>3. d * Unit <= n /\ n < d * Unit + Unit
  BY <1>1, <1>2
<1> QED BY <1>1, <1>2, <1>3 DEF Whole

LEMMA OutstandingType ==
  ASSUME NEW line \in Lines, line.quantity # None
  PROVE  /\ line.quantity - line.quantity_received - line.quantity_cancelled \in Int
         /\ Outstanding(line) \in Nat
<1>1. line.quantity - line.quantity_received - line.quantity_cancelled \in Int
  BY DEF Lines, Amounts
<1> QED BY <1>1, AtLeastZeroIs DEF Outstanding

LEMMA OpenLineAt ==
  ASSUME NEW it, NEW os \in Seq(Orders), NEW l \in OpenLines(it, os)
  PROVE  /\ l[1] \in DOMAIN os /\ os[l[1]].status \notin NotComing
         /\ l[2] \in DOMAIN os[l[1]].line_items /\ l = <<l[1], l[2]>>
         /\ LineAt(os, l).item_id = it.item_id /\ LineAt(os, l) \in Lines
<1>1. PICK k \in Coming(os) : l \in {k} \X LinesFor(it, os[k])
  BY DEF OpenLines
<1>2. l[1] = k /\ l[2] \in LinesFor(it, os[k]) /\ l = <<l[1], l[2]>>
  BY <1>1
<1>3. k \in DOMAIN os /\ os[k].status \notin NotComing /\ os[k].line_items \in Seq(Lines)
  <2>1. k \in DOMAIN os /\ os[k].status \notin NotComing
    BY <1>1 DEF Coming
  <2>2. os[k] \in Orders
    BY <2>1
  <2> QED BY <2>1, <2>2 DEF Orders
<1> QED BY <1>2, <1>3 DEF LinesFor, LineAt

LEMMA OpenLineIs ==
  ASSUME NEW it, NEW os \in Seq(Orders), NEW k \in DOMAIN os,
         os[k].status \notin NotComing,
         NEW i \in DOMAIN os[k].line_items, os[k].line_items[i].item_id = it.item_id
  PROVE  <<k, i>> \in OpenLines(it, os)
<1>1. k \in Coming(os) /\ i \in LinesFor(it, os[k])
  BY DEF Coming, LinesFor
<1>2. <<k, i>> \in {k} \X LinesFor(it, os[k])
  BY <1>1
<1> QED BY <1>1, <1>2 DEF OpenLines

LEMMA OpenLinesFinite ==
  ASSUME NEW it, NEW os \in Seq(Orders)
  PROVE  IsFiniteSet(OpenLines(it, os))
<1>1. IsFiniteSet(Coming(os))
  <2>1. IsFiniteSet(1 .. Len(os))
    BY FS_Interval
  <2> QED BY <2>1, FS_Subset DEF Coming
<1>2. ASSUME NEW k \in Coming(os)
      PROVE  IsFiniteSet({k} \X LinesFor(it, os[k]))
  <2>1. os[k].line_items \in Seq(Lines)
    <3>1. os[k] \in Orders
      BY <1>2 DEF Coming
    <3> QED BY <3>1 DEF Orders
  <2>2. IsFiniteSet(1 .. Len(os[k].line_items))
    BY <2>1, FS_Interval
  <2>3. LinesFor(it, os[k]) \subseteq 1 .. Len(os[k].line_items)
    BY <2>1 DEF LinesFor
  <2>4. IsFiniteSet(LinesFor(it, os[k]))
    BY <2>2, <2>3, FS_Subset
  <2> QED BY <2>4, FS_Singleton, FS_Product
<1>3. PICK F : F = [k \in Coming(os) |-> {k} \X LinesFor(it, os[k])]
  OBVIOUS
<1>4. PICK parts : parts = {F[k] : k \in Coming(os)}
  OBVIOUS
<1>5. F \in Surjection(Coming(os), parts)
  BY <1>3, <1>4 DEF Surjection
<1>6. IsFiniteSet(parts)
  BY <1>1, <1>5, FS_Surjection
<1>7. \A T \in parts : IsFiniteSet(T)
  BY <1>2, <1>3, <1>4
<1>8. OpenLines(it, os) = UNION parts
  BY <1>3, <1>4 DEF OpenLines
<1> QED BY <1>6, <1>7, <1>8, FS_UNION

\* What is inbound, when it can be read, is a sum of natural numbers.
LEMMA SumOutstandingIs ==
  ASSUME NEW it, NEW os \in Seq(Orders), Readable(it, os)
  PROVE  \E f : /\ f = [l \in OpenLines(it, os) |-> Outstanding(LineAt(os, l))]
                /\ \A l \in OpenLines(it, os) : f[l] \in Nat
                /\ IncomingQuantity(it, os) = SumFunctionOnSet(f, OpenLines(it, os))
                /\ IncomingQuantity(it, os) \in Nat
<1>1. PICK f : f = [l \in OpenLines(it, os) |-> Outstanding(LineAt(os, l))]
  OBVIOUS
<1>2. \A l \in OpenLines(it, os) : f[l] \in Nat
  BY <1>1, OpenLineAt, OutstandingType DEF Readable
<1>3. IncomingQuantity(it, os) = SumFunctionOnSet(f, OpenLines(it, os))
  BY <1>1 DEF IncomingQuantity, SumOutstanding, SumFunction
<1>4. SumFunctionOnSet(f, OpenLines(it, os)) \in Nat
  BY <1>2, OpenLinesFinite, SumType
<1> QED BY <1>1, <1>2, <1>3, <1>4

\* A plan that orders something was made of known quantities only, and makes up
\* for the shortfall; for more only if the minimum is more.
LEMMA NeededPlan ==
  ASSUME NEW it \in ItemRecords, NEW entry \in Entries \cup {None},
         NEW os \in Seq(Orders) \cup {None}, NEW p, p = Plan(it, entry, os),
         p.reorder_needed
  PROVE  /\ os \in Seq(Orders) /\ Readable(it, os)
         /\ AvailableStock(it) \in Int /\ IncomingQuantity(it, os) \in Nat
         /\ entry # None /\ entry.target_stock \in Int
         /\ p.quantity \in Int /\ p.quantity > 0
         /\ AvailableStock(it) + IncomingQuantity(it, os) < entry.target_stock
         /\ ~ Given(it.maximum_order_quantity) =>
              AvailableStock(it) + IncomingQuantity(it, os) + p.quantity
                > entry.target_stock - Unit
         /\ \/ AvailableStock(it) + IncomingQuantity(it, os) + p.quantity
                 <= entry.target_stock
            \/ p.quantity <= MinimumQuantity(it, entry)
<1>1. PICK available : available = AvailableStock(it)
  OBVIOUS
<1>2. PICK incoming : incoming = IncomingQuantity(it, os)
  OBVIOUS
<1>3. ~ Unresolved.reorder_needed
  BY DEF Unresolved
<1>4. /\ available # None /\ it.reorder_level # None
      /\ entry # None /\ entry.target_stock # None /\ incoming # None
  BY <1>1, <1>2, <1>3 DEF Plan
<1>5. Readable(it, os) /\ os \in Seq(Orders)
  BY <1>2, <1>4 DEF IncomingQuantity, Readable
<1>6. incoming \in Nat
  BY <1>2, <1>5, SumOutstandingIs
<1>7. available \in Int /\ it.reorder_level \in Int
  BY <1>1, <1>4 DEF AvailableStock, ItemRecords, Amounts
<1>8. entry.target_stock \in Int /\ entry.min_order_quantity \in Int \cup {None}
  BY <1>4 DEF Entries, Amounts
<1>9. PICK minimum \in Int : minimum = MinimumQuantity(it, entry)
  <2>1. MinimumQuantity(it, entry) \in Int
    BY <1>8, UnitAssumption DEF MinimumQuantity, Given, ItemRecords, Amounts
  <2> QED BY <2>1
<1>10. PICK gap \in Int : gap = entry.target_stock - (available + incoming)
  BY <1>6, <1>7, <1>8
<1>11. PICK shortfall : shortfall = AtLeastZero(gap)
  OBVIOUS
<1>12. shortfall \in Nat /\ shortfall = IF gap >= 0 THEN gap ELSE 0
  BY <1>10, <1>11, AtLeastZeroIs
<1>13. PICK wanted : wanted = Wanted(available < it.reorder_level, shortfall, minimum)
  OBVIOUS
<1>14. p = [resolved |-> TRUE,
            reorder_needed |-> available < it.reorder_level /\ Whole(Capped(it, wanted)) > 0,
            quantity |-> Whole(Capped(it, wanted))]
  BY <1>1, <1>2, <1>4, <1>9, <1>10, <1>11, <1>13 DEF Plan
<1>15. /\ available < it.reorder_level
       /\ p.quantity > 0 /\ p.quantity = Whole(Capped(it, wanted))
  <2>1. PICK needed : needed = (available < it.reorder_level /\ Whole(Capped(it, wanted)) > 0)
    OBVIOUS
  <2>2. p = [resolved |-> TRUE, reorder_needed |-> needed, quantity |-> Whole(Capped(it, wanted))]
    BY <1>14, <2>1, Zenon
  <2>3. p.reorder_needed = needed /\ p.quantity = Whole(Capped(it, wanted))
    BY <2>2
  <2>4. needed
    BY <2>3, Zenon
  <2>5. available < it.reorder_level /\ Whole(Capped(it, wanted)) > 0
    BY <2>1, <2>4, Zenon
  <2> QED BY <2>3, <2>5
<1>16. CASE shortfall <= 0
  <2>1. wanted = 0
    BY <1>13, <1>16 DEF Wanted
  <2>2. Capped(it, wanted) \in Int /\ Capped(it, wanted) <= 0
    <3>1. CASE Given(it.maximum_order_quantity) /\ it.maximum_order_quantity > 0
      <4>1. it.maximum_order_quantity \in Int
        BY <3>1 DEF ItemRecords, Amounts, Given
      <4>2. Capped(it, wanted) = Min({0, it.maximum_order_quantity})
        BY <2>1, <3>1 DEF Capped
      <4> QED BY <3>1, <4>1, <4>2, MinOfTwo
    <3>2. CASE ~ (Given(it.maximum_order_quantity) /\ it.maximum_order_quantity > 0)
      BY <2>1, <3>2 DEF Capped
    <3> QED BY <3>1, <3>2
  <2>3. FALSE
    BY <1>15, <2>2, WholeBounds
  <2> QED BY <2>3
<1>17. CASE ~ (shortfall <= 0)
  <2>1. shortfall = gap /\ gap > 0
    BY <1>10, <1>12, <1>17
  <2>2. wanted = Max({shortfall, minimum})
    BY <1>13, <1>15, <1>17 DEF Wanted
  <2>3. wanted \in Int /\ wanted >= gap /\ (wanted = gap \/ wanted = minimum)
    BY <1>12, <2>1, <2>2, MaxOfTwo
  <2>4. available + incoming < entry.target_stock
    BY <1>6, <1>7, <1>8, <1>10, <2>1
  <2>5. Capped(it, wanted) \in Int /\ Capped(it, wanted) <= wanted
    <3>1. CASE Given(it.maximum_order_quantity) /\ it.maximum_order_quantity > 0
      <4>1. it.maximum_order_quantity \in Int
        BY <3>1 DEF ItemRecords, Amounts, Given
      <4> QED BY <2>3, <3>1, <4>1, MinOfTwo DEF Capped
    <3>2. CASE ~ (Given(it.maximum_order_quantity) /\ it.maximum_order_quantity > 0)
      BY <2>3, <3>2 DEF Capped
    <3> QED BY <3>1, <3>2
  <2>6. p.quantity \in Int
    BY <1>15, <2>5, WholeBounds
  <2>7. ASSUME ~ Given(it.maximum_order_quantity)
        PROVE  available + incoming + p.quantity > entry.target_stock - Unit
    <3>1. Capped(it, wanted) = wanted
      BY <2>7 DEF Capped
    <3>2. p.quantity > wanted - Unit
      BY <1>15, <2>3, <3>1, WholeBounds
    <3> QED BY <1>6, <1>7, <1>8, <1>10, <2>3, <2>6, <3>2, UnitAssumption
  <2>8. available + incoming + p.quantity <= entry.target_stock \/ p.quantity <= minimum
    <3>1. p.quantity <= wanted
      BY <1>15, <2>3, <2>5, <2>6, WholeBounds
    <3> QED BY <1>6, <1>7, <1>8, <1>10, <2>3, <2>6, <3>1
  <2> QED BY <1>1, <1>2, <1>4, <1>5, <1>6, <1>7, <1>8, <1>9, <1>15, <2>4, <2>6, <2>7, <2>8
<1> QED BY <1>16, <1>17, <1>12

\* There is no quantity without a need.
LEMMA QuantityIsNeeded ==
  ASSUME NEW it \in ItemRecords, NEW entry, NEW os, NEW p, p = Plan(it, entry, os),
         p.quantity > 0
  PROVE  p.reorder_needed
<1>1. PICK below : below = (AvailableStock(it) < it.reorder_level)
  OBVIOUS
<1>2. PICK wanted : wanted = Wanted(below, AtLeastZero(entry.target_stock
                         - (AvailableStock(it) + IncomingQuantity(it, os))),
                       MinimumQuantity(it, entry))
  OBVIOUS
<1>3. PICK quantity : quantity = Whole(Capped(it, wanted))
  OBVIOUS
<1>4. PICK needed : needed = (below /\ quantity > 0)
  OBVIOUS
<1>5. \/ p = Unresolved
      \/ p = [resolved |-> TRUE, reorder_needed |-> needed, quantity |-> quantity]
  BY <1>1, <1>2, <1>3, <1>4, Zenon DEF Plan
<1>6. p.quantity = quantity /\ p.reorder_needed = needed /\ quantity > 0
  BY <1>5 DEF Unresolved
<1>7. below
  <2> SUFFICES ASSUME ~ below PROVE FALSE
    OBVIOUS
  <2>1. wanted = 0
    BY <1>2 DEF Wanted
  <2>2. Capped(it, wanted) \in Int /\ Capped(it, wanted) <= 0
    <3>1. CASE Given(it.maximum_order_quantity) /\ it.maximum_order_quantity > 0
      <4>1. it.maximum_order_quantity \in Int
        BY <3>1 DEF ItemRecords, Amounts, Given
      <4> QED BY <2>1, <3>1, <4>1, MinOfTwo DEF Capped
    <3>2. CASE ~ (Given(it.maximum_order_quantity) /\ it.maximum_order_quantity > 0)
      BY <2>1, <3>2 DEF Capped
    <3> QED BY <3>1, <3>2
  <2>3. PICK n \in Int : n = Capped(it, wanted)
    BY <2>2
  <2>4. n <= 0 /\ quantity = Whole(n)
    BY <1>3, <2>2, <2>3
  <2>5. quantity \in Int /\ quantity <= n
    BY <2>4, WholeBounds
  <2> QED BY <1>6, <2>4, <2>5
<1> QED BY <1>4, <1>6, <1>7

\* Where amounts are whole and the supplier has no minimum, what is ordered fits
\* under the target.
LEMMA PlanFits ==
  ASSUME Unit = 1,
         NEW it \in ItemRecords, NEW entry \in Entries \cup {None},
         NEW os \in Seq(Orders) \cup {None}, NEW p, p = Plan(it, entry, os),
         MinimumQuantity(it, entry) \in Int, MinimumQuantity(it, entry) <= 1,
         p.reorder_needed \/ p.quantity > 0
  PROVE  /\ p.quantity \in Nat \ {0}
         /\ AvailableStock(it) \in Int /\ IncomingQuantity(it, os) \in Nat
         /\ AvailableStock(it) + IncomingQuantity(it, os) + p.quantity
              <= entry.target_stock
<1>1. p.reorder_needed
  BY QuantityIsNeeded
<1>2. PICK available : available = AvailableStock(it)
  OBVIOUS
<1>3. PICK incoming : incoming = IncomingQuantity(it, os)
  OBVIOUS
<1>4. /\ available \in Int /\ incoming \in Nat /\ entry.target_stock \in Int
      /\ p.quantity \in Int /\ p.quantity > 0
      /\ available + incoming < entry.target_stock
      /\ \/ available + incoming + p.quantity <= entry.target_stock
         \/ p.quantity <= MinimumQuantity(it, entry)
  BY <1>1, <1>2, <1>3, NeededPlan
<1>5. PICK q, minimum, target : /\ q = p.quantity /\ target = entry.target_stock
                                /\ minimum = MinimumQuantity(it, entry)
  OBVIOUS
<1>6. /\ available \in Int /\ incoming \in Nat /\ target \in Int /\ q \in Int /\ q > 0
      /\ available + incoming < target
      /\ available + incoming + q <= target \/ q <= minimum
      /\ minimum \in Int /\ minimum <= 1
  BY <1>4, <1>5
<1>7. q \in Nat \ {0} /\ available + incoming + q <= target
  BY <1>6
<1> QED BY <1>2, <1>3, <1>5, <1>6, <1>7

-----------------------------------------------------------------------------
(* Placing an order and receiving goods *)

\* What is inbound depends on which item it is, not on the item's stock.
LEMMA SameItem ==
  ASSUME NEW it, NEW other, other.item_id = it.item_id, NEW os
  PROVE  /\ OpenLines(other, os) = OpenLines(it, os)
         /\ Readable(other, os) <=> Readable(it, os)
         /\ IncomingQuantity(other, os) = IncomingQuantity(it, os)
<1>1. \A order : LinesFor(other, order) = LinesFor(it, order)
  BY DEF LinesFor
<1>2. OpenLines(other, os) = OpenLines(it, os)
  BY <1>1 DEF OpenLines
<1> QED BY <1>2 DEF Readable, IncomingQuantity

\* An order that changes its status, and does not come back, brings no more.
LEMMA StatusChange ==
  ASSUME NEW it, NEW os \in Seq(Orders), Readable(it, os), NEW new \in Seq(Orders),
         DOMAIN new = DOMAIN os,
         \A k \in DOMAIN os :
           /\ new[k].line_items = os[k].line_items
           /\ new[k].status \notin NotComing => os[k].status \notin NotComing
  PROVE  /\ Readable(it, new)
         /\ IncomingQuantity(it, new) <= IncomingQuantity(it, os)
<1>1. ASSUME NEW l \in OpenLines(it, new)
      PROVE  l \in OpenLines(it, os) /\ LineAt(new, l) = LineAt(os, l)
  <2>1. /\ l[1] \in DOMAIN os /\ os[l[1]].status \notin NotComing
        /\ l[2] \in DOMAIN os[l[1]].line_items /\ l = <<l[1], l[2]>>
        /\ LineAt(new, l) = LineAt(os, l) /\ LineAt(new, l).item_id = it.item_id
    BY OpenLineAt DEF LineAt
  <2>2. <<l[1], l[2]>> \in OpenLines(it, os)
    BY <2>1, OpenLineIs DEF LineAt
  <2> QED BY <2>1, <2>2
<1>2. Readable(it, new)
  <2>1. new # None
    BY RecordsAssumption
  <2> QED BY <1>1, <2>1 DEF Readable
<1>3. PICK f : /\ f = [l \in OpenLines(it, os) |-> Outstanding(LineAt(os, l))]
               /\ \A l \in OpenLines(it, os) : f[l] \in Nat
               /\ IncomingQuantity(it, os) = SumFunctionOnSet(f, OpenLines(it, os))
  BY SumOutstandingIs
<1>4. PICK g : /\ g = [l \in OpenLines(it, new) |-> Outstanding(LineAt(new, l))]
               /\ IncomingQuantity(it, new) = SumFunctionOnSet(g, OpenLines(it, new))
  BY <1>2, SumOutstandingIs
<1>5. IsFiniteSet(OpenLines(it, os)) /\ IsFiniteSet(OpenLines(it, new))
  BY OpenLinesFinite
<1>6. \A l \in OpenLines(it, new) : g[l] = f[l]
  BY <1>1, <1>3, <1>4
<1>7. SumFunctionOnSet(g, OpenLines(it, new)) = SumFunctionOnSet(f, OpenLines(it, new))
  BY <1>5, <1>6, SumEqual
<1>8. OpenLines(it, new) \in SUBSET OpenLines(it, os)
  BY <1>1
<1>9. SumFunctionOnSet(f, OpenLines(it, new)) <= SumFunctionOnSet(f, OpenLines(it, os))
  BY <1>3, <1>5, <1>8, SumSubset
<1> QED BY <1>2, <1>3, <1>4, <1>7, <1>9

\* Where every order is of one line, and of this item, what is inbound is a sum
\* over the orders.
LEMMA OneLineEach ==
  ASSUME NEW it, NEW os \in Seq(Orders), Readable(it, os), NEW g,
         \A k \in Coming(os) : /\ DOMAIN os[k].line_items = {1}
                               /\ os[k].line_items[1].item_id = it.item_id
                               /\ g[k] = Outstanding(os[k].line_items[1])
  PROVE  IncomingQuantity(it, os) = SumFunctionOnSet(g, Coming(os))
<1>1. OpenLines(it, os) = Coming(os) \X {1}
  <2>1. \A k \in Coming(os) : LinesFor(it, os[k]) = {1}
    BY DEF LinesFor
  <2>2. \A k \in Coming(os) : {k} \X LinesFor(it, os[k]) = {<<k, 1>>}
    BY <2>1
  <2> QED BY <2>2 DEF OpenLines
<1>2. PICK f : /\ f = [l \in OpenLines(it, os) |-> Outstanding(LineAt(os, l))]
               /\ \A l \in OpenLines(it, os) : f[l] \in Nat
               /\ IncomingQuantity(it, os) = SumFunctionOnSet(f, OpenLines(it, os))
  BY SumOutstandingIs
<1>3. \A k \in Coming(os) : f[<<k, 1>>] = g[k] /\ g[k] \in Nat
  <2>1. ASSUME NEW k \in Coming(os)
        PROVE  f[<<k, 1>>] = g[k] /\ g[k] \in Nat
    <3>1. PICK l : l = <<k, 1>>
      OBVIOUS
    <3>2. l \in OpenLines(it, os) /\ LineAt(os, l) = os[k].line_items[1]
      BY <1>1, <3>1 DEF LineAt
    <3> QED BY <1>2, <3>1, <3>2
  <2> QED BY <2>1
<1>4. IsFiniteSet(Coming(os))
  <2>1. IsFiniteSet(1 .. Len(os))
    BY FS_Interval
  <2> QED BY <2>1, FS_Subset DEF Coming
<1>5. IsFiniteSet(Coming(os) \X {1})
  BY <1>1, OpenLinesFinite
<1>6. SumFunctionOnSet(f, Coming(os) \X {1}) = SumFunctionOnSet(g, Coming(os))
  BY <1>3, <1>4, <1>5, SumPairs
<1> QED BY <1>1, <1>2, <1>6

\* What is not given is told apart from every number and every list of orders.
LEMMA NoneIsNoNumber == \A n \in Int : n # None
BY RecordsAssumption

LEMMA KnownStatuses ==
  /\ "draft" \in Statuses /\ "" \in Statuses
  /\ Statuses = Statuses \cup {"draft", ""}
BY RecordsAssumption

\* The order that is placed, for an item and a quantity.
Placed(it, quantity) ==
  [status |-> "draft",
   line_items |-> <<[item_id |-> it.item_id, quantity |-> quantity,
                     quantity_received |-> 0, quantity_cancelled |-> 0]>>]

LEMMA PlacedType ==
  ASSUME NEW it \in ItemRecords, NEW q \in Nat
  PROVE  /\ Placed(it, q) \in Orders /\ DOMAIN Placed(it, q).line_items = {1}
         /\ Placed(it, q).line_items[1].item_id = it.item_id
         /\ Placed(it, q).line_items[1].quantity = q
         /\ Outstanding(Placed(it, q).line_items[1]) = q
         /\ Placed(it, q).status \notin NotComing
<1>1. PICK line : line = [item_id |-> it.item_id, quantity |-> q,
                          quantity_received |-> 0, quantity_cancelled |-> 0]
  OBVIOUS
<1>2. line \in Lines
  BY <1>1 DEF Lines, Amounts, ItemRecords
<1>3. Placed(it, q) = [status |-> "draft", line_items |-> <<line>>]
  BY <1>1 DEF Placed
<1>4. <<line>> \in Seq(Lines) /\ DOMAIN <<line>> = {1} /\ <<line>>[1] = line
  BY <1>2
<1>5. Placed(it, q) \in Orders
  <2>1. PICK lines, status : lines = <<line>> /\ status = "draft"
    OBVIOUS
  <2>2. lines \in Seq(Lines) /\ status \in Statuses
    BY <1>4, <2>1, KnownStatuses
  <2>3. [status |-> status, line_items |-> lines] \in Orders
    BY <2>2 DEF Orders
  <2> QED BY <1>3, <2>1, <2>3
<1>6. Outstanding(line) = q
  <2>1. line.quantity - line.quantity_received - line.quantity_cancelled = q
    BY <1>1
  <2> QED BY <2>1, AtLeastZeroIs DEF Outstanding
<1>7. Placed(it, q).status \notin NotComing
  BY <1>3 DEF NotComing
<1> QED BY <1>1, <1>3, <1>4, <1>5, <1>6, <1>7

\* An order that is placed is inbound at once, with its whole quantity.
LEMMA OneOrderMore ==
  ASSUME NEW it \in ItemRecords, NEW os \in Seq(Orders), Readable(it, os), NEW q \in Nat,
         NEW new \in Seq(Orders), Len(new) = Len(os) + 1,
         new[Len(new)] = Placed(it, q), \A k \in DOMAIN os : new[k] = os[k]
  PROVE  /\ Readable(it, new)
         /\ IncomingQuantity(it, new) = IncomingQuantity(it, os) + q
<1>1. PICK order : order = Placed(it, q)
  OBVIOUS
<1>2. PICK last : last = Len(new)
  OBVIOUS
<1>3. /\ new \in Seq(Orders) /\ last = Len(os) + 1 /\ new[last] = order
      /\ DOMAIN new = DOMAIN os \cup {last} /\ last \notin DOMAIN os
      /\ \A k \in DOMAIN os : new[k] = os[k]
  <2>1. new[last] = order
    BY <1>1, <1>2
  <2>2. DOMAIN new = 1 .. Len(new) /\ DOMAIN os = 1 .. Len(os) /\ Len(os) \in Nat
    OBVIOUS
  <2> QED BY <1>2, <2>1, <2>2
<1>4. PICK l : l = <<last, 1>>
  OBVIOUS
<1>5. /\ l \in OpenLines(it, new) /\ LineAt(new, l).quantity = q
      /\ Outstanding(LineAt(new, l)) = q
  <2>1. LineAt(new, l) = order.line_items[1]
    BY <1>3, <1>4 DEF LineAt
  <2>2. /\ order.status \notin NotComing /\ 1 \in DOMAIN order.line_items
        /\ order.line_items[1].item_id = it.item_id
    BY <1>1, PlacedType
  <2>3. l \in OpenLines(it, new)
    BY <1>3, <1>4, <2>2, OpenLineIs
  <2>4. order.line_items[1].quantity = q /\ Outstanding(order.line_items[1]) = q
    BY <1>1, PlacedType
  <2> QED BY <2>1, <2>3, <2>4
<1>6. ASSUME NEW m \in OpenLines(it, os)
      PROVE  m \in OpenLines(it, new) \ {l} /\ LineAt(new, m) = LineAt(os, m)
  <2>1. /\ m[1] \in DOMAIN os /\ os[m[1]].status \notin NotComing
        /\ m[2] \in DOMAIN os[m[1]].line_items /\ m = <<m[1], m[2]>>
        /\ LineAt(os, m).item_id = it.item_id
    BY OpenLineAt
  <2>2. m[1] \in DOMAIN new /\ new[m[1]] = os[m[1]]
    BY <1>3, <2>1
  <2>3. new[m[1]].line_items[m[2]].item_id = it.item_id
    BY <2>1, <2>2 DEF LineAt
  <2>4. <<m[1], m[2]>> \in OpenLines(it, new)
    BY <1>3, <2>1, <2>2, <2>3, OpenLineIs
  <2>5. m # l
    BY <1>3, <1>4, <2>1
  <2> QED BY <2>1, <2>2, <2>4, <2>5 DEF LineAt
<1>7. ASSUME NEW m \in OpenLines(it, new), m # l
      PROVE  m \in OpenLines(it, os)
  <2>1. /\ m[1] \in DOMAIN new /\ new[m[1]].status \notin NotComing
        /\ m[2] \in DOMAIN new[m[1]].line_items /\ m = <<m[1], m[2]>>
        /\ LineAt(new, m).item_id = it.item_id
    <3>1. new \in Seq(Orders)
      BY <1>3
    <3> QED BY <3>1, OpenLineAt
  <2>2. m[1] # last
    <3>1. SUFFICES ASSUME m[1] = last PROVE FALSE
      OBVIOUS
    <3>2. m[2] = 1
      BY <1>1, <1>3, <2>1, <3>1, PlacedType
    <3> QED BY <1>4, <1>7, <2>1, <3>1, <3>2
  <2>3. m[1] \in DOMAIN os /\ new[m[1]] = os[m[1]]
    BY <1>3, <2>1, <2>2
  <2>4. os[m[1]].line_items[m[2]].item_id = it.item_id
    BY <2>1, <2>3 DEF LineAt
  <2>5. <<m[1], m[2]>> \in OpenLines(it, os)
    BY <2>1, <2>3, <2>4, OpenLineIs
  <2> QED BY <2>1, <2>5
<1>8. OpenLines(it, new) \ {l} = OpenLines(it, os)
  BY <1>6, <1>7
<1>9. Readable(it, new)
  <2>1. new # None
    BY <1>3, RecordsAssumption
  <2>2. q # None
    BY NoneIsNoNumber
  <2>3. ASSUME NEW m \in OpenLines(it, new)
        PROVE  LineAt(new, m).quantity # None
    <3>1. CASE m = l
      BY <1>5, <2>2, <3>1
    <3>2. CASE m # l
      <4>1. m \in OpenLines(it, os)
        BY <1>7, <3>2
      <4> QED BY <1>6, <4>1 DEF Readable
    <3> QED BY <3>1, <3>2
  <2> QED BY <2>1, <2>3 DEF Readable
<1>10. PICK f : /\ f = [m \in OpenLines(it, new) |-> Outstanding(LineAt(new, m))]
                /\ \A m \in OpenLines(it, new) : f[m] \in Nat
                /\ IncomingQuantity(it, new) = SumFunctionOnSet(f, OpenLines(it, new))
  BY <1>3, <1>9, SumOutstandingIs
<1>11. PICK g : /\ g = [m \in OpenLines(it, os) |-> Outstanding(LineAt(os, m))]
                /\ IncomingQuantity(it, os) = SumFunctionOnSet(g, OpenLines(it, os))
                /\ IncomingQuantity(it, os) \in Nat
  BY SumOutstandingIs
<1>12. SumFunctionOnSet(f, OpenLines(it, new))
         = f[l] + SumFunctionOnSet(f, OpenLines(it, new) \ {l})
  <2>1. IsFiniteSet(OpenLines(it, new))
    BY <1>3, OpenLinesFinite
  <2> QED BY <1>5, <1>10, <2>1, SumRemove
<1>13. SumFunctionOnSet(f, OpenLines(it, os)) = SumFunctionOnSet(g, OpenLines(it, os))
  <2>1. \A m \in OpenLines(it, os) : f[m] = g[m]
    BY <1>6, <1>10, <1>11
  <2> QED BY <2>1, OpenLinesFinite, SumEqual
<1>14. f[l] = q
  BY <1>5, <1>10
<1>15. IncomingQuantity(it, new) = q + IncomingQuantity(it, os)
  BY <1>8, <1>10, <1>11, <1>12, <1>13, <1>14
<1>16. IncomingQuantity(it, new) = IncomingQuantity(it, os) + q
  BY <1>11, <1>15
<1> QED BY <1>3, <1>9, <1>16

LEMMA PlacingAdds ==
  ASSUME NEW it \in ItemRecords, NEW os \in Seq(Orders), Readable(it, os),
         NEW q \in Nat, NEW new, new = Append(os, Placed(it, q))
  PROVE  /\ new \in Seq(Orders) /\ Readable(it, new)
         /\ IncomingQuantity(it, new) = IncomingQuantity(it, os) + q
<1>1. PICK order : order = Placed(it, q)
  OBVIOUS
<1>2. order \in Orders
  BY <1>1, PlacedType
<1>3. new = Append(os, order)
  BY <1>1
<1>4. new \in Seq(Orders) /\ Len(new) = Len(os) + 1 /\ new[Len(new)] = order
  BY <1>2, <1>3
<1>5. \A k \in DOMAIN os : new[k] = os[k]
  BY <1>2, <1>3
<1>6. new[Len(new)] = Placed(it, q)
  BY <1>1, <1>4
<1>7. /\ Readable(it, new)
      /\ IncomingQuantity(it, new) = IncomingQuantity(it, os) + q
  BY <1>4, <1>5, <1>6, OneOrderMore
<1> QED BY <1>4, <1>7

\* The orders after an amount has arrived on a line.
Received(os, l, amount) ==
  [os EXCEPT ![l[1]].line_items[l[2]].quantity_received = @ + amount]

\* What arrives on a line changes that line's count of what was received, and
\* nothing else in the orders.
LEMMA ReceivedLine ==
  ASSUME NEW it, NEW os \in Seq(Orders), NEW l \in OpenLines(it, os), NEW amount \in Int,
         NEW new, new = Received(os, l, amount)
  PROVE  /\ new \in Seq(Orders) /\ DOMAIN new = DOMAIN os
         /\ \A k \in DOMAIN os :
              /\ new[k].status = os[k].status
              /\ DOMAIN new[k].line_items = DOMAIN os[k].line_items
              /\ \A i \in DOMAIN os[k].line_items :
                   <<k, i>> # l => new[k].line_items[i] = os[k].line_items[i]
         /\ LineAt(new, l) =
              [LineAt(os, l) EXCEPT !.quantity_received = LineAt(os, l).quantity_received + amount]
<1>1. PICK k, i : k = l[1] /\ i = l[2]
  OBVIOUS
<1>2. /\ k \in DOMAIN os /\ i \in DOMAIN os[k].line_items /\ l = <<k, i>>
      /\ LineAt(os, l) = os[k].line_items[i] /\ LineAt(os, l) \in Lines
  BY <1>1, OpenLineAt DEF LineAt
<1>3. PICK lines : lines = os[k].line_items
  OBVIOUS
<1>4. PICK line : line = [lines[i] EXCEPT !.quantity_received = lines[i].quantity_received + amount]
  OBVIOUS
<1>5. PICK order : order = [os[k] EXCEPT !.line_items = [lines EXCEPT ![i] = line]]
  OBVIOUS
<1>6. new = [os EXCEPT ![k] = order]
  BY <1>1, <1>3, <1>4, <1>5 DEF Received
<1>7. os[k] \in Orders /\ lines \in Seq(Lines) /\ i \in 1 .. Len(lines) /\ k \in 1 .. Len(os)
  <2>1. os[k] \in Orders
    BY <1>2
  <2> QED BY <1>2, <1>3, <2>1 DEF Orders
<1>8. line \in Lines
  <2>1. lines[i] \in Lines
    BY <1>2, <1>3
  <2>2. lines[i].quantity_received + amount \in Int
    BY <2>1 DEF Lines
  <2> QED BY <1>4, <2>1, <2>2 DEF Lines
<1>9. PICK rest : rest = [lines EXCEPT ![i] = line]
  OBVIOUS
<1>10. /\ rest \in Seq(Lines) /\ DOMAIN rest = DOMAIN lines /\ rest[i] = line
       /\ \A j \in DOMAIN lines : j # i => rest[j] = lines[j]
  BY <1>7, <1>8, <1>9
<1>11. order = [os[k] EXCEPT !.line_items = rest]
  BY <1>5, <1>9
<1>12. order \in Orders /\ order.line_items = rest /\ order.status = os[k].status
  BY <1>7, <1>10, <1>11 DEF Orders
<1>13. /\ new \in Seq(Orders) /\ DOMAIN new = DOMAIN os /\ new[k] = order
       /\ \A j \in DOMAIN os : j # k => new[j] = os[j]
  <2>1. new \in Seq(Orders)
    BY <1>6, <1>7, <1>12
  <2>2. new[k] = order
    BY <1>2, <1>6
  <2>3. DOMAIN new = DOMAIN os /\ \A j \in DOMAIN os : j # k => new[j] = os[j]
    BY <1>6
  <2> QED BY <2>1, <2>2, <2>3
<1>14. ASSUME NEW j \in DOMAIN os
       PROVE  /\ new[j].status = os[j].status
              /\ DOMAIN new[j].line_items = DOMAIN os[j].line_items
              /\ \A m \in DOMAIN os[j].line_items :
                   <<j, m>> # l => new[j].line_items[m] = os[j].line_items[m]
  <2>1. CASE j = k
    <3>1. new[j].line_items = rest /\ new[j].status = os[j].status /\ os[j].line_items = lines
      BY <1>3, <1>12, <1>13, <2>1
    <3>2. ASSUME NEW m \in DOMAIN lines, <<j, m>> # l
          PROVE  rest[m] = lines[m]
      BY <1>2, <1>10, <2>1, <3>2
    <3> QED BY <1>10, <3>1, <3>2
  <2>2. CASE j # k
    <3>1. new[j] = os[j]
      BY <1>13, <2>2
    <3> QED BY <3>1
  <2> QED BY <2>1, <2>2
<1>15. LineAt(new, l) = line
  BY <1>1, <1>10, <1>12, <1>13 DEF LineAt
<1>16. LineAt(os, l) = lines[i]
  BY <1>2, <1>3
<1> QED BY <1>4, <1>13, <1>14, <1>15, <1>16

\* What arrives is no longer inbound.
LEMMA ReceivingTakes ==
  ASSUME NEW it, NEW os \in Seq(Orders), NEW l \in OpenLines(it, os), NEW amount \in Nat,
         LineAt(os, l).quantity # None, amount <= Outstanding(LineAt(os, l)), NEW new,
         new = Received(os, l, amount)
  PROVE  /\ new \in Seq(Orders)
         /\ Readable(it, new) <=> Readable(it, os)
         /\ Readable(it, os) => IncomingQuantity(it, new) = IncomingQuantity(it, os) - amount
<1>1. /\ new \in Seq(Orders) /\ DOMAIN new = DOMAIN os
      /\ \A k \in DOMAIN os :
           /\ new[k].status = os[k].status
           /\ DOMAIN new[k].line_items = DOMAIN os[k].line_items
           /\ \A i \in DOMAIN os[k].line_items :
                <<k, i>> # l => new[k].line_items[i] = os[k].line_items[i]
      /\ LineAt(new, l) =
           [LineAt(os, l) EXCEPT !.quantity_received = LineAt(os, l).quantity_received + amount]
  <2>1. amount \in Int
    OBVIOUS
  <2> QED BY <2>1, ReceivedLine
<1>2. PICK old : old = LineAt(os, l)
  OBVIOUS
<1>3. old \in Lines /\ old.quantity # None /\ amount <= Outstanding(old)
  BY <1>2, OpenLineAt
<1>4. PICK line : line = [old EXCEPT !.quantity_received = old.quantity_received + amount]
  OBVIOUS
<1>5. LineAt(new, l) = line
  BY <1>1, <1>2, <1>4
<1>6. /\ line \in Lines /\ line.item_id = old.item_id /\ line.quantity = old.quantity
      /\ line.quantity_received = old.quantity_received + amount
      /\ line.quantity_cancelled = old.quantity_cancelled
  BY <1>3, <1>4 DEF Lines
<1>7. Outstanding(line) = Outstanding(old) - amount
  <2>1. /\ old.quantity \in Int /\ old.quantity_received \in Int
        /\ old.quantity_cancelled \in Int
    BY <1>3 DEF Lines, Amounts
  <2>2. PICK raw \in Int : raw = old.quantity - old.quantity_received - old.quantity_cancelled
    BY <2>1
  <2>3. line.quantity - line.quantity_received - line.quantity_cancelled = raw - amount
    BY <1>6, <2>1, <2>2
  <2>4. Outstanding(old) = IF raw >= 0 THEN raw ELSE 0
    BY <2>2, AtLeastZeroIs DEF Outstanding
  <2>5. raw - amount \in Int
    BY <2>2
  <2>6. Outstanding(line) = IF raw - amount >= 0 THEN raw - amount ELSE 0
    BY <2>3, <2>5, AtLeastZeroIs DEF Outstanding
  <2> QED BY <1>3, <2>2, <2>4, <2>6
<1>8. \A k \in DOMAIN os : \A i \in DOMAIN os[k].line_items :
        new[k].line_items[i].item_id = os[k].line_items[i].item_id
  <2> SUFFICES ASSUME NEW k \in DOMAIN os, NEW i \in DOMAIN os[k].line_items
               PROVE  new[k].line_items[i].item_id = os[k].line_items[i].item_id
    OBVIOUS
  <2>1. CASE <<k, i>> # l
    BY <1>1, <2>1
  <2>2. CASE <<k, i>> = l
    <3>1. l[1] = k /\ l[2] = i
      BY <2>2
    <3>2. LineAt(new, l) = new[k].line_items[i] /\ LineAt(os, l) = os[k].line_items[i]
      BY <3>1 DEF LineAt
    <3> QED BY <1>2, <1>5, <1>6, <3>2
  <2> QED BY <2>1, <2>2
<1>9. OpenLines(it, new) = OpenLines(it, os)
  <2>1. Coming(new) = Coming(os)
    BY <1>1 DEF Coming
  <2>2. \A k \in Coming(os) : LinesFor(it, new[k]) = LinesFor(it, os[k])
    BY <1>1, <1>8 DEF Coming, LinesFor
  <2> QED BY <2>1, <2>2 DEF OpenLines
<1>10. ASSUME NEW m \in OpenLines(it, os), m # l
       PROVE  LineAt(new, m) = LineAt(os, m)
  <2>1. m[1] \in DOMAIN os /\ m[2] \in DOMAIN os[m[1]].line_items /\ m = <<m[1], m[2]>>
    BY OpenLineAt
  <2> QED BY <1>1, <1>10, <2>1 DEF LineAt
<1>11. \A m \in OpenLines(it, os) : LineAt(new, m).quantity = LineAt(os, m).quantity
  BY <1>2, <1>5, <1>6, <1>10
<1>12. Readable(it, new) <=> Readable(it, os)
  <2>1. new # None /\ os # None
    BY <1>1, RecordsAssumption
  <2> QED BY <1>9, <1>11, <2>1 DEF Readable
<1>13. ASSUME Readable(it, os)
       PROVE  IncomingQuantity(it, new) = IncomingQuantity(it, os) - amount
  <2>1. PICK lines : lines = OpenLines(it, os)
    OBVIOUS
  <2>2. PICK f : /\ f = [m \in lines |-> Outstanding(LineAt(os, m))]
                 /\ \A m \in lines : f[m] \in Nat
                 /\ IncomingQuantity(it, os) = SumFunctionOnSet(f, lines)
    BY <1>13, <2>1, SumOutstandingIs
  <2>3. PICK g : /\ g = [m \in lines |-> Outstanding(LineAt(new, m))]
                 /\ \A m \in lines : g[m] \in Nat
                 /\ IncomingQuantity(it, new) = SumFunctionOnSet(g, lines)
    <3>1. new \in Seq(Orders) /\ Readable(it, new)
      BY <1>1, <1>12, <1>13
    <3>2. \E g : /\ g = [m \in OpenLines(it, new) |-> Outstanding(LineAt(new, m))]
                 /\ \A m \in OpenLines(it, new) : g[m] \in Nat
                 /\ IncomingQuantity(it, new) = SumFunctionOnSet(g, OpenLines(it, new))
      BY <3>1, SumOutstandingIs
    <3>3. OpenLines(it, new) = lines
      BY <1>9, <2>1
    <3> QED BY <3>2, <3>3
  <2>4. IsFiniteSet(lines) /\ IsFiniteSet(lines \ {l}) /\ l \in lines
    <3>1. IsFiniteSet(lines) /\ l \in lines
      BY <2>1, OpenLinesFinite
    <3> QED BY <3>1, FS_Subset
  <2>5. PICK rest : rest = SumFunctionOnSet(f, lines \ {l})
    OBVIOUS
  <2>6. rest \in Nat
    BY <2>2, <2>4, <2>5, SumType
  <2>7. SumFunctionOnSet(f, lines) = f[l] + rest
    BY <2>2, <2>4, <2>5, SumRemove
  <2>8. SumFunctionOnSet(g, lines) = g[l] + SumFunctionOnSet(g, lines \ {l})
    <3>1. \A m \in lines : g[m] \in Nat
      BY <2>3
    <3> QED BY <2>4, <3>1, SumRemove
  <2>9. SumFunctionOnSet(g, lines \ {l}) = rest
    <3>1. \A m \in lines \ {l} : g[m] = f[m]
      BY <1>10, <2>1, <2>2, <2>3
    <3> QED BY <2>4, <2>5, <3>1, SumEqual
  <2>10. f[l] = Outstanding(old) /\ g[l] = Outstanding(old) - amount
    BY <1>2, <1>5, <1>7, <2>2, <2>3, <2>4
  <2>11. f[l] \in Nat
    BY <2>2, <2>4
  <2>12. SumFunctionOnSet(g, lines) = (f[l] - amount) + rest
    BY <2>8, <2>9, <2>10
  <2>13. (f[l] - amount) + rest = (f[l] + rest) - amount
    BY <2>6, <2>11
  <2> QED BY <2>2, <2>3, <2>7, <2>12, <2>13
<1> QED BY <1>1, <1>12, <1>13

\* The orders as the replies have them.
Told(os, lost, blank) ==
  [k \in DOMAIN os |->
     IF k \in lost THEN Empty
     ELSE [os[k] EXCEPT !.line_items =
             [i \in DOMAIN os[k].line_items |->
                [os[k].line_items[i] EXCEPT !.quantity = IF <<k, i>> \in blank THEN None ELSE @]]]]

LEMMA ToldOrder ==
  ASSUME NEW os \in Seq(Orders), NEW lost, NEW blank, NEW r, r = Told(os, lost, blank),
         NEW k \in DOMAIN os
  PROVE  /\ r[k] \in Orders
         /\ k \in lost => r[k] = Empty
         /\ k \notin lost =>
              /\ r[k].status = os[k].status
              /\ DOMAIN r[k].line_items = DOMAIN os[k].line_items
              /\ \A i \in DOMAIN os[k].line_items :
                   /\ r[k].line_items[i].item_id = os[k].line_items[i].item_id
                   /\ r[k].line_items[i].quantity # None =>
                        r[k].line_items[i] = os[k].line_items[i]
<1>1. CASE k \in lost
  <2>1. r[k] = Empty
    BY <1>1 DEF Told
  <2>2. <<>> \in Seq(Lines)
    OBVIOUS
  <2>3. Empty \in Orders
    BY <2>2, KnownStatuses DEF Empty, Orders
  <2> QED BY <1>1, <2>1, <2>3
<1>2. CASE k \notin lost
  <2>1. PICK order, lines : order = os[k] /\ lines = order.line_items
    OBVIOUS
  <2>2. order \in Orders /\ lines \in Seq(Lines) /\ DOMAIN lines = 1 .. Len(lines)
    <3>1. order \in Orders
      BY <2>1
    <3>2. lines \in Seq(Lines)
      BY <2>1, <3>1 DEF Orders
    <3> QED BY <3>1, <3>2
  <2>3. PICK new : new = [i \in DOMAIN lines |->
                            [lines[i] EXCEPT !.quantity = IF <<k, i>> \in blank THEN None ELSE @]]
    OBVIOUS
  <2>4. ASSUME NEW i \in DOMAIN lines
        PROVE  /\ new[i] \in Lines
               /\ new[i].item_id = lines[i].item_id
               /\ new[i].quantity # None => new[i] = lines[i]
    <3>1. PICK line : line = lines[i]
      OBVIOUS
    <3>2. line \in Lines
      BY <2>2, <2>4, <3>1
    <3>3. CASE <<k, i>> \in blank
      <4>1. new[i] = [line EXCEPT !.quantity = None]
        BY <2>3, <2>4, <3>1, <3>3
      <4> QED BY <3>1, <3>2, <4>1 DEF Lines, Amounts
    <3>4. CASE <<k, i>> \notin blank
      <4>1. new[i] = [line EXCEPT !.quantity = line.quantity]
        BY <2>3, <2>4, <3>1, <3>4
      <4>2. [line EXCEPT !.quantity = line.quantity] = line
        BY <3>2 DEF Lines
      <4> QED BY <3>1, <3>2, <4>1, <4>2
    <3> QED BY <3>3, <3>4
  <2>5. DOMAIN new = 1 .. Len(lines) /\ Len(lines) \in Nat
    BY <2>2, <2>3
  <2>6. new \in Seq(Lines)
    <3>1. \A i \in 1 .. Len(lines) : new[i] \in Lines
      BY <2>2, <2>4
    <3>2. new = [i \in 1 .. Len(lines) |-> new[i]]
      BY <2>3, <2>5
    <3>3. new \in [1 .. Len(lines) -> Lines]
      BY <3>1, <3>2
    <3> QED BY <2>5, <3>3, SeqDef
  <2>7. r[k] = [order EXCEPT !.line_items = new]
    BY <1>2, <2>1, <2>3 DEF Told
  <2>8. r[k] \in Orders /\ r[k].status = order.status /\ r[k].line_items = new
    BY <2>2, <2>6, <2>7 DEF Orders
  <2>9. DOMAIN new = DOMAIN lines
    BY <2>3
  <2> QED BY <1>2, <2>1, <2>4, <2>8, <2>9
<1> QED BY <1>1, <1>2

\* A line that is still to come is in the replies unless its order is lost.
LEMMA ToldLines ==
  ASSUME NEW it, NEW os \in Seq(Orders), NEW lost, NEW blank, NEW r,
         r = Told(os, lost, blank)
  PROVE  /\ r \in Seq(Orders)
         /\ OpenLines(it, r) = {l \in OpenLines(it, os) : l[1] \notin lost}
         /\ \A l \in OpenLines(it, r) :
              LineAt(r, l).quantity # None => LineAt(r, l) = LineAt(os, l)
<1>1. DOMAIN r = DOMAIN os /\ DOMAIN os = 1 .. Len(os) /\ Len(os) \in Nat
  BY DEF Told
<1>2. r \in Seq(Orders)
  <2>1. \A k \in 1 .. Len(os) : r[k] \in Orders
    BY <1>1, ToldOrder
  <2>2. r = [k \in 1 .. Len(os) |-> r[k]]
    BY <1>1 DEF Told
  <2>3. r \in [1 .. Len(os) -> Orders]
    BY <2>1, <2>2
  <2> QED BY <1>1, <2>3, SeqDef
<1>3. ASSUME NEW l \in OpenLines(it, r)
      PROVE  /\ l \in OpenLines(it, os) /\ l[1] \notin lost
             /\ LineAt(r, l).quantity # None => LineAt(r, l) = LineAt(os, l)
  <2>1. /\ l[1] \in DOMAIN r /\ r[l[1]].status \notin NotComing
        /\ l[2] \in DOMAIN r[l[1]].line_items /\ l = <<l[1], l[2]>>
        /\ LineAt(r, l).item_id = it.item_id
    BY <1>2, OpenLineAt
  <2>2. PICK k, i : k = l[1] /\ i = l[2]
    OBVIOUS
  <2>3. k \in DOMAIN os /\ k \notin lost
    <3> SUFFICES ASSUME k \in lost PROVE FALSE
      BY <1>1, <2>1, <2>2
    <3>1. r[k] = Empty
      BY <1>1, <2>1, <2>2, ToldOrder
    <3>2. DOMAIN r[k].line_items = {}
      <4>1. PICK lines : lines = <<>>
        OBVIOUS
      <4>2. DOMAIN lines = {}
        BY <4>1
      <4>3. PICK status : status = ""
        OBVIOUS
      <4>4. Empty = [status |-> status, line_items |-> lines]
        BY <4>1, <4>3 DEF Empty
      <4>5. r[k].line_items = lines
        BY <3>1, <4>4
      <4> QED BY <4>2, <4>5
    <3> QED BY <2>1, <2>2, <3>2
  <2>4. /\ r[k].status = os[k].status
        /\ i \in DOMAIN os[k].line_items
        /\ r[k].line_items[i].item_id = os[k].line_items[i].item_id
        /\ r[k].line_items[i].quantity # None => r[k].line_items[i] = os[k].line_items[i]
    BY <2>1, <2>2, <2>3, ToldOrder
  <2>5. LineAt(r, l) = r[k].line_items[i] /\ LineAt(os, l) = os[k].line_items[i]
    BY <2>2 DEF LineAt
  <2>6. <<k, i>> \in OpenLines(it, os)
    BY <2>1, <2>2, <2>3, <2>4, <2>5, OpenLineIs
  <2> QED BY <2>1, <2>2, <2>3, <2>4, <2>5, <2>6
<1>4. ASSUME NEW l \in OpenLines(it, os), l[1] \notin lost
      PROVE  l \in OpenLines(it, r)
  <2>1. /\ l[1] \in DOMAIN os /\ os[l[1]].status \notin NotComing
        /\ l[2] \in DOMAIN os[l[1]].line_items /\ l = <<l[1], l[2]>>
        /\ os[l[1]].line_items[l[2]].item_id = it.item_id
    BY OpenLineAt DEF LineAt
  <2>2. PICK k, i : k = l[1] /\ i = l[2]
    OBVIOUS
  <2>3. /\ k \in DOMAIN r /\ r[k].status \notin NotComing
        /\ i \in DOMAIN r[k].line_items /\ r[k].line_items[i].item_id = it.item_id
    BY <1>1, <1>4, <2>1, <2>2, ToldOrder
  <2>4. <<k, i>> \in OpenLines(it, r)
    BY <1>2, <2>3, OpenLineIs
  <2> QED BY <2>1, <2>2, <2>4
<1> QED BY <1>2, <1>3, <1>4

\* The orders that are lost come to a natural number.
LEMMA LostCount ==
  ASSUME NEW it, NEW os \in Seq(Orders), Readable(it, os), NEW lost
  PROVE  SumOutstanding(os, {l \in OpenLines(it, os) : l[1] \in lost}) \in Nat
<1>1. PICK T : T = {l \in OpenLines(it, os) : l[1] \in lost}
  OBVIOUS
<1>2. PICK h : h = [l \in T |-> Outstanding(LineAt(os, l))]
  OBVIOUS
<1>3. \A l \in T : h[l] \in Nat
  BY <1>1, <1>2, OpenLineAt, OutstandingType DEF Readable
<1>4. IsFiniteSet(T)
  BY <1>1, OpenLinesFinite, FS_Subset
<1>5. SumFunctionOnSet(h, T) \in Nat
  BY <1>3, <1>4, SumType
<1> QED BY <1>1, <1>2, <1>5 DEF SumOutstanding, SumFunction

\* What the replies make of it is short of what is inbound by the orders they
\* lost, and by nothing else.
LEMMA ToldCount ==
  ASSUME NEW it, NEW os \in Seq(Orders), Readable(it, os), NEW lost, NEW blank, NEW r,
         r = Told(os, lost, blank), Readable(it, r), NEW gone,
         gone = SumOutstanding(os, {l \in OpenLines(it, os) : l[1] \in lost})
  PROVE  /\ gone \in Nat /\ IncomingQuantity(it, r) \in Nat
         /\ IncomingQuantity(it, os) = IncomingQuantity(it, r) + gone
<1>1. PICK S, T : S = OpenLines(it, os) /\ T = {l \in S : l[1] \in lost}
  OBVIOUS
<1>2. /\ r \in Seq(Orders) /\ OpenLines(it, r) = S \ T
      /\ \A l \in S \ T : LineAt(r, l) = LineAt(os, l)
  <2>1. /\ r \in Seq(Orders)
        /\ OpenLines(it, r) = {l \in OpenLines(it, os) : l[1] \notin lost}
        /\ \A l \in OpenLines(it, r) :
             LineAt(r, l).quantity # None => LineAt(r, l) = LineAt(os, l)
    BY ToldLines
  <2>2. OpenLines(it, r) = S \ T
    BY <1>1, <2>1
  <2> QED BY <2>1, <2>2 DEF Readable
<1>3. IsFiniteSet(S) /\ T \in SUBSET S /\ IsFiniteSet(T) /\ IsFiniteSet(S \ T)
  <2>1. IsFiniteSet(S)
    BY <1>1, OpenLinesFinite
  <2> QED BY <1>1, <2>1, FS_Subset
<1>4. PICK f : /\ f = [l \in S |-> Outstanding(LineAt(os, l))]
               /\ \A l \in S : f[l] \in Nat
               /\ IncomingQuantity(it, os) = SumFunctionOnSet(f, S)
  BY <1>1, SumOutstandingIs
<1>5. PICK g : /\ g = [l \in S \ T |-> Outstanding(LineAt(r, l))]
               /\ IncomingQuantity(it, r) = SumFunctionOnSet(g, S \ T)
               /\ IncomingQuantity(it, r) \in Nat
  BY <1>2, SumOutstandingIs
<1>6. SumFunctionOnSet(g, S \ T) = SumFunctionOnSet(f, S \ T)
  <2>1. \A l \in S \ T : g[l] = f[l]
    BY <1>2, <1>4, <1>5
  <2> QED BY <1>3, <2>1, SumEqual
<1>7. PICK h : h = [l \in T |-> Outstanding(LineAt(os, l))]
  OBVIOUS
<1>8. gone = SumFunctionOnSet(h, T)
  BY <1>1, <1>7 DEF SumOutstanding, SumFunction
<1>9. gone = SumFunctionOnSet(f, T)
  <2>1. \A l \in T : h[l] = f[l]
    BY <1>3, <1>4, <1>7
  <2> QED BY <1>3, <1>8, <2>1, SumEqual
<1>10. gone \in Nat
  BY LostCount
<1>11. SumFunctionOnSet(f, S) = SumFunctionOnSet(f, T) + SumFunctionOnSet(f, S \ T)
  BY <1>3, <1>4, SumSplit
<1> QED BY <1>4, <1>5, <1>6, <1>9, <1>10, <1>11

-----------------------------------------------------------------------------
(* The rounds *)

TypeInv ==
  /\ item \in ItemRecords
  /\ policy \in Entries \cup {None}
  /\ orders \in Seq(Orders) /\ Readable(item, orders)
  /\ seen \in ItemRecords \cup {None}
  /\ placed \in Nat
  /\ uncounted \in Nat

\* A record in hand is the item's, but for what has come in since.
SeenInv ==
  seen # None =>
    /\ ~ plan.reorder_needed
    /\ seen.item_id = item.item_id
    /\ seen.minimum_order_quantity \in {item.minimum_order_quantity, None}
    /\ seen.maximum_order_quantity \in {item.maximum_order_quantity, None}
    /\ AvailableStock(seen) \in Int =>
         AvailableStock(item) \in Int /\ AvailableStock(item) = AvailableStock(seen) + uncounted

\* An order that is planned makes up for the shortfall that was counted, or comes
\* to the minimum.
PlanInv ==
  plan.reorder_needed =>
    /\ AvailableStock(item) \in Int
    /\ policy # None /\ policy.target_stock \in Int
    /\ plan.quantity \in Int /\ plan.quantity > 0
    /\ Position - uncounted < policy.target_stock
    /\ Unlimited => Position + plan.quantity > policy.target_stock - Unit
    /\ \/ plan.quantity <= policy.target_stock - Position + uncounted
       \/ \E it \in Records(item) : plan.quantity <= MinimumQuantity(it, policy)

\* From the first order on, unless the supplier limits an order, what is
\* available and inbound stays at the target, but for the fraction that int()
\* drops.
FilledInv ==
  placed > 0 =>
    /\ AvailableStock(item) \in Int
    /\ policy # None /\ policy.target_stock \in Int
    /\ Unlimited => Position > policy.target_stock - Unit

RoundsInv == TypeInv /\ SeenInv /\ PlanInv /\ FilledInv

\* The record that is read is the item's, perhaps without its limits.
LEMMA RecordsOf ==
  ASSUME NEW it \in ItemRecords, NEW rec \in Records(it)
  PROVE  /\ rec \in ItemRecords /\ rec.item_id = it.item_id
         /\ AvailableStock(rec) = AvailableStock(it)
         /\ rec.minimum_order_quantity \in {it.minimum_order_quantity, None}
         /\ rec.maximum_order_quantity \in {it.maximum_order_quantity, None}
<1>1. CASE rec = it
  BY <1>1
<1>2. CASE rec # it
  <2>1. rec = [it EXCEPT !.minimum_order_quantity = None, !.maximum_order_quantity = None]
    BY <1>2 DEF Records
  <2>2. /\ rec \in ItemRecords /\ rec.item_id = it.item_id
        /\ rec.actual_available_stock = it.actual_available_stock
        /\ rec.available_stock = it.available_stock
        /\ rec.stock_on_hand = it.stock_on_hand
        /\ rec.minimum_order_quantity = None /\ rec.maximum_order_quantity = None
    BY <2>1 DEF ItemRecords, Amounts
  <2> QED BY <2>2 DEF AvailableStock
<1> QED BY <1>1, <1>2

\* The minimum is that of one of the records that may be read.
LEMMA MinimumOf ==
  ASSUME NEW it \in ItemRecords, NEW rec, NEW entry,
         rec.minimum_order_quantity \in {it.minimum_order_quantity, None}
  PROVE  \E other \in Records(it) : MinimumQuantity(other, entry) = MinimumQuantity(rec, entry)
<1>1. CASE rec.minimum_order_quantity = it.minimum_order_quantity
  BY <1>1 DEF Records, MinimumQuantity
<1>2. CASE rec.minimum_order_quantity = None
  <2>1. PICK other : other = [it EXCEPT !.minimum_order_quantity = None,
                                        !.maximum_order_quantity = None]
    OBVIOUS
  <2>2. other \in Records(it) /\ other.minimum_order_quantity = None
    BY <2>1 DEF Records, ItemRecords
  <2> QED BY <1>2, <2>2 DEF MinimumQuantity
<1> QED BY <1>1, <1>2

LEMMA MinimumType ==
  ASSUME NEW it \in ItemRecords, NEW entry \in Entries
  PROVE  MinimumQuantity(it, entry) \in Int
  BY UnitAssumption DEF MinimumQuantity, Given, ItemRecords, Entries, Amounts

\* What is really there is a number when the stock is.
LEMMA PositionType ==
  ASSUME TypeInv, AvailableStock(item) \in Int
  PROVE  IncomingQuantity(item, orders) \in Nat /\ Position \in Int
<1>1. PICK it, os : it = item /\ os = orders
  OBVIOUS
<1>2. os \in Seq(Orders) /\ Readable(it, os)
  BY <1>1 DEF TypeInv
<1>3. IncomingQuantity(it, os) \in Nat
  BY <1>2, SumOutstandingIs
<1> QED BY <1>1, <1>3 DEF Position

LEMMA ReadItemStep ==
  ASSUME RoundsInv, ReadItem
  PROVE  RoundsInv'
<1>1. /\ seen' \in Records(item) /\ plan' = Undecided /\ uncounted' = 0
      /\ item' = item /\ policy' = policy /\ orders' = orders /\ placed' = placed
  BY DEF ReadItem
<1>2. TypeInv /\ FilledInv /\ item \in ItemRecords
  BY DEF RoundsInv, TypeInv
<1>3. PICK it, rec : it = item /\ rec = seen'
  OBVIOUS
<1>4. /\ rec \in ItemRecords /\ rec.item_id = it.item_id
      /\ AvailableStock(rec) = AvailableStock(it)
      /\ rec.minimum_order_quantity \in {it.minimum_order_quantity, None}
      /\ rec.maximum_order_quantity \in {it.maximum_order_quantity, None}
  BY <1>1, <1>2, <1>3, RecordsOf
<1>5. TypeInv'
  BY <1>1, <1>2, <1>3, <1>4 DEF TypeInv
<1>6. ~ plan'.reorder_needed
  BY <1>1 DEF Undecided
<1>7. AvailableStock(seen)' \in Int =>
        AvailableStock(item)' \in Int
          /\ AvailableStock(item)' = AvailableStock(seen)' + uncounted'
  BY <1>1, <1>3, <1>4
<1>8. SeenInv'
  BY <1>1, <1>3, <1>4, <1>6, <1>7 DEF SeenInv
<1>9. PlanInv'
  BY <1>6 DEF PlanInv
<1>10. FilledInv'
  BY <1>1, <1>2 DEF FilledInv, Unlimited, Position
<1> QED BY <1>5, <1>8, <1>9, <1>10 DEF RoundsInv

\* What the plan was made of: replies, unless it orders nothing.
LEMMA Decided ==
  ASSUME RoundsInv, Decide
  PROVE  /\ seen \in ItemRecords /\ seen' = None
         /\ item' = item /\ policy' = policy /\ orders' = orders /\ placed' = placed
         /\ uncounted' \in Nat
         /\ plan'.reorder_needed =>
              \E r \in Seq(Orders) :
                /\ plan' = Plan(seen, policy, r)
                /\ Readable(seen, r) =>
                     /\ IncomingQuantity(seen, r) \in Nat
                     /\ IncomingQuantity(item, orders) + uncounted
                          = IncomingQuantity(seen, r) + uncounted'
<1>1. /\ seen # None /\ seen' = None
      /\ item' = item /\ policy' = policy /\ orders' = orders /\ placed' = placed
  BY DEF Decide
<1>2. /\ seen \in ItemRecords /\ seen.item_id = item.item_id
      /\ orders \in Seq(Orders) /\ Readable(item, orders) /\ uncounted \in Nat
  BY <1>1 DEF RoundsInv, TypeInv, SeenInv
<1>3. CASE CannotRead
  <2>1. uncounted' = uncounted /\ plan' = Plan(seen, policy, None)
    BY <1>3 DEF CannotRead
  <2>2. IncomingQuantity(seen, None) = None
    BY DEF IncomingQuantity, Readable
  <2>3. plan' = Unresolved
    BY <2>1, <2>2 DEF Plan
  <2> QED BY <1>1, <1>2, <2>1, <2>3 DEF Unresolved
<1>4. ASSUME NEW lost, NEW blank, ReadOrders(lost, blank)
      PROVE  /\ uncounted' \in Nat
             /\ \E r \in Seq(Orders) :
                  /\ plan' = Plan(seen, policy, r)
                  /\ Readable(seen, r) =>
                       /\ IncomingQuantity(seen, r) \in Nat
                       /\ IncomingQuantity(item, orders) + uncounted
                            = IncomingQuantity(seen, r) + uncounted'
  <2>1. PICK it, rec, os, u, r, gone :
          /\ it = item /\ rec = seen /\ os = orders /\ u = uncounted
          /\ r = Told(os, lost, blank)
          /\ gone = SumOutstanding(os, {l \in OpenLines(it, os) : l[1] \in lost})
    OBVIOUS
  <2>2. os \in Seq(Orders) /\ Readable(it, os) /\ rec.item_id = it.item_id /\ u \in Nat
    BY <1>2, <2>1
  <2>3. r = Replies(lost, blank)
    BY <2>1 DEF Told, Replies, Blank
  <2>4. plan' = Plan(rec, policy, r) /\ uncounted' = u + gone
    BY <1>4, <2>1, <2>3 DEF ReadOrders
  <2>5. gone \in Nat
    BY <2>1, <2>2, LostCount
  <2>6. r \in Seq(Orders)
    BY <2>1, <2>2, ToldLines
  <2>7. ASSUME Readable(rec, r)
        PROVE  /\ IncomingQuantity(rec, r) \in Nat
               /\ IncomingQuantity(it, os) + u = IncomingQuantity(rec, r) + (u + gone)
    <3>1. Readable(it, r) /\ IncomingQuantity(rec, r) = IncomingQuantity(it, r)
      BY <2>2, <2>7, SameItem
    <3>2. /\ IncomingQuantity(it, r) \in Nat
          /\ IncomingQuantity(it, os) = IncomingQuantity(it, r) + gone
      BY <2>1, <2>2, <3>1, ToldCount
    <3> QED BY <2>2, <2>5, <3>1, <3>2
  <2>8. uncounted' \in Nat
    BY <2>2, <2>4, <2>5
  <2>9. /\ plan' = Plan(seen, policy, r)
        /\ Readable(seen, r) =>
             /\ IncomingQuantity(seen, r) \in Nat
             /\ IncomingQuantity(item, orders) + uncounted
                  = IncomingQuantity(seen, r) + uncounted'
    BY <2>1, <2>4, <2>7
  <2> QED BY <2>6, <2>8, <2>9
<1>5. CASE \E lost \in SUBSET DOMAIN orders,
              blank \in {{}} \cup {{l} : l \in OpenLines(item, orders)} : ReadOrders(lost, blank)
  BY <1>1, <1>2, <1>4, <1>5
<1> QED BY <1>3, <1>5 DEF Decide

LEMMA DecideStep ==
  ASSUME RoundsInv, Decide
  PROVE  RoundsInv'
<1>1. /\ seen \in ItemRecords /\ seen' = None /\ uncounted' \in Nat
      /\ item' = item /\ policy' = policy /\ orders' = orders /\ placed' = placed
  BY Decided
<1>2. TypeInv /\ FilledInv /\ SeenInv /\ uncounted \in Nat /\ item \in ItemRecords
  BY DEF RoundsInv, TypeInv
<1>3. TypeInv'
  BY <1>1, <1>2 DEF TypeInv
<1>4. SeenInv'
  BY <1>1 DEF SeenInv
<1>5. FilledInv'
  BY <1>1, <1>2 DEF FilledInv, Unlimited, Position
<1>6. ASSUME plan'.reorder_needed
      PROVE  /\ AvailableStock(item) \in Int
             /\ policy # None /\ policy.target_stock \in Int
             /\ plan'.quantity \in Int /\ plan'.quantity > 0
             /\ Position - uncounted' < policy.target_stock
             /\ Unlimited => Position + plan'.quantity > policy.target_stock - Unit
             /\ \/ plan'.quantity <= policy.target_stock - Position + uncounted'
                \/ \E it \in Records(item) : plan'.quantity <= MinimumQuantity(it, policy)
  <2>1. PICK r \in Seq(Orders) :
          /\ plan' = Plan(seen, policy, r)
          /\ Readable(seen, r) =>
               /\ IncomingQuantity(seen, r) \in Nat
               /\ IncomingQuantity(item, orders) + uncounted
                    = IncomingQuantity(seen, r) + uncounted'
    BY <1>6, Decided
  <2>2. PICK it, rec, entry, p, u, v :
          it = item /\ rec = seen /\ entry = policy /\ p = plan' /\ u = uncounted /\ v = uncounted'
    OBVIOUS
  <2>3. rec \in ItemRecords /\ entry \in Entries \cup {None} /\ r \in Seq(Orders) \cup {None}
    BY <1>1, <1>2, <2>2 DEF TypeInv
  <2>4. p = Plan(rec, entry, r) /\ p.reorder_needed
    BY <1>6, <2>1, <2>2
  <2>5. /\ Readable(rec, r)
        /\ AvailableStock(rec) \in Int /\ IncomingQuantity(rec, r) \in Nat
        /\ entry # None /\ entry.target_stock \in Int
        /\ p.quantity \in Int /\ p.quantity > 0
        /\ AvailableStock(rec) + IncomingQuantity(rec, r) < entry.target_stock
        /\ ~ Given(rec.maximum_order_quantity) =>
             AvailableStock(rec) + IncomingQuantity(rec, r) + p.quantity
               > entry.target_stock - Unit
        /\ \/ AvailableStock(rec) + IncomingQuantity(rec, r) + p.quantity
                <= entry.target_stock
           \/ p.quantity <= MinimumQuantity(rec, entry)
    BY <2>3, <2>4, NeededPlan
  <2>6. PICK stock, counted, real, inbound :
          /\ stock = AvailableStock(rec) /\ counted = IncomingQuantity(rec, r)
          /\ real = AvailableStock(it) /\ inbound = IncomingQuantity(it, orders)
    OBVIOUS
  <2>7. /\ rec.minimum_order_quantity \in {it.minimum_order_quantity, None}
        /\ rec.maximum_order_quantity \in {it.maximum_order_quantity, None}
        /\ real \in Int /\ real = stock + u
    <3>1. seen # None
      BY DEF Decide
    <3> QED BY <1>2, <2>2, <2>5, <2>6, <3>1 DEF SeenInv
  <2>8. inbound \in Nat /\ inbound + u = counted + v /\ counted \in Nat
    <3>1. IncomingQuantity(item, orders) \in Nat
      BY <1>2, <2>2, <2>6, <2>7, PositionType
    <3> QED BY <2>1, <2>2, <2>5, <2>6, <3>1
  <2>9. Position = real + inbound
    BY <2>2, <2>6 DEF Position
  <2>10. stock \in Int /\ u \in Nat /\ v \in Nat
    BY <1>1, <1>2, <2>2, <2>5, <2>6
  <2>11. Position = stock + counted + v /\ Position \in Int
    BY <2>7, <2>8, <2>9, <2>10
  <2>12. PICK pos, target, q : pos = Position /\ target = entry.target_stock /\ q = p.quantity
    OBVIOUS
  <2>13. /\ pos \in Int /\ target \in Int /\ q \in Int /\ q > 0
         /\ pos = stock + counted + v
         /\ stock + counted < target
    BY <2>5, <2>6, <2>11, <2>12
  <2>14. pos - v < target
    BY <2>8, <2>10, <2>13
  <2>15. Unlimited => pos + q > target - Unit
    <3>1. Unlimited => ~ Given(rec.maximum_order_quantity)
      BY <2>2, <2>7 DEF Unlimited, Given
    <3>2. ~ Given(rec.maximum_order_quantity) => stock + counted + q > target - Unit
      BY <2>5, <2>6, <2>12
    <3> QED BY <2>8, <2>10, <2>13, <3>1, <3>2, UnitAssumption
  <2>16. \/ q <= target - pos + v
         \/ \E other \in Records(it) : q <= MinimumQuantity(other, entry)
    <3>1. CASE stock + counted + q <= target
      BY <2>8, <2>10, <2>13, <3>1
    <3>2. CASE q <= MinimumQuantity(rec, entry)
      BY <1>2, <2>2, <2>7, <3>2, MinimumOf
    <3> QED BY <2>5, <2>6, <2>12, <3>1, <3>2
  <2> QED BY <2>2, <2>5, <2>6, <2>7, <2>12, <2>13, <2>14, <2>15, <2>16
<1>7. PlanInv'
  BY <1>1, <1>6 DEF PlanInv, Unlimited, Position
<1> QED BY <1>3, <1>4, <1>5, <1>7 DEF RoundsInv

\* Placing an order raises the position by its quantity.
LEMMA PlaceStep ==
  ASSUME RoundsInv, Place
  PROVE  RoundsInv'
<1>1. /\ plan.reorder_needed /\ plan' = Undecided /\ placed' = placed + 1
      /\ item' = item /\ policy' = policy /\ seen' = seen /\ uncounted' = uncounted
  BY DEF Place
<1>2. /\ TypeInv /\ AvailableStock(item) \in Int
      /\ policy # None /\ policy.target_stock \in Int
      /\ plan.quantity \in Int /\ plan.quantity > 0
      /\ Unlimited => Position + plan.quantity > policy.target_stock - Unit
  BY <1>1 DEF RoundsInv, PlanInv
<1>3. PICK it, os, new, q : it = item /\ os = orders /\ new = orders' /\ q = plan.quantity
  OBVIOUS
<1>4. new = Append(os, Placed(it, q))
  BY <1>3 DEF Place, Placed, Line
<1>5. it \in ItemRecords /\ os \in Seq(Orders) /\ Readable(it, os) /\ q \in Nat
  BY <1>2, <1>3 DEF TypeInv
<1>6. /\ new \in Seq(Orders) /\ Readable(it, new)
      /\ IncomingQuantity(it, new) = IncomingQuantity(it, os) + q
  BY <1>4, <1>5, PlacingAdds
<1>7. AvailableStock(it) \in Int /\ IncomingQuantity(it, os) \in Nat
  BY <1>2, <1>3, PositionType
<1>8. Position' = AvailableStock(it) + (IncomingQuantity(it, os) + q)
  BY <1>1, <1>3, <1>6 DEF Position
<1>9. Position = AvailableStock(it) + IncomingQuantity(it, os)
  BY <1>3 DEF Position
<1>10. Position' = Position + plan.quantity
  BY <1>3, <1>5, <1>7, <1>8, <1>9
<1>11. TypeInv'
  BY <1>1, <1>2, <1>3, <1>6 DEF TypeInv
<1>12. ~ plan'.reorder_needed
  BY <1>1 DEF Undecided
<1>13. SeenInv'
  BY <1>1, <1>12 DEF RoundsInv, SeenInv
<1>14. PlanInv'
  BY <1>12 DEF PlanInv
<1>15. FilledInv'
  BY <1>1, <1>2, <1>10 DEF FilledInv, Unlimited
<1> QED BY <1>11, <1>13, <1>14, <1>15 DEF RoundsInv

\* Goods that arrive leave the position as it is.
LEMMA ArriveStep ==
  ASSUME TypeInv, Arrive
  PROVE  /\ item' \in ItemRecords /\ item'.item_id = item.item_id
         /\ item'.minimum_order_quantity = item.minimum_order_quantity
         /\ item'.maximum_order_quantity = item.maximum_order_quantity
         /\ orders' \in Seq(Orders) /\ Readable(item, orders)'
         /\ plan' = plan /\ policy' = policy /\ placed' = placed /\ seen' = seen
         /\ AvailableStock(item) \in Int /\ AvailableStock(item)' \in Int
         /\ Position' = Position
         /\ \E amount \in Nat :
              /\ AvailableStock(item)' = AvailableStock(item) + amount
              /\ uncounted' = IF seen # None THEN uncounted + amount ELSE uncounted
<1>1. PICK l \in OpenLines(item, orders), amount \in {Unit, 2 * Unit} : Receive(l, amount)
  BY DEF Arrive
<1>2. PICK it, other, os, new : it = item /\ other = item' /\ os = orders /\ new = orders'
  OBVIOUS
<1>3. amount \in Nat
  BY UnitAssumption
<1>4. it \in ItemRecords /\ os \in Seq(Orders) /\ Readable(it, os) /\ l \in OpenLines(it, os)
  BY <1>1, <1>2 DEF TypeInv
<1>5. /\ it.actual_available_stock # None
      /\ LineAt(os, l).quantity # None /\ amount <= Outstanding(LineAt(os, l))
      /\ new = Received(os, l, amount)
      /\ other = [it EXCEPT !.actual_available_stock = it.actual_available_stock + amount]
      /\ plan' = plan /\ policy' = policy /\ placed' = placed /\ seen' = seen
      /\ uncounted' = IF seen # None THEN uncounted + amount ELSE uncounted
  BY <1>1, <1>2, <1>4 DEF Receive, Received, Readable
<1>6. it.actual_available_stock \in Int
  BY <1>4, <1>5 DEF ItemRecords, Amounts
<1>7. /\ other.item_id = it.item_id
      /\ other.minimum_order_quantity = it.minimum_order_quantity
      /\ other.maximum_order_quantity = it.maximum_order_quantity
      /\ other.actual_available_stock = it.actual_available_stock + amount
      /\ other \in ItemRecords
  <2>1. PICK sum \in Amounts : sum = it.actual_available_stock + amount
    BY <1>3, <1>6 DEF Amounts
  <2>2. other = [it EXCEPT !.actual_available_stock = sum]
    BY <1>5, <2>1
  <2>3. /\ other.item_id = it.item_id
        /\ other.minimum_order_quantity = it.minimum_order_quantity
        /\ other.maximum_order_quantity = it.maximum_order_quantity
        /\ other.actual_available_stock = sum
        /\ other \in ItemRecords
    BY <1>4, <2>2 DEF ItemRecords
  <2> QED BY <2>1, <2>3
<1>8. /\ AvailableStock(it) = it.actual_available_stock
      /\ AvailableStock(other) = it.actual_available_stock + amount
  <2>1. it.actual_available_stock + amount # None
    BY <1>3, <1>6, NoneIsNoNumber
  <2> QED BY <1>5, <1>7, <2>1 DEF AvailableStock
<1>9. /\ new \in Seq(Orders) /\ Readable(it, new)
      /\ IncomingQuantity(it, new) = IncomingQuantity(it, os) - amount
  BY <1>3, <1>4, <1>5, ReceivingTakes
<1>10. /\ Readable(other, new)
       /\ IncomingQuantity(other, new) = IncomingQuantity(it, new)
  BY <1>7, <1>9, SameItem
<1>11. IncomingQuantity(it, os) \in Nat
  BY <1>4, SumOutstandingIs
<1>12. AvailableStock(other) + IncomingQuantity(other, new)
         = AvailableStock(it) + IncomingQuantity(it, os)
  BY <1>3, <1>6, <1>8, <1>9, <1>10, <1>11
<1>13. Position' = Position
  BY <1>2, <1>12 DEF Position
<1>14. AvailableStock(it) \in Int /\ AvailableStock(other) \in Int
       /\ AvailableStock(other) = AvailableStock(it) + amount
  BY <1>3, <1>6, <1>8
<1>15. \E n \in Nat :
         /\ AvailableStock(item)' = AvailableStock(item) + n
         /\ uncounted' = IF seen # None THEN uncounted + n ELSE uncounted
  BY <1>2, <1>3, <1>5, <1>14
<1> QED BY <1>2, <1>5, <1>7, <1>9, <1>10, <1>13, <1>14, <1>15

LEMMA ArriveKeeps ==
  ASSUME RoundsInv, Arrive
  PROVE  RoundsInv'
<1>1. TypeInv /\ SeenInv /\ PlanInv /\ FilledInv /\ uncounted \in Nat
  BY DEF RoundsInv, TypeInv
<1>2. /\ item' \in ItemRecords /\ item'.item_id = item.item_id
      /\ item'.minimum_order_quantity = item.minimum_order_quantity
      /\ item'.maximum_order_quantity = item.maximum_order_quantity
      /\ orders' \in Seq(Orders) /\ Readable(item, orders)'
      /\ plan' = plan /\ policy' = policy /\ placed' = placed /\ seen' = seen
      /\ AvailableStock(item) \in Int /\ AvailableStock(item)' \in Int
      /\ Position' = Position
      /\ \E amount \in Nat :
           /\ AvailableStock(item)' = AvailableStock(item) + amount
           /\ uncounted' = IF seen # None THEN uncounted + amount ELSE uncounted
  BY <1>1, ArriveStep
<1>3. PICK amount \in Nat :
        /\ AvailableStock(item)' = AvailableStock(item) + amount
        /\ uncounted' = IF seen # None THEN uncounted + amount ELSE uncounted
  BY <1>2
<1>4. TypeInv'
  BY <1>1, <1>2, <1>3 DEF TypeInv
<1>5. SeenInv'
  <2> SUFFICES ASSUME seen' # None
               PROVE  /\ ~ plan'.reorder_needed
                      /\ seen'.item_id = item'.item_id
                      /\ seen'.minimum_order_quantity \in {item'.minimum_order_quantity, None}
                      /\ seen'.maximum_order_quantity \in {item'.maximum_order_quantity, None}
                      /\ AvailableStock(seen)' \in Int =>
                           AvailableStock(item)' \in Int
                             /\ AvailableStock(item)' = AvailableStock(seen)' + uncounted'
    BY DEF SeenInv
  <2>1. PICK rec : rec = seen
    OBVIOUS
  <2>2. AvailableStock(seen)' = AvailableStock(rec) /\ AvailableStock(seen) = AvailableStock(rec)
    BY <1>2, <2>1
  <2>3. AvailableStock(rec) \in Int => AvailableStock(item)' = AvailableStock(rec) + uncounted'
    <3>1. AvailableStock(rec) \in Int => AvailableStock(item) = AvailableStock(rec) + uncounted
      BY <1>1, <1>2, <2>2 DEF SeenInv
    <3>2. uncounted' = uncounted + amount
      BY <1>2, <1>3
    <3> QED BY <1>1, <1>3, <3>1, <3>2
  <2> QED BY <1>1, <1>2, <2>2, <2>3 DEF SeenInv
<1>6. PlanInv'
  <2>1. CASE ~ plan.reorder_needed
    BY <1>2, <2>1 DEF PlanInv
  <2>2. CASE plan.reorder_needed
    <3>1. uncounted' = uncounted
      BY <1>1, <1>3, <2>2 DEF SeenInv
    <3>2. Unlimited' <=> Unlimited
      BY <1>2 DEF Unlimited
    <3>3. ASSUME NEW it \in Records(item), plan.quantity <= MinimumQuantity(it, policy)
          PROVE  \E other \in Records(item') : plan.quantity <= MinimumQuantity(other, policy)
      <4>1. PICK now, later : now = item /\ later = item'
        OBVIOUS
      <4>2. it.minimum_order_quantity \in {now.minimum_order_quantity, None}
        BY <1>1, <3>3, <4>1, RecordsOf DEF TypeInv
      <4>3. \E other \in Records(later) :
              MinimumQuantity(other, policy) = MinimumQuantity(it, policy)
        BY <1>2, <4>1, <4>2, MinimumOf
      <4> QED BY <3>3, <4>1, <4>3
    <3> QED BY <1>1, <1>2, <2>2, <3>1, <3>2, <3>3 DEF PlanInv
  <2> QED BY <2>1, <2>2
<1>7. FilledInv'
  <2>1. Unlimited' <=> Unlimited
    BY <1>2 DEF Unlimited
  <2> QED BY <1>1, <1>2, <2>1 DEF FilledInv
<1> QED BY <1>4, <1>5, <1>6, <1>7 DEF RoundsInv

LEMMA RoundsInit == Init => RoundsInv
<1> SUFFICES ASSUME Init PROVE RoundsInv
  OBVIOUS
<1>1. Readable(item, orders)
  BY BooksAssumption DEF Init
<1>2. TypeInv
  BY <1>1, RecordsAssumption DEF Init, TypeInv
<1>3. ~ plan.reorder_needed
  BY DEF Init, Undecided
<1>4. SeenInv /\ PlanInv /\ FilledInv
  BY <1>3 DEF Init, SeenInv, PlanInv, FilledInv
<1> QED BY <1>2, <1>4 DEF RoundsInv

LEMMA RoundsNext == RoundsInv /\ [Next]_vars => RoundsInv'
<1> SUFFICES ASSUME RoundsInv, [Next]_vars PROVE RoundsInv'
  OBVIOUS
<1>1. CASE UNCHANGED vars
  <2>1. /\ plan' = plan /\ item' = item /\ policy' = policy /\ orders' = orders
        /\ seen' = seen /\ placed' = placed /\ uncounted' = uncounted
    BY <1>1 DEF vars
  <2> QED BY <2>1 DEF RoundsInv, TypeInv, SeenInv, PlanInv, FilledInv, Unlimited, Position
<1> QED BY <1>1, ReadItemStep, DecideStep, PlaceStep, ArriveKeeps DEF Next

\* What every round starts from: the record in hand is short of the stock by what
\* has come in since, a planned order makes up for what was counted, and an order
\* that was placed still covers the target (check_stock, reorder_plan and
\* incoming_quantity together).
THEOREM RoundsHold == Spec => []RoundsInv
<1> QED BY RoundsInit, RoundsNext, PTL DEF Spec

\* What an order exceeds the shortfall and the minimum by is accounted for, unit by
\* unit: goods that came in between the two reads, and orders that the replies left
\* out, however many orders and lines there are.  Nothing else that is unknown is
\* counted as nothing.
THEOREM ExcessIsAccountedFor == Spec => []OrdersOnlyTheShortfall
<1>1. RoundsInv => OrdersOnlyTheShortfall
  <2> SUFFICES ASSUME RoundsInv, plan.reorder_needed
               PROVE  \E it \in Records(item) :
                        plan.quantity <= Max({policy.target_stock - Position + uncounted,
                                              MinimumQuantity(it, policy)})
    BY DEF OrdersOnlyTheShortfall
  <2>1. /\ AvailableStock(item) \in Int /\ policy # None /\ policy.target_stock \in Int
        /\ plan.quantity \in Int
        /\ \/ plan.quantity <= policy.target_stock - Position + uncounted
           \/ \E it \in Records(item) : plan.quantity <= MinimumQuantity(it, policy)
    BY DEF RoundsInv, PlanInv
  <2>2. /\ Position \in Int /\ uncounted \in Nat /\ policy \in Entries
        /\ item \in ItemRecords
    BY <2>1, PositionType DEF RoundsInv, TypeInv
  <2>3. PICK gap : gap = policy.target_stock - Position + uncounted
    OBVIOUS
  <2>4. gap \in Int
    BY <2>1, <2>2, <2>3
  <2>5. ASSUME NEW it \in Records(item)
        PROVE  /\ MinimumQuantity(it, policy) \in Int
               /\ Max({gap, MinimumQuantity(it, policy)}) \in Int
               /\ Max({gap, MinimumQuantity(it, policy)}) >= gap
               /\ Max({gap, MinimumQuantity(it, policy)}) >= MinimumQuantity(it, policy)
    <3>1. it \in ItemRecords
      BY <2>2, RecordsOf
    <3>2. MinimumQuantity(it, policy) \in Int
      BY <2>2, <3>1, MinimumType
    <3> QED BY <2>4, <3>2, MaxOfTwo
  <2>6. CASE plan.quantity <= gap
    <3>1. item \in Records(item)
      BY DEF Records
    <3>2. plan.quantity <= Max({gap, MinimumQuantity(item, policy)})
      BY <2>1, <2>4, <2>5, <2>6, <3>1
    <3> QED BY <2>3, <3>1, <3>2
  <2>7. ASSUME NEW it \in Records(item), plan.quantity <= MinimumQuantity(it, policy)
        PROVE  plan.quantity <= Max({gap, MinimumQuantity(it, policy)})
    BY <2>1, <2>5, <2>7
  <2> QED BY <2>1, <2>3, <2>6, <2>7
<1> QED BY <1>1, RoundsHold, PTL

\* An order that the supplier does not limit brings what is available and
\* inbound up to the target, but for the fraction that int() drops, for any
\* stock, any minimum and any orders already under way, whatever came in between
\* the reads and whatever the replies left out.
THEOREM OrdersReachTheTarget == Spec => []BroughtToTarget
<1>1. RoundsInv => BroughtToTarget
  BY DEF RoundsInv, PlanInv, BroughtToTarget
<1> QED BY <1>1, RoundsHold, PTL

\* In whole quantities one order is enough: deciding again orders nothing while it
\* comes in, unless goods came in between the two reads or the replies left an
\* order out.  With fractions int() may leave a rest of less than one, which the
\* minimum then orders again.
THEOREM OneOrderIsEnough ==
  ASSUME Unit = 1
  PROVE  Spec => []Settles
<1>1. RoundsInv => Settles
  <2> SUFFICES ASSUME RoundsInv, placed > 0, Unlimited, plan.reorder_needed
               PROVE  uncounted > 0
    BY DEF Settles
  <2>1. /\ AvailableStock(item) \in Int /\ policy.target_stock \in Int
        /\ Position - uncounted < policy.target_stock
    BY DEF RoundsInv, PlanInv
  <2>2. Position > policy.target_stock - 1
    BY DEF RoundsInv, FilledInv
  <2>3. Position \in Int /\ uncounted \in Nat
    BY <2>1, PositionType DEF RoundsInv, TypeInv
  <2> QED BY <2>1, <2>2, <2>3
<1> QED BY <1>1, RoundsHold, PTL

\* Goods that arrive move from inbound to available and are counted once, in
\* whatever order the lines of whatever orders come in.
THEOREM ArrivalsAreCountedOnce == Spec => ArrivalMovesGoods
<1>1. RoundsInv /\ Arrive => Position' = Position
  BY ArriveStep DEF RoundsInv
<1>2. RoundsInv /\ [Next]_vars => [Arrive => Position' = Position]_vars
  BY <1>1
<1> QED BY <1>2, RoundsHold, PTL DEF Spec, ArrivalMovesGoods
=============================================================================
