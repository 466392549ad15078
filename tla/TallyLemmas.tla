----------------------------- MODULE TallyLemmas -----------------------------
(***************************************************************************)
(* What Tally adds up to: the facts the budget proofs cite.                *)
(***************************************************************************)
EXTENDS Tally, Integers, FiniteSetTheorems, TLAPS

\* The cardinalities of disjoint sets add up.
LEMMA DisjointUnion ==
    ASSUME NEW A, NEW B, IsFiniteSet(A), IsFiniteSet(B), A \cap B = {}
    PROVE  Cardinality(A \union B) = Cardinality(A) + Cardinality(B)
<1>1. Cardinality(A) \in Nat /\ Cardinality(B) \in Nat
    BY FS_CardinalityType
<1>2. Cardinality(A \union B) = Cardinality(A) + Cardinality(B) - Cardinality(A \cap B)
    BY FS_Union
<1>3. Cardinality(A \cap B) = 0
    BY FS_EmptySet
<1> QED BY <1>1, <1>2, <1>3

\* An element has as many coins as its value.
LEMMA CoinsOf ==
    ASSUME NEW f, NEW x, f[x] \in Nat
    PROVE  IsFiniteSet(Coins(f, x)) /\ Cardinality(Coins(f, x)) = f[x]
<1> DEFINE T == 1..f[x]
<1>1. IsFiniteSet({x}) /\ Cardinality({x}) = 1
    BY FS_Singleton
<1>2. IsFiniteSet(T) /\ Cardinality(T) = f[x]
  <2>1. /\ IsFiniteSet(1..f[x])
        /\ Cardinality(1..f[x]) = IF 1 > f[x] THEN 0 ELSE f[x] - 1 + 1
      BY 1 \in Int, f[x] \in Int, FS_Interval, Zenon
  <2>2. (IF 1 > f[x] THEN 0 ELSE f[x] - 1 + 1) = f[x]
      OBVIOUS
  <2> QED BY <2>1, <2>2
<1> HIDE DEF T
<1>3. IsFiniteSet({x} \X T) /\ Cardinality({x} \X T) = Cardinality({x}) * Cardinality(T)
    BY <1>1, <1>2, FS_Product
<1>4. Cardinality({x} \X T) = f[x]
    BY <1>1, <1>2, <1>3
<1> QED BY <1>3, <1>4 DEF Coins, T

\* The coins of finitely many elements are finitely many, so a tally is a number.
LEMMA TallyType ==
    ASSUME NEW S, IsFiniteSet(S), NEW f, \A x \in S : f[x] \in Nat
    PROVE  /\ IsFiniteSet(UNION {Coins(f, x) : x \in S})
           /\ Tally(f, S) \in Nat
<1> DEFINE purses == {Coins(f, x) : x \in S}
           purse == [x \in S |-> Coins(f, x)]
<1>1. IsFiniteSet(purses)
  <2>1. purse \in Surjection(S, purses)
      BY DEF Surjection
  <2> HIDE DEF purse, purses
  <2> QED BY <2>1, FS_Surjection, Zenon
<1>2. \A p \in purses : IsFiniteSet(p)
    BY CoinsOf
<1>3. IsFiniteSet(UNION purses)
    BY <1>1, <1>2, FS_UNION
<1> QED BY <1>3, FS_CardinalityType DEF Tally

\* Nothing adds up to zero.
LEMMA TallyEmpty == ASSUME NEW f PROVE Tally(f, {}) = 0
<1>1. UNION {Coins(f, x) : x \in {}} = {}
    OBVIOUS
<1> QED BY <1>1, FS_EmptySet DEF Tally

\* A new element adds its value.
LEMMA TallyAdd ==
    ASSUME NEW S, IsFiniteSet(S), NEW x, x \notin S, NEW f, f[x] \in Nat, \A y \in S : f[y] \in Nat
    PROVE  Tally(f, S \union {x}) = Tally(f, S) + f[x]
<1> DEFINE old == UNION {Coins(f, y) : y \in S}
<1>1. IsFiniteSet(old)
    BY TallyType
<1>2. IsFiniteSet(Coins(f, x)) /\ Cardinality(Coins(f, x)) = f[x]
    BY CoinsOf
<1>3. old \cap Coins(f, x) = {}
    BY DEF Coins
<1>4. UNION {Coins(f, y) : y \in S \union {x}} = old \union Coins(f, x)
    OBVIOUS
<1>5. Cardinality(old \union Coins(f, x)) = Cardinality(old) + Cardinality(Coins(f, x))
    BY <1>1, <1>2, <1>3, DisjointUnion
<1> QED BY <1>2, <1>4, <1>5 DEF Tally

\* Taking an element out subtracts its value.
LEMMA TallyRemove ==
    ASSUME NEW S, IsFiniteSet(S), NEW x \in S, NEW f, \A y \in S : f[y] \in Nat
    PROVE  /\ Tally(f, S) = Tally(f, S \ {x}) + f[x]
           /\ Tally(f, S \ {x}) \in Nat
<1>1. IsFiniteSet(S \ {x}) /\ (S \ {x}) \union {x} = S
    BY FS_RemoveElement
<1>2. Tally(f, (S \ {x}) \union {x}) = Tally(f, S \ {x}) + f[x]
    BY <1>1, TallyAdd
<1> QED BY <1>1, <1>2, TallyType

\* A tally depends on the values at the elements counted, and nothing else.
LEMMA TallySame ==
    ASSUME NEW S, NEW f, NEW g, \A x \in S : f[x] = g[x]
    PROVE  Tally(f, S) = Tally(g, S)
<1>1. {Coins(f, x) : x \in S} = {Coins(g, x) : x \in S}
    BY DEF Coins
<1> QED BY <1>1 DEF Tally

\* A part adds up to no more than the whole.
LEMMA TallySubset ==
    ASSUME NEW S, IsFiniteSet(S), NEW T, T \subseteq S, NEW f, \A x \in S : f[x] \in Nat
    PROVE  Tally(f, T) <= Tally(f, S)
<1>1. UNION {Coins(f, x) : x \in T} \subseteq UNION {Coins(f, x) : x \in S}
    OBVIOUS
<1>2. IsFiniteSet(UNION {Coins(f, x) : x \in S})
    BY TallyType
<1> QED BY <1>1, <1>2, FS_Subset DEF Tally

\* f has natural values on S; f and g differ on S at most at x.  Named so that a
\* proof can cite TallyUpdate without the provers opening them.
NatOn(f, S) == \A y \in S : f[y] \in Nat
SameBut(f, g, S, x) == \A y \in S : y # x => g[y] = f[y]

\* Changing one value moves the tally by the difference.
LEMMA TallyUpdate ==
    ASSUME NEW S, IsFiniteSet(S), NEW f, NatOn(f, S), NEW g, NatOn(g, S),
           NEW x \in S, SameBut(f, g, S, x)
    PROVE  Tally(g, S) = Tally(f, S) - f[x] + g[x]
<1> USE DEF NatOn, SameBut
<1>1. Tally(f, S) = Tally(f, S \ {x}) + f[x] /\ Tally(f, S \ {x}) \in Nat
    BY TallyRemove
<1>2. Tally(g, S) = Tally(g, S \ {x}) + g[x]
    BY TallyRemove
<1>3. Tally(f, S \ {x}) = Tally(g, S \ {x})
    BY TallySame
<1> QED BY <1>1, <1>2, <1>3

\* One element counts for no more than all of them.
LEMMA TallyMember ==
    ASSUME NEW S, IsFiniteSet(S), NEW x \in S, NEW f, \A y \in S : f[y] \in Nat
    PROVE  f[x] <= Tally(f, S)
<1>1. Tally(f, S) = Tally(f, S \ {x}) + f[x] /\ Tally(f, S \ {x}) \in Nat
    BY TallyRemove
<1> QED BY <1>1

\* Zeros add up to zero.
LEMMA TallyZero == ASSUME NEW S, NEW f, \A x \in S : f[x] = 0 PROVE Tally(f, S) = 0
<1>1. \A x \in S : Coins(f, x) = {}
    BY DEF Coins
<1>2. UNION {Coins(f, x) : x \in S} = {}
    BY <1>1
<1> QED BY <1>2, FS_EmptySet DEF Tally

\* A tally moves with the one value that changes, and not at all when that is
\* not a value it counts.
LEMMA TallyStep ==
    ASSUME NEW C, IsFiniteSet(C), NEW S \in SUBSET C, NEW f, NatOn(f, C), NEW g, NatOn(g, C),
           NEW x \in C, SameBut(f, g, C, x)
    PROVE  /\ x \notin S \/ g[x] = f[x] => Tally(g, S) = Tally(f, S)
           /\ x \in S /\ g[x] = f[x] + 1 => Tally(g, S) = Tally(f, S) + 1
           /\ Tally(f, S) \in Nat
<1>1. IsFiniteSet(S) /\ NatOn(f, S) /\ NatOn(g, S) /\ SameBut(f, g, S, x)
    BY FS_Subset DEF NatOn, SameBut
<1>2. x \notin S \/ g[x] = f[x] => Tally(g, S) = Tally(f, S)
    BY <1>1, TallySame DEF SameBut
<1>3. Tally(f, S) \in Nat
    BY <1>1, TallyType DEF NatOn
<1>4. x \in S /\ g[x] = f[x] + 1 => Tally(g, S) = Tally(f, S) + 1
  <2>1. f[x] \in Nat
      BY DEF NatOn
  <2> QED BY <1>1, <1>3, <2>1, TallyUpdate
<1> QED BY <1>2, <1>3, <1>4

\* Larger values have the larger tally.
LEMMA TallyMonotone ==
    ASSUME NEW S, IsFiniteSet(S), NEW f, NatOn(f, S), NEW g, NatOn(g, S), \A x \in S : f[x] <= g[x]
    PROVE  Tally(f, S) <= Tally(g, S)
<1> USE DEF NatOn
<1>1. \A x \in S : Coins(f, x) \subseteq Coins(g, x)
    BY DEF Coins
<1>2. UNION {Coins(f, x) : x \in S} \in SUBSET UNION {Coins(g, x) : x \in S}
    BY <1>1
<1>3. IsFiniteSet(UNION {Coins(g, x) : x \in S})
    BY TallyType
<1> QED BY <1>2, <1>3, FS_Subset DEF Tally

=============================================================================
