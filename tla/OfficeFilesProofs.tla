-------------------------- MODULE OfficeFilesProofs --------------------------
(***************************************************************************)
(* What OfficeFiles promises, for every scenario: every extraction is      *)
(* faithful, every document survives its trips and settles, every lossless *)
(* report is true, every package is closed and every undo restores.        *)
(*                                                                         *)
(* The invariant HostInv says what the host holds: a document, edits built *)
(* on documents, a file some program wrote and, where the host exported    *)
(* it, that it is the encoding of what was sent; and, where a document     *)
(* came back and is not edited since, that some trip made it.  The steps   *)
(* rest on what a conversion and its inverse do to a value, a cell, a      *)
(* sheet, a block, a slide and a deck, format by format: each format has a *)
(* lemma ...File (what it writes is a file), ...ReadTyped (what it reads   *)
(* is a document), ...Trip (what comes back) and ...Unchanged (what comes  *)
(* back comes back again).                                                 *)
(***************************************************************************)
EXTENDS OfficeFiles, SequenceTheorems, FiniteSetTheorems, FunctionTheorems,
        WellFoundedInduction, TLAPS

(***************************************************************************)
(* Finite sets                                                             *)
(***************************************************************************)
LEMMA LeastNatural ==
    ASSUME NEW S \in SUBSET Nat, S # {}
    PROVE  \E m \in S : \A y \in S : m <= y
<1>1. PICK m \in S : \A y \in S : ~(<<y, m>> \in OpToRel(<, Nat))
  BY NatLessThanWellFounded, WFMin
<1>2. \A y \in S : ~(y < m)
  BY <1>1 DEF OpToRel
<1> QED
  BY <1>2

LEMMA MinimalMember ==
    ASSUME NEW S, IsFiniteSet(S), NEW T \in SUBSET SUBSET S, T # {}
    PROVE  \E A \in T : \A B \in T : B \subseteq A => B = A
<1>. DEFINE sizes == {Cardinality(A) : A \in T}
<1>1. \A A \in T : IsFiniteSet(A) /\ Cardinality(A) \in Nat
  BY FS_Subset, FS_CardinalityType
<1>2. sizes \in SUBSET Nat /\ sizes # {}
  BY <1>1
<1>3. PICK least \in sizes : \A s \in sizes : least <= s
  <2>. HIDE DEF sizes
  <2> QED
    BY <1>2, LeastNatural
<1>4. PICK A \in T : least = Cardinality(A)
  OBVIOUS
<1>5. ASSUME NEW B \in T, B \subseteq A PROVE B = A
  <2>1. Cardinality(A) <= Cardinality(B)
    BY <1>3, <1>4
  <2>2. Cardinality(B) <= Cardinality(A) /\ (Cardinality(A) = Cardinality(B) => A = B)
    BY <1>1, <1>5, FS_Subset
  <2> QED
    BY <1>1, <2>1, <2>2
<1> QED
  BY <1>5

(***************************************************************************)
(* Sums                                                                    *)
(***************************************************************************)
SumTurn(f, G, s) ==
    IF s = {} THEN 0 ELSE f[CHOOSE x \in s : TRUE] + G[s \ {CHOOSE x \in s : TRUE}]

LEMMA SumByTurns ==
    ASSUME NEW f, NEW S
    PROVE  SumFunctionOnSet(f, S)
              = (CHOOSE G : G = [s \in SUBSET S |-> SumTurn(f, G, s)])[S]
  BY DEF SumFunctionOnSet, FoldFunctionOnSet, MapThenFoldSet, SumTurn

\* A recursion on sets has a solution: each turn is right for one member more.
LEMMA SumSolved ==
    ASSUME NEW f, NEW S, IsFiniteSet(S)
    PROVE  \E G : G = [s \in SUBSET S |-> SumTurn(f, G, s)]
<1>. DEFINE Right(G, n) == \A s \in SUBSET S : Cardinality(s) < n => G[s] = SumTurn(f, G, s)
            wrong == {n \in Nat : ~ \E G : Right(G, n)}
            Next1(G) == [s \in SUBSET S |-> SumTurn(f, G, s)]
<1>1. \A s \in SUBSET S : IsFiniteSet(s) /\ Cardinality(s) \in Nat
  BY FS_Subset, FS_CardinalityType
<1>2. ASSUME NEW G, NEW n \in Nat, Right(G, n) PROVE Right(Next1(G), n + 1)
  <2> SUFFICES ASSUME NEW s \in SUBSET S, Cardinality(s) < n + 1
               PROVE  SumTurn(f, G, s) = SumTurn(f, Next1(G), s)
    OBVIOUS
  <2>1. CASE s = {}
    BY <2>1 DEF SumTurn
  <2>2. CASE s # {}
    <3>1. PICK x \in s : x = CHOOSE y \in s : TRUE
      BY <2>2
    <3>2. Cardinality(s \ {x}) = Cardinality(s) - 1 /\ s \ {x} \in SUBSET S
      BY <1>1, <3>1, FS_RemoveElement
    <3>3. G[s \ {x}] = Next1(G)[s \ {x}]
      BY <1>1, <1>2, <3>2
    <3>. HIDE DEF Next1
    <3> QED
      BY <2>2, <3>1, <3>3 DEF SumTurn
  <2> QED
    BY <2>1, <2>2
<1>3. wrong = {}
  <2>1. SUFFICES ASSUME wrong # {} PROVE FALSE
    OBVIOUS
  <2>2. wrong \in SUBSET Nat
    OBVIOUS
  <2>3. PICK n \in wrong : \A m \in wrong : n <= m
    <3>. HIDE DEF wrong
    <3> QED
      BY <2>1, <2>2, LeastNatural
  <2>4. CASE n = 0
    <3>1. Right([s \in SUBSET S |-> 0], 0)
      BY <1>1
    <3>. HIDE DEF Right
    <3> QED
      BY <2>4, <3>1
  <2>5. CASE n # 0
    <3>1. n - 1 \in Nat /\ n - 1 \notin wrong /\ n = (n - 1) + 1
      BY <2>3, <2>5
    <3>. HIDE DEF Right, Next1
    <3>2. PICK G : Right(G, n - 1)
      BY <3>1
    <3>3. Right(Next1(G), (n - 1) + 1)
      BY <1>2, <3>1, <3>2
    <3> QED
      BY <3>1, <3>3
  <2> QED
    BY <2>4, <2>5
<1>4. Cardinality(S) + 1 \in Nat /\ Cardinality(S) \in Nat
  BY FS_CardinalityType
<1>5. PICK G : Right(G, Cardinality(S) + 1)
  <2>. HIDE DEF Right
  <2> QED
    BY <1>3, <1>4
<1>6. \A s \in SUBSET S : G[s] = SumTurn(f, G, s)
  <2> SUFFICES ASSUME NEW s \in SUBSET S PROVE Cardinality(s) < Cardinality(S) + 1
    BY <1>5
  <2> QED
    BY <1>1, <1>4, FS_Subset
<1>7. Next1(G) = Next1(Next1(G))
  <2>1. ASSUME NEW s \in SUBSET S PROVE SumTurn(f, G, s) = SumTurn(f, Next1(G), s)
    <3>1. CASE s = {}
      BY <3>1 DEF SumTurn
    <3>2. CASE s # {}
      <4>1. PICK x \in s : x = CHOOSE y \in s : TRUE
        BY <3>2
      <4>2. s \ {x} \in SUBSET S
        OBVIOUS
      <4>3. G[s \ {x}] = Next1(G)[s \ {x}]
        BY <1>6, <4>2
      <4>. HIDE DEF Next1
      <4> QED
        BY <3>2, <4>1, <4>3 DEF SumTurn
    <3> QED
      BY <3>1, <3>2
  <2> QED
    BY <2>1
<1> QED
  BY <1>7

LEMMA SumIsInteger ==
    ASSUME NEW S, IsFiniteSet(S), NEW f, \A x \in S : f[x] \in Int
    PROVE  SumFunctionOnSet(f, S) \in Int
<1>. DEFINE P(G) == G = [s \in SUBSET S |-> SumTurn(f, G, s)]
<1>1. PICK G : G = (CHOOSE H : P(H)) /\ P(G)
  <2>1. \E H : P(H)
    BY SumSolved
  <2> QED
    BY <2>1
<1>2. SumFunctionOnSet(f, S) = G[S]
  BY <1>1, SumByTurns
<1>. DEFINE bad == {s \in SUBSET S : G[s] \notin Int}
<1>3. SUFFICES ASSUME bad # {} PROVE FALSE
  BY <1>2
<1>4. PICK s \in bad : \A t \in bad : t \subseteq s => t = s
  <2>1. bad \in SUBSET SUBSET S
    OBVIOUS
  <2>. HIDE DEF bad
  <2> QED
    BY <1>3, <2>1, MinimalMember
<1>5. G[s] = SumTurn(f, G, s)
  <2>. HIDE DEF SumTurn
  <2> QED
    BY <1>1
<1>6. s # {}
  BY <1>4, <1>5 DEF SumTurn
<1>7. PICK x \in s : x = CHOOSE y \in s : TRUE
  BY <1>6
<1>8. G[s \ {x}] \in Int
  BY <1>4, <1>7
<1> QED
  BY <1>4, <1>5, <1>6, <1>7, <1>8 DEF SumTurn


Turns(f, F, S) == F = [s \in SUBSET S |-> SumTurn(f, F, s)]

\* The sum of a part of a set does not depend on the rest of the set.
LEMMA SumsAgree ==
    ASSUME NEW S, NEW T, IsFiniteSet(S), IsFiniteSet(T), NEW f, NEW g,
           S \subseteq T, \A x \in S : f[x] = g[x],
           NEW F, Turns(f, F, S), NEW G, Turns(g, G, T)
    PROVE  F[S] = G[S]
<1>. DEFINE bad == {s \in SUBSET S : F[s] # G[s]}
<1>1. SUFFICES ASSUME bad # {} PROVE FALSE
  OBVIOUS
<1>2. PICK s \in bad : \A t \in bad : t \subseteq s => t = s
  <2>1. bad \in SUBSET SUBSET S
    OBVIOUS
  <2>. HIDE DEF bad
  <2> QED
    BY <1>1, <2>1, MinimalMember
<1>3. s \in SUBSET S /\ s \in SUBSET T
  OBVIOUS
<1>4. F[s] = SumTurn(f, F, s) /\ G[s] = SumTurn(g, G, s)
  <2>. HIDE DEF SumTurn
  <2> QED
    BY <1>3 DEF Turns
<1>5. s # {}
  BY <1>2, <1>4 DEF SumTurn
<1>6. PICK x \in s : x = CHOOSE y \in s : TRUE
  BY <1>5
<1>7. F[s \ {x}] = G[s \ {x}]
  BY <1>2, <1>6
<1> QED
  BY <1>2, <1>3, <1>4, <1>5, <1>6, <1>7 DEF SumTurn

LEMMA SumFunctionIs ==
    ASSUME NEW f, NEW S, IsFiniteSet(S)
    PROVE  \E G : Turns(f, G, S) /\ SumFunctionOnSet(f, S) = G[S]
<1>. DEFINE P(G) == G = [s \in SUBSET S |-> SumTurn(f, G, s)]
<1>1. PICK G : G = (CHOOSE H : P(H)) /\ P(G)
  <2>1. \E H : P(H)
    BY SumSolved
  <2> QED
    BY <2>1
<1>2. SumFunctionOnSet(f, S) = G[S]
  BY <1>1, SumByTurns
<1> QED
  BY <1>1, <1>2 DEF Turns

LEMMA SumCongruent ==
    ASSUME NEW S, IsFiniteSet(S), NEW f, NEW g, \A x \in S : f[x] = g[x]
    PROVE  SumFunctionOnSet(f, S) = SumFunctionOnSet(g, S)
<1>1. PICK F : Turns(f, F, S) /\ SumFunctionOnSet(f, S) = F[S]
  BY SumFunctionIs
<1>2. PICK G : Turns(g, G, S) /\ SumFunctionOnSet(g, S) = G[S]
  BY SumFunctionIs
<1>3. F[S] = G[S]
  BY <1>1, <1>2, SumsAgree
<1> QED
  BY <1>1, <1>2, <1>3

LEMMA SumOfNone == ASSUME NEW f PROVE SumFunctionOnSet(f, {}) = 0
<1>1. PICK F : Turns(f, F, {}) /\ SumFunctionOnSet(f, {}) = F[{}]
  BY SumFunctionIs, FS_EmptySet
<1>2. F[{}] = SumTurn(f, F, {})
  <2>1. {} \in SUBSET {}
    OBVIOUS
  <2>. HIDE DEF SumTurn
  <2> QED
    BY <1>1, <2>1 DEF Turns
<1> QED
  BY <1>1, <1>2 DEF SumTurn

\* The member the fold takes first.
LEMMA SumOfFirst ==
    ASSUME NEW S, IsFiniteSet(S), S # {}, NEW f
    PROVE  \E x \in S : SumFunctionOnSet(f, S) = f[x] + SumFunctionOnSet(f, S \ {x})
<1>1. PICK F : Turns(f, F, S) /\ SumFunctionOnSet(f, S) = F[S]
  BY SumFunctionIs
<1>2. PICK x \in S : x = CHOOSE y \in S : TRUE
  OBVIOUS
<1>3. F[S] = SumTurn(f, F, S)
  <2>1. S \in SUBSET S
    OBVIOUS
  <2>. HIDE DEF SumTurn
  <2> QED
    BY <1>1, <2>1 DEF Turns
<1>4. F[S] = f[x] + F[S \ {x}]
  BY <1>2, <1>3 DEF SumTurn
<1>. DEFINE T == S \ {x}
<1>5. IsFiniteSet(T) /\ T \subseteq S
  BY FS_Subset
<1>6. PICK G : Turns(f, G, T) /\ SumFunctionOnSet(f, T) = G[T]
  BY <1>5, SumFunctionIs
<1>7. G[T] = F[T]
  <2>. HIDE DEF T, SumTurn
  <2> QED
    BY <1>1, <1>5, <1>6, SumsAgree
<1> QED
  BY <1>1, <1>4, <1>6, <1>7

\* Any member may be taken first.
LEMMA SumOfMember ==
    ASSUME NEW S, IsFiniteSet(S), NEW f, \A y \in S : f[y] \in Int, NEW x \in S
    PROVE  SumFunctionOnSet(f, S) = f[x] + SumFunctionOnSet(f, S \ {x})
<1>. DEFINE AnyFirst(T) == \A z \in T : SumFunctionOnSet(f, T) = f[z] + SumFunctionOnSet(f, T \ {z})
            bad == {T \in SUBSET S : ~AnyFirst(T)}
<1>1. SUFFICES ASSUME bad # {} PROVE FALSE
  OBVIOUS
<1>2. PICK T \in bad : \A U \in bad : U \subseteq T => U = T
  <2>1. bad \in SUBSET SUBSET S
    OBVIOUS
  <2>. HIDE DEF bad
  <2> QED
    BY <1>1, <2>1, MinimalMember
<1>3. PICK z \in T : SumFunctionOnSet(f, T) # f[z] + SumFunctionOnSet(f, T \ {z})
  BY <1>2
<1>4. \A U \in SUBSET S : IsFiniteSet(U) /\ SumFunctionOnSet(f, U) \in Int
  BY FS_Subset, SumIsInteger
<1>5. PICK c \in T : SumFunctionOnSet(f, T) = f[c] + SumFunctionOnSet(f, T \ {c})
  BY <1>3, <1>4, SumOfFirst
<1>6. c # z
  BY <1>3, <1>5
<1>7. SumFunctionOnSet(f, T \ {c}) = f[z] + SumFunctionOnSet(f, (T \ {c}) \ {z})
  <2>1. AnyFirst(T \ {c})
    BY <1>2, <1>5
  <2> QED
    BY <1>6, <2>1
<1>8. SumFunctionOnSet(f, T \ {z}) = f[c] + SumFunctionOnSet(f, (T \ {z}) \ {c})
  <2>1. AnyFirst(T \ {z})
    BY <1>2, <1>3
  <2> QED
    BY <1>6, <2>1
<1>9. (T \ {c}) \ {z} = (T \ {z}) \ {c}
  OBVIOUS
<1>10. SumFunctionOnSet(f, (T \ {c}) \ {z}) \in Int /\ f[z] \in Int /\ f[c] \in Int
  <2>1. (T \ {c}) \ {z} \in SUBSET S
    BY <1>2
  <2> QED
    BY <1>2, <1>4, <2>1
<1>. DEFINE rest == SumFunctionOnSet(f, (T \ {c}) \ {z})
<1>11. SumFunctionOnSet(f, T) = f[c] + (f[z] + rest)
  BY <1>5, <1>7
<1>12. SumFunctionOnSet(f, T \ {z}) = f[c] + rest
  BY <1>8, <1>9
<1>13. SumFunctionOnSet(f, T) = f[z] + (f[c] + rest)
  <2>. HIDE DEF rest, bad
  <2> QED
    BY <1>10, <1>11 DEF rest
<1> QED
  BY <1>3, <1>12, <1>13

(***************************************************************************)
(* Archives                                                                *)
(***************************************************************************)
LEMMA MinOfTwo ==
    ASSUME NEW a \in Int, NEW b \in Int
    PROVE  Min({a, b}) \in {a, b} /\ Min({a, b}) <= a /\ Min({a, b}) <= b
<1>1. \E x \in {a, b} : \A y \in {a, b} : x <= y
  OBVIOUS
<1>2. Min({a, b}) \in {a, b} /\ \A y \in {a, b} : Min({a, b}) <= y
  BY <1>1, Zenon DEF Min
<1> QED
  BY <1>2

LEMMA MaxOfTwo ==
    ASSUME NEW a \in Int, NEW b \in Int
    PROVE  Max({a, b}) \in {a, b} /\ Max({a, b}) >= a /\ Max({a, b}) >= b
<1>1. \E x \in {a, b} : \A y \in {a, b} : x >= y
  OBVIOUS
<1>2. Max({a, b}) \in {a, b} /\ \A y \in {a, b} : Max({a, b}) >= y
  BY <1>1, Zenon DEF Max
<1> QED
  BY <1>2

\* The reader may stop one byte past the least limit, never later; a limit that
\* saturates is as much as can be counted.
LEMMA ReadLimitOf ==
    ASSUME NEW l, l.entry \in 0..MaxWord, l.total \in 0..MaxWord,
           NEW total \in Nat, total <= l.total
    PROVE  LET most == ReadLimit(total, l)
           IN /\ most \in Nat
              /\ most <= l.entry + 1 /\ most <= l.total - total + 1
              /\ most \in {MaxWord, l.entry + 1, l.total - total + 1}
<1>1. MaxWord \in Nat
  BY MaxWordAssumption
<1>0. l.entry \in Nat /\ l.total \in Nat /\ l.total - total \in Nat
  BY <1>1
<1>2. Max({0, l.total - total}) = l.total - total
  <2>. DEFINE left == l.total - total
  <2>1. left \in Int /\ left >= 0 /\ 0 \in Int
    BY <1>0
  <2>. HIDE DEF left
  <2>2. Max({0, left}) \in {0, left} /\ Max({0, left}) >= left
    BY <2>1, MaxOfTwo
  <2>3. Max({0, left}) = left
    BY <2>1, <2>2
  <2> QED
    BY <2>3 DEF left
<1>. DEFINE byEntry == Min({l.entry + 1, MaxWord})
            byTotal == Min({l.total - total + 1, MaxWord})
<1>3. /\ byEntry \in Nat /\ byEntry <= l.entry + 1 /\ byEntry \in {MaxWord, l.entry + 1}
      /\ byTotal \in Nat /\ byTotal <= l.total - total + 1
      /\ byTotal \in {MaxWord, l.total - total + 1}
  <2>1. l.entry + 1 \in Nat /\ l.total - total + 1 \in Nat
    BY <1>0
  <2>. DEFINE e == l.entry + 1
              t == l.total - total + 1
  <2>2. e \in Int /\ t \in Int /\ MaxWord \in Int
    BY <1>1, <2>1
  <2>. HIDE DEF e, t
  <2>3. /\ Min({e, MaxWord}) \in {e, MaxWord} /\ Min({e, MaxWord}) <= e
        /\ Min({t, MaxWord}) \in {t, MaxWord} /\ Min({t, MaxWord}) <= t
    BY <2>2, MinOfTwo
  <2> QED
    BY <1>1, <2>1, <2>3 DEF e, t
<1>4. ReadLimit(total, l) = Min({byEntry, byTotal})
  BY <1>2 DEF ReadLimit, Saturated
<1>. HIDE DEF byEntry, byTotal
<1>5. Min({byEntry, byTotal}) \in {byEntry, byTotal} /\ Min({byEntry, byTotal}) <= byEntry
      /\ Min({byEntry, byTotal}) <= byTotal
  <2>1. byEntry \in Int /\ byTotal \in Int
    BY <1>3
  <2> QED
    BY <2>1, MinOfTwo
<1>6. Min({byEntry, byTotal}) \in Nat
  BY <1>3, <1>5
<1>7. /\ Min({byEntry, byTotal}) <= l.entry + 1 /\ Min({byEntry, byTotal}) <= l.total - total + 1
  BY <1>0, <1>3, <1>5, <1>6
<1> QED
  BY <1>3, <1>4, <1>5, <1>6, <1>7

ArchiveTyped ==
    /\ Len(archive) \in Nat
    /\ \A i \in 1..Len(archive) :
          archive[i].dir \in BOOLEAN /\ archive[i].actual \in 0..MaxWord
    /\ limits.entry \in 0..MaxWord /\ limits.total \in 0..MaxWord

\* Nothing is kept but whole entries, of each name the last.
Whole(kept, n) ==
    \A i \in 1..n :
       ~archive[i].dir /\ (\A j \in (i + 1)..n : archive[j].name # archive[i].name)
       => archive[i].name \in DOMAIN kept /\ kept[archive[i].name] = archive[i].actual

Sized(kept, total) ==
    /\ IsFiniteSet(DOMAIN kept)
    /\ \A n \in DOMAIN kept : kept[n] \in Nat
    /\ SumFunctionOnSet(kept, DOMAIN kept) <= total

InLimits(buffer, total) ==
    /\ buffer <= Min({limits.entry, limits.total}) + 1
    /\ total <= limits.total

ExtractionOK ==
    /\ extraction \in [status: {"reading", "refused"}, next: Nat \ {0}, total: Nat, buffer: Nat,
                       kept: {extraction.kept}]
    /\ extraction.next <= Len(archive) + 1
    /\ InLimits(extraction.buffer, extraction.total)
    /\ Sized(extraction.kept, extraction.total)
    /\ extraction.status = "reading" => Whole(extraction.kept, extraction.next - 1)

\* What one entry adds to what is kept: never more than it adds to the total,
\* also where its name was kept before.
LEMMA KeepOne ==
    ASSUME NEW kept, NEW total \in Nat, Sized(kept, total), NEW name, NEW read \in Nat,
           NEW more, more = [n \in DOMAIN kept \cup {name} |-> IF n = name THEN read ELSE kept[n]]
    PROVE  Sized(more, total + read)
<1>. DEFINE D == DOMAIN kept
            E == D \cup {name}
<1>1. IsFiniteSet(D) /\ IsFiniteSet(E) /\ IsFiniteSet(D \ {name})
  BY FS_AddElement, FS_Subset DEF Sized
<1>2. DOMAIN more = E /\ \A n \in E : more[n] \in Nat
  BY DEF Sized
<1>3. SumFunctionOnSet(more, E) = read + SumFunctionOnSet(more, E \ {name})
  <2>1. more[name] = read /\ name \in E /\ \A n \in E : more[n] \in Int
    BY <1>2
  <2>. HIDE DEF E
  <2> QED
    BY <1>1, <2>1, SumOfMember
<1>4. E \ {name} = D \ {name}
  OBVIOUS
<1>5. SumFunctionOnSet(more, D \ {name}) = SumFunctionOnSet(kept, D \ {name})
  <2>1. \A n \in D \ {name} : more[n] = kept[n]
    OBVIOUS
  <2>. HIDE DEF D
  <2> QED
    BY <1>1, <2>1, SumCongruent
<1>6. SumFunctionOnSet(kept, D) \in Int /\ SumFunctionOnSet(kept, D \ {name}) \in Int
  BY <1>1, SumIsInteger DEF Sized
<1>7. SumFunctionOnSet(kept, D \ {name}) <= SumFunctionOnSet(kept, D)
  <2>1. CASE name \in D
    <3>1. kept[name] \in Nat /\ \A n \in D : kept[n] \in Int
      BY <2>1 DEF Sized
    <3>2. SumFunctionOnSet(kept, D) = kept[name] + SumFunctionOnSet(kept, D \ {name})
      <4>. HIDE DEF D
      <4> QED
        BY <1>1, <2>1, <3>1, SumOfMember
    <3> QED
      BY <1>6, <3>1, <3>2
  <2>2. CASE name \notin D
    <3>1. D \ {name} = D
      BY <2>2
    <3> QED
      BY <1>6, <3>1
  <2> QED
    BY <2>1, <2>2
<1>8. SumFunctionOnSet(more, E) <= total + read
  <2>1. SumFunctionOnSet(kept, D) <= total
    BY DEF Sized
  <2>2. SumFunctionOnSet(more, E) = read + SumFunctionOnSet(kept, D \ {name})
    BY <1>3, <1>4, <1>5
  <2>. HIDE DEF D, E
  <2> QED
    BY <1>6, <1>7, <2>1, <2>2
<1> QED
  BY <1>1, <1>2, <1>8 DEF Sized

LEMMA WholeOne ==
    ASSUME ArchiveTyped, NEW k \in 1..Len(archive), ~archive[k].dir, NEW kept, Whole(kept, k - 1),
           NEW more, more = [n \in DOMAIN kept \cup {archive[k].name} |->
                                IF n = archive[k].name THEN archive[k].actual ELSE kept[n]]
    PROVE  Whole(more, k)
<1> SUFFICES ASSUME NEW i \in 1..k, ~archive[i].dir,
                    \A j \in (i + 1)..k : archive[j].name # archive[i].name
             PROVE  /\ archive[i].name \in DOMAIN more
                    /\ more[archive[i].name] = archive[i].actual
  BY DEF Whole
<1>1. Len(archive) \in Nat
  BY DEF ArchiveTyped
<1>2. CASE i = k
  BY <1>2
<1>3. CASE i # k
  <2>1. i \in 1..(k - 1) /\ k \in (i + 1)..k
    BY <1>1, <1>3
  <2>2. \A j \in (i + 1)..(k - 1) : archive[j].name # archive[i].name
    BY <1>1
  <2>3. archive[k].name # archive[i].name
    BY <2>1
  <2>4. archive[i].name \in DOMAIN kept /\ kept[archive[i].name] = archive[i].actual
    BY <2>1, <2>2 DEF Whole
  <2> QED
    BY <2>3, <2>4
<1> QED
  BY <1>2, <1>3

LEMMA BeginningFields ==
    ASSUME NEW x \in {Beginning, Failing(Beginning, 0)}
    PROVE  /\ x.next = 1 /\ x.total = 0 /\ x.buffer = 0 /\ x.kept = <<>>
           /\ x \in [status: {"reading", "refused"}, next: Nat \ {0}, total: Nat, buffer: Nat,
                     kept: {x.kept}]
<1>1. PICK s \in {"reading", "refused"} :
          x = [status |-> s, next |-> 1, total |-> 0, buffer |-> 0, kept |-> <<>>]
  BY DEF Beginning, Failing, Extraction
<1>2. x.kept = <<>>
  BY <1>1
<1>3. x \in [status: {"reading", "refused"}, next: Nat \ {0}, total: Nat, buffer: Nat, kept: {<<>>}]
  BY <1>1
<1> QED
  BY <1>1, <1>2, <1>3

LEMMA NothingKept == Sized(<<>>, 0)
<1>1. DOMAIN <<>> = {}
  OBVIOUS
<1> QED
  BY <1>1, SumOfNone, FS_EmptySet DEF Sized

LEMMA LeastOfLimits ==
    ASSUME NEW l, l.entry \in Nat, l.total \in Nat
    PROVE  0 <= Min({l.entry, l.total}) + 1
<1>1. l.entry \in Int /\ l.total \in Int
  OBVIOUS
<1>2. Min({l.entry, l.total}) \in {l.entry, l.total}
  BY <1>1, MinOfTwo
<1> QED
  BY <1>2

LEMMA ExtractOK == ASSUME ArchiveTyped, ExtractionOK, Extract PROVE ExtractionOK'
<1>. DEFINE entry == archive[extraction.next]
            most == ReadLimit(extraction.total, limits)
            read == Min({entry.actual, most})
            kept == [n \in DOMAIN extraction.kept \cup {entry.name} |->
                        IF n = entry.name THEN read ELSE extraction.kept[n]]
<1>1. /\ extraction.status = "reading" /\ extraction.next \in 1..Len(archive)
      /\ extraction' = ExtractEntry(extraction, archive, limits)
      /\ archive' = archive /\ limits' = limits
      /\ Len(archive) \in Nat
  BY DEF Extract, ExtractionOK, ArchiveTyped
<1>2. /\ extraction.total \in Nat /\ extraction.buffer \in Nat
      /\ extraction.total <= limits.total /\ Sized(extraction.kept, extraction.total)
      /\ Whole(extraction.kept, extraction.next - 1)
      /\ limits.entry \in 0..MaxWord /\ limits.total \in 0..MaxWord /\ MaxWord \in Nat
      /\ entry.actual \in 0..MaxWord /\ entry.dir \in BOOLEAN
  BY <1>1, MaxWordAssumption DEF ExtractionOK, ArchiveTyped, InLimits
<1>3. /\ most \in Nat /\ most <= limits.entry + 1 /\ most <= limits.total - extraction.total + 1
      /\ most \in {MaxWord, limits.entry + 1, limits.total - extraction.total + 1}
  BY <1>2, ReadLimitOf
<1>. HIDE DEF most
<1>4. read \in {entry.actual, most} /\ read <= most /\ read <= entry.actual /\ read \in Nat
  <2>1. entry.actual \in Int /\ most \in Int /\ entry.actual \in Nat
    BY <1>2, <1>3
  <2>. DEFINE actual == entry.actual
  <2>. HIDE DEF actual
  <2>2. actual \in Int
    BY <2>1 DEF actual
  <2>3. Min({actual, most}) \in {actual, most} /\ Min({actual, most}) <= most
        /\ Min({actual, most}) <= actual
    BY <2>1, <2>2, MinOfTwo
  <2> QED
    BY <1>3, <2>1, <2>3 DEF actual
<1>5. Min({limits.entry, limits.total}) \in {limits.entry, limits.total}
  <2>1. limits.entry \in Int /\ limits.total \in Int
    BY <1>2
  <2> QED
    BY <2>1, MinOfTwo
<1>. DEFINE room == Min({limits.total, MaxWord})
<1>13. room \in Int /\ room <= limits.total /\ room <= MaxWord
  <2>1. limits.total \in Int /\ MaxWord \in Int
    BY <1>2
  <2>2. room \in {limits.total, MaxWord} /\ room <= limits.total /\ room <= MaxWord
    BY <2>1, MinOfTwo
  <2> QED
    BY <2>1, <2>2
<1>. HIDE DEF read, room
<1>6. \A b \in {0, read} : b <= Min({limits.entry, limits.total}) + 1
  BY <1>2, <1>3, <1>4, <1>5
<1>8. CASE entry.dir
  <2>1. extraction' = Extraction("reading", extraction.next + 1, extraction.total, 0, extraction.kept)
    BY <1>1, <1>8 DEF ExtractEntry
  <2>2. Whole(extraction.kept, extraction.next)
    <3> SUFFICES ASSUME NEW i \in 1..extraction.next, ~archive[i].dir,
                        \A j \in (i + 1)..extraction.next : archive[j].name # archive[i].name
                 PROVE  /\ archive[i].name \in DOMAIN extraction.kept
                        /\ extraction.kept[archive[i].name] = archive[i].actual
      BY DEF Whole
    <3>1. i \in 1..(extraction.next - 1)
      BY <1>1, <1>8
    <3>2. \A j \in (i + 1)..(extraction.next - 1) : archive[j].name # archive[i].name
      BY <1>1
    <3> QED
      BY <1>2, <3>1, <3>2 DEF Whole
  <2> QED
    BY <1>1, <1>2, <1>6, <2>1, <2>2 DEF ExtractionOK, InLimits, Sized, Whole, Extraction
<1>9. CASE /\ ~entry.dir
           /\ \/ DeclaredTooLarge(entry, extraction.total, limits)
              \/ read > limits.entry
              \/ extraction.total + read > room
  <2>1. \E b \in {0, read} :
            extraction' = Extraction("refused", extraction.next, extraction.total, b, extraction.kept)
    BY <1>1, <1>9 DEF ExtractEntry, Failing, most, read, room
  <2>2. extraction.next \in Nat \ {0}
    BY DEF ExtractionOK
  <2> QED
    BY <1>1, <1>2, <1>4, <1>6, <2>1, <2>2 DEF ExtractionOK, InLimits, Sized, Extraction
<1>10. CASE /\ ~entry.dir /\ ~DeclaredTooLarge(entry, extraction.total, limits)
            /\ read <= limits.entry
            /\ extraction.total + read <= room
  <2>1. extraction' = Extraction("reading", extraction.next + 1, extraction.total + read, read, kept)
    <3>1. ~(read > limits.entry) /\ ~(extraction.total + read > room)
      BY <1>2, <1>4, <1>10, <1>13
    <3> QED
      BY <1>1, <1>10, <3>1 DEF ExtractEntry, most, read, room
  <2>2. extraction.total + read <= limits.total /\ extraction.total + read <= MaxWord
    BY <1>2, <1>4, <1>10, <1>13
  <2>3. read = entry.actual
    BY <1>2, <1>3, <1>4, <1>10, <2>2
  <2>4. Sized(kept, extraction.total + read)
    <3>. DEFINE name == entry.name
    <3>1. kept = [n \in DOMAIN extraction.kept \cup {name} |->
                     IF n = name THEN read ELSE extraction.kept[n]]
      OBVIOUS
    <3>2. /\ extraction.total \in Nat /\ Sized(extraction.kept, extraction.total) /\ read \in Nat
      BY <1>2, <1>4
    <3>. HIDE DEF kept, name
    <3>. DEFINE before == extraction.kept
                total == extraction.total
    <3>3. /\ kept = [n \in DOMAIN before \cup {name} |-> IF n = name THEN read ELSE before[n]]
          /\ total \in Nat /\ Sized(before, total)
      BY <3>1, <3>2
    <3>. HIDE DEF before, total
    <3>4. Sized(kept, total + read)
      BY <3>2, <3>3, KeepOne
    <3> QED
      BY <3>4 DEF total
  <2>5. Whole(kept, extraction.next)
    <3>. DEFINE k == extraction.next
    <3>1. /\ k \in 1..Len(archive) /\ ~archive[k].dir /\ Whole(extraction.kept, k - 1)
          /\ kept = [n \in DOMAIN extraction.kept \cup {archive[k].name} |->
                       IF n = archive[k].name THEN archive[k].actual ELSE extraction.kept[n]]
      BY <1>1, <1>2, <1>10, <2>3
    <3>. HIDE DEF kept, k
    <3>2. Whole(kept, k)
      BY <3>1, WholeOne
    <3> QED
      BY <3>2 DEF k
  <2>6. /\ Sized(extraction'.kept, extraction'.total)
        /\ Whole(extraction'.kept, extraction'.next - 1)
        /\ extraction'.next = extraction.next + 1
        /\ extraction' \in [status: {"reading", "refused"}, next: Nat \ {0}, total: Nat, buffer: Nat,
                            kept: {extraction'.kept}]
        /\ extraction'.buffer = read /\ extraction'.total = extraction.total + read
    <3>. HIDE DEF kept
    <3>1. extraction.next + 1 \in Nat \ {0} /\ extraction.next + 1 - 1 = extraction.next
      BY <1>1
    <3>2. /\ extraction'.status = "reading" /\ extraction'.next = extraction.next + 1
          /\ extraction'.total = extraction.total + read /\ extraction'.buffer = read
          /\ extraction'.kept = kept
      BY <2>1 DEF Extraction
    <3>3. extraction' \in [status: {"reading", "refused"}, next: Nat \ {0}, total: Nat, buffer: Nat,
                           kept: {kept}]
      BY <1>2, <1>4, <2>1, <3>1 DEF Extraction
    <3>4. extraction'.next - 1 = extraction.next
      BY <1>1, <3>2
    <3>5. Sized(extraction'.kept, extraction'.total)
      BY <2>4, <3>2
    <3>6. Whole(extraction'.kept, extraction'.next - 1)
      BY <2>5, <3>2, <3>4
    <3> QED
      BY <3>2, <3>3, <3>5, <3>6
  <2> QED
    BY <1>1, <1>6, <2>2, <2>6 DEF ExtractionOK, InLimits, Sized, Whole
<1>11. \/ entry.dir \/ read <= limits.entry \/ read > limits.entry
  BY <1>2, <1>4
<1>12. \/ extraction.total + read <= room
       \/ extraction.total + read > room
  BY <1>2, <1>4, <1>13
<1> QED
  BY <1>2, <1>8, <1>9, <1>10, <1>11, <1>12


(***************************************************************************)
(* What the steps leave alone                                              *)
(***************************************************************************)
LEMMA EditsFrame ==
    ASSUME \/ \E cell \in Scenario[scenario].cells, value \in Scenario[scenario].values :
                 Draft(cell, value)
           \/ \E intent \in Scenario[scenario].intents : Intend(intent)
           \/ \E i \in 1..Len(drafts) : Apply(i)
           \/ Undo
    PROVE  UNCHANGED <<scenario, file, sent, returned, archives>>
  BY Zenon DEF Draft, Intend, Apply, Undo

LEMMA FilesFrame ==
    ASSUME \/ \E format \in Scenario[scenario].formats : Export(format)
           \/ \E f \in Scenario[scenario].foreign : Receive(f) \/ Download(f)
           \/ Import
    PROVE  UNCHANGED <<scenario, drafts, applied, archives>>
  BY Zenon DEF Export, Receive, Download, Import, documents

LEMMA ArchivesFrame ==
    ASSUME \/ \E a \in Scenario[scenario].archives, l \in Scenario[scenario].limits : Open(a, l)
           \/ Extract
    PROVE  UNCHANGED <<scenario, documents, file, sent, returned>>
  BY Zenon DEF Open, Extract

ExtractionInv ==
    /\ scenario \in DOMAIN Scenario
    /\ ArchiveTyped
    /\ ExtractionOK

LEMMA OpenOK ==
    ASSUME ExtractionInv,
           NEW a \in Scenario[scenario].archives, NEW l \in Scenario[scenario].limits, Open(a, l)
    PROVE  ArchiveTyped' /\ ExtractionOK'
<1>1. archive' = a /\ limits' = l /\ extraction' \in {Beginning, Failing(Beginning, 0)}
  BY DEF Open, OpenArchive
<1>2. /\ Len(a) \in Nat
      /\ \A i \in 1..Len(a) : a[i].dir \in BOOLEAN /\ a[i].actual \in 0..MaxWord
      /\ l.entry \in 0..MaxWord /\ l.total \in 0..MaxWord
  BY ScenarioAssumption DEF ExtractionInv
<1>3. ArchiveTyped'
  BY <1>1, <1>2 DEF ArchiveTyped
<1>4. l.entry \in Nat /\ l.total \in Nat
  BY <1>2, MaxWordAssumption
<1>. DEFINE x == extraction'
<1>5. /\ x.next = 1 /\ x.total = 0 /\ x.buffer = 0 /\ x.kept = <<>>
      /\ x \in [status: {"reading", "refused"}, next: Nat \ {0}, total: Nat, buffer: Nat,
                kept: {x.kept}]
  <2>1. x \in {Beginning, Failing(Beginning, 0)}
    BY <1>1
  <2>. HIDE DEF x
  <2> QED
    BY <2>1, BeginningFields
<1>6. ExtractionOK'
  <2>1. InLimits(0, 0)'
    BY <1>1, <1>4, LeastOfLimits DEF InLimits
  <2>2. Sized(x.kept, x.total)
    BY <1>5, NothingKept
  <2>3. Whole(extraction.kept, extraction.next - 1)'
    BY <1>5 DEF Whole
  <2> QED
    BY <1>1, <1>2, <1>5, <2>1, <2>2, <2>3 DEF ExtractionOK
<1> QED
  BY <1>3, <1>6

LEMMA ExtractionInitially == Init => ExtractionInv
<1> SUFFICES ASSUME Init PROVE ExtractionInv
  OBVIOUS
<1>1. /\ scenario \in DOMAIN Scenario /\ archive = <<>> /\ extraction = Beginning
      /\ limits.entry = 0 /\ limits.total = 0
  BY DEF Init
<1>2. Len(archive) = 0 /\ MaxWord \in Nat
  BY <1>1, MaxWordAssumption
<1>3. ArchiveTyped
  BY <1>1, <1>2 DEF ArchiveTyped
<1>4. ExtractionOK
  <2>. DEFINE x == extraction
  <2>1. /\ x.next = 1 /\ x.total = 0 /\ x.buffer = 0 /\ x.kept = <<>>
        /\ x \in [status: {"reading", "refused"}, next: Nat \ {0}, total: Nat, buffer: Nat,
                  kept: {x.kept}]
    BY <1>1, BeginningFields
  <2>2. InLimits(0, 0)
    BY <1>1, LeastOfLimits DEF InLimits
  <2>3. Sized(x.kept, x.total)
    BY <2>1, NothingKept
  <2>4. Whole(x.kept, x.next - 1)
    BY <2>1 DEF Whole
  <2> QED
    BY <1>2, <2>1, <2>2, <2>3, <2>4 DEF ExtractionOK
<1> QED
  BY <1>1, <1>3, <1>4 DEF ExtractionInv

LEMMA ExtractionStep == ExtractionInv /\ [Next]_vars => ExtractionInv'
<1> SUFFICES ASSUME ExtractionInv, [Next]_vars PROVE ExtractionInv'
  OBVIOUS
<1>1. ASSUME UNCHANGED <<scenario, archives>> PROVE ExtractionInv'
  BY <1>1 DEF ExtractionInv, archives, ArchiveTyped, ExtractionOK, InLimits, Sized, Whole
<1>2. ASSUME NEW a \in Scenario[scenario].archives, NEW l \in Scenario[scenario].limits, Open(a, l)
      PROVE  ExtractionInv'
  BY <1>2, OpenOK DEF ExtractionInv, Open
<1>3. ASSUME Extract PROVE ExtractionInv'
  <2>1. UNCHANGED <<scenario, archive, limits>>
    BY <1>3 DEF Extract
  <2>2. ExtractionOK'
    BY <1>3, ExtractOK DEF ExtractionInv
  <2> QED
    BY <2>1, <2>2 DEF ExtractionInv, ArchiveTyped
<1>4. CASE UNCHANGED vars
  BY <1>1, <1>4 DEF vars
<1>5. CASE Next
  BY <1>1, <1>2, <1>3, <1>5, EditsFrame, FilesFrame, Zenon DEF Next
<1> QED
  BY <1>4, <1>5

LEMMA ExtractionImplied == ExtractionInv => ExtractionFaithful
<1> SUFFICES ASSUME ExtractionInv PROVE ExtractionFaithful
  OBVIOUS
<1>1. InLimits(extraction.buffer, extraction.total)
  BY DEF ExtractionInv, ExtractionOK
<1>2. SumFunction(extraction.kept) <= extraction.total
  BY DEF ExtractionInv, ExtractionOK, Sized, SumFunction
<1>3. ASSUME extraction.status = "reading", extraction.next > Len(archive),
             NEW i \in 1..Len(archive), ~archive[i].dir,
             \A j \in (i + 1)..Len(archive) : archive[j].name # archive[i].name
      PROVE  /\ archive[i].name \in DOMAIN extraction.kept
             /\ extraction.kept[archive[i].name] = archive[i].actual
  <2>1. extraction.next \in Nat /\ extraction.next <= Len(archive) + 1 /\ Len(archive) \in Nat
    BY DEF ExtractionInv, ExtractionOK, ArchiveTyped
  <2>2. extraction.next - 1 = Len(archive)
    BY <1>3, <2>1
  <2>3. Whole(extraction.kept, Len(archive))
    BY <1>3, <2>2 DEF ExtractionInv, ExtractionOK
  <2> QED
    BY <1>3, <2>3 DEF Whole
<1> QED
  BY <1>1, <1>2, <1>3 DEF ExtractionFaithful, InLimits

\* zip_package.rs reads an archive of any length entry by entry under any
\* limits: it never holds more than the least limit and one byte, never counts
\* past the total, and what it hands over is whole, of each name the last entry.
THEOREM EveryExtractionFaithful == Spec => []ExtractionFaithful
<1>1. ExtractionInv /\ [Next]_vars => ExtractionInv'
  BY ExtractionStep
<1> QED
  BY ExtractionInitially, <1>1, ExtractionImplied, PTL DEF Spec

(***************************************************************************)
(* The letters of a column                                                 *)
(***************************************************************************)
LettersTurn(G, column) ==
    IF column = 0 THEN <<>>
    ELSE Append(G[(column - 1) \div 26], ((column - 1) % 26) + 1)

LEMMA Base26 ==
    ASSUME NEW c \in Nat \ {0}
    PROVE  /\ (c - 1) \div 26 \in Nat /\ (c - 1) \div 26 < c
           /\ ((c - 1) % 26) + 1 \in 1..26
           /\ ((c - 1) \div 26) * 26 + ((c - 1) % 26) + 1 = c
  OBVIOUS

\* The recursion is on ever smaller columns.
LEMMA LettersSolved == \E G : G = [c \in 0..MaxIndex |-> LettersTurn(G, c)]
<1>. DEFINE Right(G, n) == \A c \in 0..MaxIndex : c < n => G[c] = LettersTurn(G, c)
            wrong == {n \in Nat : ~ \E G : Right(G, n)}
            Longer(G) == [c \in 0..MaxIndex |-> LettersTurn(G, c)]
<1>1. MaxIndex \in Nat
  BY MaxIndexAssumption
<1>2. ASSUME NEW n \in Nat, NEW G, Right(G, n) PROVE Right(Longer(G), n + 1)
  <2> SUFFICES ASSUME NEW c \in 0..MaxIndex, c < n + 1
               PROVE  Longer(G)[c] = LettersTurn(Longer(G), c)
    OBVIOUS
  <2>1. CASE c = 0
    BY <1>1, <2>1 DEF LettersTurn
  <2>2. CASE c # 0
    <3>. DEFINE b == (c - 1) \div 26
    <3>1. b \in 0..MaxIndex /\ b < n
      <4>1. b \in Nat /\ b < c
        BY <1>1, <2>2, Base26
      <4>. HIDE DEF b
      <4> QED
        BY <1>1, <4>1
    <3>. HIDE DEF b
    <3>2. G[b] = Longer(G)[b]
      BY <1>2, <3>1
    <3> QED
      BY <2>2, <3>2 DEF LettersTurn, b
  <2> QED
    BY <2>1, <2>2
<1>3. wrong = {}
  <2> SUFFICES ASSUME wrong # {} PROVE FALSE
    OBVIOUS
  <2>1. PICK n \in wrong : \A k \in wrong : n <= k
    <3>1. wrong \in SUBSET Nat
      OBVIOUS
    <3>. HIDE DEF wrong
    <3> QED
      BY <3>1, LeastNatural
  <2>2. n # 0
    <3>1. Right(<<>>, 0)
      BY <1>1
    <3> QED
      BY <2>1, <3>1
  <2>3. n - 1 \in Nat /\ n - 1 \notin wrong /\ (n - 1) + 1 = n
    <3>1. n \in Nat
      OBVIOUS
    <3>. HIDE DEF wrong
    <3> QED
      BY <2>1, <2>2, <3>1
  <2>4. PICK G : Right(G, n - 1)
    BY <2>3
  <2>5. Right(Longer(G), n)
    <3>. HIDE DEF Right, Longer
    <3> QED
      BY <1>2, <2>3, <2>4
  <2> QED
    BY <2>1, <2>5
<1>4. PICK G : Right(G, MaxIndex + 1)
  <2>1. MaxIndex + 1 \in Nat /\ MaxIndex + 1 \notin wrong
    <3>. HIDE DEF wrong
    <3> QED
      BY <1>1, <1>3
  <2>. HIDE DEF Right
  <2> QED
    BY <2>1
<1>5. Longer(G) = [c \in 0..MaxIndex |-> LettersTurn(Longer(G), c)]
  <2>1. \A c \in 0..MaxIndex : c < MaxIndex + 1 + 1
    BY <1>1
  <2>2. Right(Longer(G), MaxIndex + 1 + 1)
    BY <1>1, <1>2, <1>4
  <2> QED
    BY <2>1, <2>2
<1> QED
  BY <1>5

LEMMA LettersOf ==
    ASSUME NEW c \in 0..MaxIndex
    PROVE  Letters[c] = LettersTurn(Letters, c)
<1>1. Letters = CHOOSE G : G = [d \in 0..MaxIndex |-> LettersTurn(G, d)]
  BY DEF Letters, LettersTurn
<1>2. Letters = [d \in 0..MaxIndex |-> LettersTurn(Letters, d)]
  BY <1>1, LettersSolved
<1> QED
  BY <1>2

(***************************************************************************)
(* The column of letters                                                   *)
(***************************************************************************)
Further(column, letter) ==
    IF column * 26 + letter <= MaxIndex THEN column * 26 + letter ELSE MaxIndex + 1
ColumnTurn(letters, u, i) == IF i = 0 THEN 0 ELSE Further(u[i - 1], letters[i])

LEMMA ColumnSolved ==
    ASSUME NEW letters, Len(letters) \in Nat
    PROVE  \E u : u = [i \in 0..Len(letters) |-> ColumnTurn(letters, u, i)]
<1>. DEFINE n == Len(letters)
            Right(u, k) == \A i \in 0..n : i < k => u[i] = ColumnTurn(letters, u, i)
            wrong == {k \in Nat : ~ \E u : Right(u, k)}
            Longer(u) == [i \in 0..n |-> ColumnTurn(letters, u, i)]
<1>1. n \in Nat
  OBVIOUS
<1>. HIDE DEF n
<1>2. ASSUME NEW k \in Nat, NEW u, Right(u, k) PROVE Right(Longer(u), k + 1)
  <2> SUFFICES ASSUME NEW i \in 0..n, i < k + 1
               PROVE  Longer(u)[i] = ColumnTurn(letters, Longer(u), i)
    OBVIOUS
  <2>1. CASE i = 0
    BY <1>1, <2>1 DEF ColumnTurn
  <2>2. CASE i # 0
    <3>1. i - 1 \in 0..n /\ i - 1 < k
      BY <1>1, <2>2
    <3>2. u[i - 1] = Longer(u)[i - 1]
      BY <1>2, <3>1
    <3> QED
      BY <2>2, <3>2 DEF ColumnTurn
  <2> QED
    BY <2>1, <2>2
<1>3. wrong = {}
  <2> SUFFICES ASSUME wrong # {} PROVE FALSE
    OBVIOUS
  <2>1. PICK k \in wrong : \A l \in wrong : k <= l
    <3>1. wrong \in SUBSET Nat
      OBVIOUS
    <3>. HIDE DEF wrong
    <3> QED
      BY <3>1, LeastNatural
  <2>2. k # 0
    <3>1. Right(<<>>, 0)
      BY <1>1
    <3> QED
      BY <2>1, <3>1
  <2>3. k - 1 \in Nat /\ k - 1 \notin wrong /\ (k - 1) + 1 = k
    <3>1. k \in Nat
      OBVIOUS
    <3>. HIDE DEF wrong
    <3> QED
      BY <2>1, <2>2, <3>1
  <2>4. PICK u : Right(u, k - 1)
    BY <2>3
  <2>5. Right(Longer(u), k)
    <3>. HIDE DEF Right, Longer
    <3> QED
      BY <1>2, <2>3, <2>4
  <2> QED
    BY <2>1, <2>5
<1>4. PICK u : Right(u, n + 1)
  <2>1. n + 1 \in Nat /\ n + 1 \notin wrong
    <3>. HIDE DEF wrong
    <3> QED
      BY <1>1, <1>3
  <2>. HIDE DEF Right
  <2> QED
    BY <2>1
<1>5. Longer(u) = [i \in 0..n |-> ColumnTurn(letters, Longer(u), i)]
  <2>1. \A i \in 0..n : i < n + 1 + 1
    BY <1>1
  <2>2. Right(Longer(u), n + 1 + 1)
    BY <1>1, <1>2, <1>4
  <2> QED
    BY <2>1, <2>2
<1> QED
  BY <1>5 DEF n

ColumnTurns(letters, u) == \A i \in 0..Len(letters) : u[i] = ColumnTurn(letters, u, i)

LEMMA ColumnIs ==
    ASSUME NEW letters, Len(letters) \in Nat
    PROVE  \E u : /\ ColumnTurns(letters, u)
                  /\ ColumnOf(letters) = u[Len(letters)]
<1>. DEFINE u == CHOOSE w : w = [i \in 0..Len(letters) |-> ColumnTurn(letters, w, i)]
<1>1. ColumnOf(letters) = u[Len(letters)]
  BY DEF ColumnOf, ColumnTurn, Further
<1>2. u = [i \in 0..Len(letters) |-> ColumnTurn(letters, u, i)]
  BY ColumnSolved
<1>3. ColumnTurns(letters, u)
  <2>. HIDE DEF u
  <2> QED
    BY <1>2, Zenon DEF ColumnTurns
<1> QED
  BY <1>1, <1>3

LEMMA ColumnsAgree ==
    ASSUME NEW s \in Seq(Int), NEW letter \in Int, NEW u, NEW w,
           ColumnTurns(s, u), ColumnTurns(Append(s, letter), w), NEW k \in 0..Len(s)
    PROVE  u[k] = w[k]
<1>. DEFINE bad == {i \in 0..Len(s) : u[i] # w[i]}
<1>1. SUFFICES ASSUME bad # {} PROVE FALSE
  OBVIOUS
<1>2. PICK i \in bad : \A j \in bad : i <= j
  <2>1. bad \in SUBSET Nat
    OBVIOUS
  <2>. HIDE DEF bad
  <2> QED
    BY <1>1, <2>1, LeastNatural
<1>3. i \in 0..Len(s) /\ i \in 0..Len(Append(s, letter))
  OBVIOUS
<1>4. i # 0
  BY <1>3 DEF ColumnTurn, ColumnTurns
<1>5. i - 1 \in 0..Len(s) /\ i - 1 \notin bad
  BY <1>2, <1>3, <1>4
<1>6. u[i - 1] = w[i - 1] /\ Append(s, letter)[i] = s[i]
  BY <1>3, <1>4, <1>5
<1>7. u[i] = w[i]
  BY <1>3, <1>4, <1>6 DEF ColumnTurn, ColumnTurns
<1> QED
  BY <1>2, <1>7

LEMMA ColumnOfAppend ==
    ASSUME NEW s \in Seq(Int), NEW letter \in Int
    PROVE  ColumnOf(Append(s, letter)) = Further(ColumnOf(s), letter)
<1>. DEFINE t == Append(s, letter)
<1>1. Len(s) \in Nat /\ Len(t) = Len(s) + 1 /\ t[Len(s) + 1] = letter
  OBVIOUS
<1>2. PICK u : /\ ColumnTurns(s, u)
               /\ ColumnOf(s) = u[Len(s)]
  BY <1>1, ColumnIs
<1>3. PICK w : /\ ColumnTurns(t, w)
               /\ ColumnOf(t) = w[Len(t)]
  <2>. HIDE DEF t
  <2> QED
    BY <1>1, ColumnIs
<1>4. u[Len(s)] = w[Len(s)]
  <2>1. Len(s) \in 0..Len(s)
    BY <1>1
  <2> QED
    BY <1>2, <1>3, <2>1, ColumnsAgree
<1>5. w[Len(t)] = Further(w[Len(t) - 1], letter)
  BY <1>1, <1>3 DEF ColumnTurn, ColumnTurns
<1> QED
  BY <1>1, <1>2, <1>3, <1>4, <1>5

LEMMA ColumnOfNone == ColumnOf(<<>>) = 0
<1>1. Len(<<>>) = 0
  OBVIOUS
<1>2. PICK u : /\ ColumnTurns(<<>>, u)
               /\ ColumnOf(<<>>) = u[Len(<<>>)]
  BY <1>1, ColumnIs
<1> QED
  BY <1>1, <1>2 DEF ColumnTurn, ColumnTurns

\* Every column that fits is read from its letters as it was.
LEMMA ColumnsReadBack ==
    ASSUME NEW c \in 0..MaxIndex
    PROVE  Letters[c] \in Seq(Int) /\ ColumnOf(Letters[c]) = c
<1>. DEFINE Kept(d) == Letters[d] \in Seq(Int) /\ ColumnOf(Letters[d]) = d
            bad == {d \in 0..MaxIndex : ~Kept(d)}
<1>1. SUFFICES ASSUME bad # {} PROVE FALSE
  OBVIOUS
<1>2. PICK d \in bad : \A e \in bad : d <= e
  <2>1. bad \in SUBSET Nat
    OBVIOUS
  <2>. HIDE DEF bad
  <2> QED
    BY <1>1, <2>1, LeastNatural
<1>3. MaxIndex \in Nat /\ d \in 0..MaxIndex
  BY MaxIndexAssumption
<1>4. CASE d = 0
  <2>1. Letters[d] = <<>>
    BY <1>3, <1>4, LettersOf DEF LettersTurn
  <2>2. <<>> \in Seq(Int)
    OBVIOUS
  <2>3. Kept(d)
    BY <1>4, <2>1, <2>2, ColumnOfNone
  <2>. HIDE DEF Kept
  <2> QED
    BY <2>3
<1>5. CASE d # 0
  <2>. DEFINE b == (d - 1) \div 26
              letter == ((d - 1) % 26) + 1
  <2>1. b \in Nat /\ b < d /\ letter \in Int /\ b * 26 + letter = d
    BY <1>3, <1>5, Base26
  <2>2. Letters[d] = Append(Letters[b], letter)
    BY <1>3, <1>5, LettersOf DEF LettersTurn
  <2>. HIDE DEF b, letter
  <2>3. b \in 0..MaxIndex /\ b \notin bad
    BY <1>2, <1>3, <2>1
  <2>4. Letters[b] \in Seq(Int) /\ ColumnOf(Letters[b]) = b
    BY <2>3
  <2>5. ColumnOf(Letters[d]) = Further(b, letter)
    BY <2>1, <2>2, <2>4, ColumnOfAppend
  <2>6. Letters[d] \in Seq(Int)
    BY <2>1, <2>2, <2>4
  <2> QED
    BY <1>2, <1>3, <2>1, <2>5, <2>6 DEF Further
<1> QED
  BY <1>4, <1>5

LEMMA CellsReadBack ==
    ASSUME NEW cell \in Cells
    PROVE  ParseCell(Display(cell)) = cell
<1>1. cell.column \in 1..MaxIndex /\ cell.row \in 1..MaxIndex
      /\ cell = [column |-> cell.column, row |-> cell.row]
  BY DEF Cells
<1>2. cell.column \in 0..MaxIndex
  BY <1>1, MaxIndexAssumption
<1>3. ColumnOf(Letters[cell.column]) = cell.column
  BY <1>2, ColumnsReadBack
<1> QED
  BY <1>1, <1>3 DEF ParseCell, Display, Cell

LEMMA ParsedCell ==
    ASSUME NEW a1
    PROVE  ParseCell(a1) = None \/ ParseCell(a1) \in Cells
  BY DEF ParseCell, Cell, Cells

LEMMA CellsAreSome == ASSUME NEW cell \in Cells PROVE cell # None
<1>1. cell \in [column : Nat, row : Nat]
  BY MaxIndexAssumption DEF Cells
<1> QED
  BY <1>1, NoneAssumption

(***************************************************************************)
(* The members of a set in order                                           *)
(***************************************************************************)
Placed(S, place) ==
    /\ IsFiniteSet(S)
    /\ \A x \in S : place[x] \in Int
    /\ \A x, y \in S : place[x] = place[y] => x = y
Behind(S, place, x) == {y \in S : place[y] < place[x]}

LEMMA BehindGrows ==
    ASSUME NEW S, NEW place, Placed(S, place), NEW x \in S, NEW y \in S, place[x] < place[y]
    PROVE  Cardinality(Behind(S, place, x)) < Cardinality(Behind(S, place, y))
<1>1. Behind(S, place, x) \subseteq Behind(S, place, y)
  BY DEF Behind, Placed
<1>2. x \in Behind(S, place, y) /\ x \notin Behind(S, place, x)
  BY DEF Behind, Placed
<1>3. IsFiniteSet(Behind(S, place, x)) /\ IsFiniteSet(Behind(S, place, y))
  BY FS_Subset DEF Behind, Placed
<1>4. /\ Cardinality(Behind(S, place, x)) <= Cardinality(Behind(S, place, y))
      /\ Cardinality(Behind(S, place, y)) = Cardinality(Behind(S, place, x))
            => Behind(S, place, y) = Behind(S, place, x)
  BY <1>1, <1>3, FS_Subset
<1>5. /\ Cardinality(Behind(S, place, x)) \in Nat
      /\ Cardinality(Behind(S, place, y)) \in Nat
  BY <1>3, FS_CardinalityType
<1> QED
  BY <1>2, <1>4, <1>5

\* Ranks are different, and as many as there are members.
LEMMA RanksTaken ==
    ASSUME NEW S, NEW place, Placed(S, place)
    PROVE  /\ \A x \in S : Cardinality(Behind(S, place, x)) \in 0..(Cardinality(S) - 1)
           /\ \A x, y \in S :
                 Cardinality(Behind(S, place, x)) = Cardinality(Behind(S, place, y)) => x = y
           /\ \A i \in 1..Cardinality(S) :
                 \E x \in S : Cardinality(Behind(S, place, x)) = i - 1
<1> DEFINE n == Cardinality(S)
           rank == [x \in S |-> Cardinality(Behind(S, place, x))]
<1>1. n \in Nat
  BY FS_CardinalityType DEF Placed
<1>2. ASSUME NEW x \in S PROVE Cardinality(Behind(S, place, x)) \in 0..(n - 1)
  <2>1. Behind(S, place, x) \subseteq S \ {x}
    BY DEF Behind, Placed
  <2>2. IsFiniteSet(S \ {x}) /\ Cardinality(S \ {x}) = n - 1
    BY FS_RemoveElement DEF Placed
  <2>3. IsFiniteSet(Behind(S, place, x)) /\ Cardinality(Behind(S, place, x)) <= n - 1
    BY <2>1, <2>2, FS_Subset
  <2>4. Cardinality(Behind(S, place, x)) \in Nat
    BY <2>3, FS_CardinalityType
  <2> QED
    BY <1>1, <2>3, <2>4
<1>3. \A x, y \in S : Cardinality(Behind(S, place, x)) = Cardinality(Behind(S, place, y)) => x = y
  <2> SUFFICES ASSUME NEW x \in S, NEW y \in S, x # y
               PROVE  Cardinality(Behind(S, place, x)) # Cardinality(Behind(S, place, y))
    OBVIOUS
  <2>1. /\ Cardinality(Behind(S, place, x)) \in Int
        /\ Cardinality(Behind(S, place, y)) \in Int
    BY <1>1, <1>2
  <2>2. place[x] < place[y] \/ place[y] < place[x]
    BY DEF Placed
  <2> QED
    BY <2>1, <2>2, BehindGrows
<1>4. rank \in Injection(S, 0..(n - 1))
  BY <1>2, <1>3 DEF Injection, IsInjective
<1>5. IsFiniteSet(0..(n - 1)) /\ Cardinality(0..(n - 1)) = n
  <2>1. 0 \in Int /\ n - 1 \in Int /\ (n - 1) - 0 + 1 = n
    BY <1>1
  <2>2. IsFiniteSet(0..(n - 1)) /\ Cardinality(0..(n - 1)) = IF 0 > n - 1 THEN 0 ELSE (n - 1) - 0 + 1
    BY <2>1, FS_Interval
  <2>3. n - 1 >= 0 \/ n = 0
    BY <1>1
  <2> QED
    BY <1>1, <2>1, <2>2, <2>3
<1>6. rank \in Surjection(S, 0..(n - 1))
  <2>1. IsFiniteSet(S)
    BY DEF Placed
  <2>. HIDE DEF rank
  <2> QED
    BY <1>4, <1>5, <2>1, FS_Injection
<1>7. ASSUME NEW i \in 1..n PROVE \E x \in S : Cardinality(Behind(S, place, x)) = i - 1
  <2>1. i - 1 \in 0..(n - 1)
    BY <1>1
  <2>2. PICK x \in S : rank[x] = i - 1
    BY <1>6, <2>1 DEF Surjection
  <2> QED
    BY <2>2
<1> QED
  BY <1>2, <1>3, <1>7

LEMMA InOrderCovers ==
    ASSUME NEW S, NEW place, Placed(S, place)
    PROVE  /\ InOrder(S, place) \in Seq(S)
           /\ \A x \in S : \E i \in 1..Len(InOrder(S, place)) : InOrder(S, place)[i] = x
<1>. DEFINE n == Cardinality(S)
            Rank(x) == Cardinality(Behind(S, place, x))
            order == InOrder(S, place)
<1>1. n \in Nat
  BY FS_CardinalityType DEF Placed
<1>2. order = [i \in 1..n |-> CHOOSE x \in S : Rank(x) = i - 1]
  BY DEF InOrder, Behind
<1>3. /\ \A x \in S : Rank(x) \in 0..(n - 1)
      /\ \A x, y \in S : Rank(x) = Rank(y) => x = y
      /\ \A i \in 1..n : \E x \in S : Rank(x) = i - 1
  BY RanksTaken
<1>. HIDE DEF Rank, n, order
<1>4. \A i \in 1..n : order[i] \in S /\ Rank(order[i]) = i - 1
  BY <1>2, <1>3
<1>5. order \in Seq(S) /\ Len(order) = n
  BY <1>1, <1>2, <1>4
<1>6. ASSUME NEW x \in S PROVE \E i \in 1..Len(order) : order[i] = x
  <2>1. Rank(x) + 1 \in 1..n /\ (Rank(x) + 1) - 1 = Rank(x)
    BY <1>1, <1>3
  <2>2. order[Rank(x) + 1] = x
    BY <1>3, <1>4, <2>1
  <2> QED
    BY <1>5, <2>1, <2>2
<1> QED
  BY <1>5, <1>6 DEF order

\* Of two cells in a table, a row is further than all columns before it.
LEMMA TablePlace ==
    ASSUME NEW M \in Nat, NEW a \in Int, NEW b \in Int, NEW x \in 1..M, NEW y \in 1..M,
           a * (M + 1) + x = b * (M + 1) + y
    PROVE  a = b /\ x = y
<1>1. ASSUME NEW c \in Int, NEW d \in Int, NEW u \in 1..M, NEW v \in 1..M, c < d
      PROVE  c * (M + 1) + u < d * (M + 1) + v
  <2>. DEFINE k == d - c
  <2>1. k \in Nat \ {0} /\ d = c + k
    BY <1>1
  <2>. HIDE DEF k
  <2>2. d * (M + 1) = c * (M + 1) + k * (M + 1)
    BY <2>1
  <2>3. k * (M + 1) >= M + 1
    BY <2>1
  <2>. DEFINE p == c * (M + 1)
              q == d * (M + 1)
              r == k * (M + 1)
  <2>4. p \in Int /\ q \in Int /\ r \in Int
    BY <2>1
  <2>5. q = p + r /\ r >= M + 1
    BY <2>2, <2>3
  <2>. HIDE DEF p, q, r
  <2>6. p + u < q + v
    BY <2>4, <2>5
  <2> QED
    BY <2>6 DEF p, q
<1>2. ~(a < b)
  <2> SUFFICES ASSUME a < b PROVE FALSE
    OBVIOUS
  <2>1. a * (M + 1) + x < b * (M + 1) + y
    BY <1>1
  <2> QED
    BY <2>1
<1>3. ~(b < a)
  <2> SUFFICES ASSUME b < a PROVE FALSE
    OBVIOUS
  <2>1. b * (M + 1) + y < a * (M + 1) + x
    BY <1>1
  <2> QED
    BY <2>1
<1>4. a = b
  BY <1>2, <1>3
<1> QED
  BY <1>4

LEMMA CellsPlaced ==
    ASSUME NEW S \in SUBSET Cells, IsFiniteSet(S)
    PROVE  /\ RowsFirst(S) \in Seq(S)
           /\ \A c \in S : \E i \in 1..Len(RowsFirst(S)) : RowsFirst(S)[i] = c
           /\ ColumnsFirst(S) \in Seq(S)
           /\ \A c \in S : \E i \in 1..Len(ColumnsFirst(S)) : ColumnsFirst(S)[i] = c
<1>. DEFINE byRow == [c \in S |-> c.row * (MaxIndex + 1) + c.column]
            byColumn == [c \in S |-> c.column * (MaxIndex + 1) + c.row]
<1>1. MaxIndex \in Nat
  BY MaxIndexAssumption
<1>2. \A c \in S : c.row \in 1..MaxIndex /\ c.column \in 1..MaxIndex
  BY DEF Cells
<1>3. \A c, d \in S : c.row = d.row /\ c.column = d.column => c = d
  BY DEF Cells
<1>4. Placed(S, byRow)
  <2>1. \A c \in S : byRow[c] \in Int
    BY <1>1, <1>2
  <2>2. ASSUME NEW c \in S, NEW d \in S, byRow[c] = byRow[d] PROVE c = d
    <3>1. c.row * (MaxIndex + 1) + c.column = d.row * (MaxIndex + 1) + d.column
      BY <2>2
    <3>2. c.row \in Int /\ d.row \in Int /\ c.column \in 1..MaxIndex /\ d.column \in 1..MaxIndex
      BY <1>2
    <3>3. c.row = d.row /\ c.column = d.column
      BY <1>1, <3>1, <3>2, TablePlace
    <3> QED
      BY <1>3, <3>3
  <2> QED
    BY <2>1, <2>2 DEF Placed
<1>5. Placed(S, byColumn)
  <2>1. \A c \in S : byColumn[c] \in Int
    BY <1>1, <1>2
  <2>2. ASSUME NEW c \in S, NEW d \in S, byColumn[c] = byColumn[d] PROVE c = d
    <3>1. c.column * (MaxIndex + 1) + c.row = d.column * (MaxIndex + 1) + d.row
      BY <2>2
    <3>2. c.column \in Int /\ d.column \in Int /\ c.row \in 1..MaxIndex /\ d.row \in 1..MaxIndex
      BY <1>2
    <3>3. c.row = d.row /\ c.column = d.column
      BY <1>1, <3>1, <3>2, TablePlace
    <3> QED
      BY <1>3, <3>3
  <2> QED
    BY <2>1, <2>2 DEF Placed
<1>. HIDE DEF byRow, byColumn
<1>6. /\ InOrder(S, byRow) \in Seq(S)
      /\ \A x \in S : \E i \in 1..Len(InOrder(S, byRow)) : InOrder(S, byRow)[i] = x
  BY <1>4, InOrderCovers
<1>7. /\ InOrder(S, byColumn) \in Seq(S)
      /\ \A x \in S : \E i \in 1..Len(InOrder(S, byColumn)) : InOrder(S, byColumn)[i] = x
  BY <1>5, InOrderCovers
<1> QED
  BY <1>6, <1>7 DEF RowsFirst, ColumnsFirst, byRow, byColumn

(***************************************************************************)
(* Ratios in lowest terms                                                  *)
(***************************************************************************)
LEMMA Division ==
    ASSUME NEW a \in Int, NEW b \in Nat \ {0}
    PROVE  /\ a \div b \in Int /\ a % b \in 0..(b - 1)
           /\ a = b * (a \div b) + (a % b)
  OBVIOUS

LEMMA Divided ==
    ASSUME NEW b \in Nat \ {0}, NEW q \in Int, NEW a \in Int, a = b * q
    PROVE  a % b = 0 /\ a \div b = q
<1>1. a \div b \in Int /\ a % b \in 0..(b - 1) /\ a = b * (a \div b) + (a % b)
  BY Division
<1>. DEFINE p == a \div b
            r == a % b
<1>2. p \in Int /\ r \in Int /\ 0 <= r /\ r < b /\ b * q = b * p + r
  BY <1>1
<1>. HIDE DEF p, r
<1>3. b * (q - p) = r
  BY <1>2
<1>4. q - p = 0
  <2>1. CASE q - p >= 1
    <3>1. b * (q - p) >= b
      BY <1>2, <2>1
    <3> QED
      BY <1>2, <1>3, <3>1
  <2>2. CASE q - p <= -1
    <3>1. b * (q - p) <= -b
      BY <1>2, <2>2
    <3> QED
      BY <1>2, <1>3, <3>1
  <2> QED
    BY <1>2, <2>1, <2>2
<1>5. r = 0 /\ p = q
  BY <1>2, <1>3, <1>4
<1> QED
  BY <1>5 DEF p, r

LEMMA LargestUpTo ==
    ASSUME NEW n \in Nat, NEW S \in SUBSET (0..n), S # {}
    PROVE  Max(S) \in S /\ \A k \in S : k <= Max(S)
<1>. DEFINE rest == {n - k : k \in S}
<1>1. PICK r \in rest : \A q \in rest : r <= q
  <2>1. \A k \in S : n - k \in Nat
    OBVIOUS
  <2>2. rest \in SUBSET Nat /\ rest # {}
    BY <2>1
  <2>. HIDE DEF rest
  <2> QED
    BY <2>2, LeastNatural
<1>2. PICK m \in S : r = n - m
  OBVIOUS
<1>3. \A k \in S : m >= k
  <2> SUFFICES ASSUME NEW k \in S PROVE m >= k
    OBVIOUS
  <2>1. n - m <= n - k
    BY <1>1, <1>2
  <2>2. k \in Int /\ m \in Int
    OBVIOUS
  <2> QED
    BY <2>1, <2>2
<1>4. Max(S) \in S /\ \A k \in S : Max(S) >= k
  BY <1>3, Zenon DEF Max
<1>. DEFINE top == Max(S)
<1>. HIDE DEF top
<1>5. top \in S /\ \A k \in S : top >= k
  BY <1>4 DEF top
<1>6. \A k \in S : k \in Int
  OBVIOUS
<1>7. \A k \in S : k <= top
  BY <1>5, <1>6
<1> QED
  BY <1>5, <1>7 DEF top

LEMMA LargestIndex ==
    ASSUME NEW n \in Nat, NEW S \in SUBSET (1..n), S # {}
    PROVE  Max(S) \in S /\ \A k \in S : k <= Max(S)
<1>1. S \in SUBSET (0..n)
  OBVIOUS
<1> QED
  BY <1>1, LargestUpTo

Common(n, d) == {k \in 1..Magnitude(d) : n % k = 0 /\ d % k = 0}

LEMMA CommonDivisor ==
    ASSUME NEW n \in Int, NEW d \in Int, d # 0
    PROVE  /\ Max(Common(n, d)) \in Common(n, d) /\ \A k \in Common(n, d) : k <= Max(Common(n, d))
           /\ Max(Common(n, d)) \in Nat \ {0}
<1>1. Magnitude(d) \in Nat /\ Magnitude(d) >= 1
  BY DEF Magnitude
<1>. DEFINE S == Common(n, d)
            M == Magnitude(d)
<1>2. S \in SUBSET (1..M)
  BY DEF Common
<1>3. 1 \in S /\ S # {}
  <2>1. n % 1 = 0 /\ d % 1 = 0
    BY Divided
  <2> QED
    BY <1>1, <2>1 DEF Common
<1>. HIDE DEF S, M
<1>4. M \in Nat
  BY <1>1 DEF M
<1>5. Max(S) \in S /\ \A k \in S : k <= Max(S)
  BY <1>2, <1>3, <1>4, LargestIndex
<1>6. Max(S) \in Nat \ {0}
  <2>1. Max(S) \in 1..M
    BY <1>2, <1>5
  <2> QED
    BY <1>4, <2>1
<1> QED
  BY <1>5, <1>6 DEF S

\* What is left of two numbers without their greatest common divisor has none
\* but one.
LEMMA Reduces ==
    ASSUME NEW n \in Int, NEW d \in Int, d # 0
    PROVE  /\ Reduced(n, d)[1] \in Int /\ Reduced(n, d)[2] \in Nat \ {0}
           /\ Reduced(n, d) = <<Reduced(n, d)[1], Reduced(n, d)[2]>>
           /\ Common(Reduced(n, d)[1], Reduced(n, d)[2]) = {1}
<1>. DEFINE s == IF d < 0 THEN -1 ELSE 1
            c == Max(Common(n, d))
            p == (s * n) \div c
            q == (s * d) \div c
<1>1. Reduced(n, d) = <<p, q>>
  BY DEF Reduced, Common
<1>2. /\ c \in Nat \ {0} /\ c <= Magnitude(d) /\ n % c = 0 /\ d % c = 0
      /\ \A k \in Common(n, d) : k <= c
  <2>. HIDE DEF c
  <2>1. c \in Common(n, d) /\ (\A k \in Common(n, d) : k <= c) /\ c \in Nat \ {0}
    BY CommonDivisor DEF c
  <2>2. c \in 1..Magnitude(d) /\ n % c = 0 /\ d % c = 0
    BY <2>1 DEF Common
  <2>3. Magnitude(d) \in Int
    BY DEF Magnitude
  <2> QED
    BY <2>1, <2>2, <2>3
<1>. HIDE DEF c
<1>3. PICK u \in Int : n = c * u
  <2>1. n \div c \in Int /\ n = c * (n \div c) + (n % c)
    BY <1>2, Division
  <2>2. n = c * (n \div c)
    BY <1>2, <2>1
  <2> QED
    BY <2>1, <2>2
<1>4. PICK v \in Int : d = c * v
  <2>1. d \div c \in Int /\ d = c * (d \div c) + (d % c)
    BY <1>2, Division
  <2>2. d = c * (d \div c)
    BY <1>2, <2>1
  <2> QED
    BY <2>1, <2>2
<1>5. s * n = c * (s * u) /\ s * d = c * (s * v) /\ s * u \in Int /\ s * v \in Int
  <2>1. s \in Int
    OBVIOUS
  <2>2. n \in Int /\ d \in Int /\ u \in Int /\ v \in Int /\ c \in Int
    BY <1>2
  <2>. HIDE DEF s
  <2>3. s * (c * u) = c * (s * u) /\ s * (c * v) = c * (s * v) /\ s * u \in Int /\ s * v \in Int
    BY <2>1, <2>2
  <2> QED
    BY <1>3, <1>4, <2>3
<1>6. p = s * u /\ q = s * v
  <2>1. s * n \in Int /\ s * d \in Int
    OBVIOUS
  <2>. DEFINE a == s * n
              b == s * d
              x == s * u
              y == s * v
  <2>2. a \in Int /\ b \in Int /\ x \in Int /\ y \in Int /\ a = c * x /\ b = c * y
    BY <1>5, <2>1
  <2>. HIDE DEF a, b, x, y
  <2>3. a \div c = x /\ b \div c = y
    BY <1>2, <2>2, Divided
  <2> QED
    BY <2>3 DEF a, b, x, y
<1>7. q \in Nat \ {0}
  <2>1. s * d >= 1 /\ s * v \in Int /\ c * (s * v) >= 1
    BY <1>5
  <2>. DEFINE y == s * v
  <2>2. y \in Int /\ c * y >= 1
    BY <2>1
  <2>. HIDE DEF y
  <2>3. ~(y <= 0)
    <3> SUFFICES ASSUME y <= 0 PROVE FALSE
      OBVIOUS
    <3>1. c * y <= 0
      BY <1>2, <2>2
    <3> QED
      BY <2>2, <3>1, <1>2
  <2> QED
    BY <1>6, <2>2, <2>3 DEF y
<1>8. ASSUME NEW k \in Common(p, q) PROVE k = 1
  <2>1. k \in 1..q /\ p % k = 0 /\ q % k = 0 /\ k \in Nat \ {0} /\ p \in Int /\ q \in Int
    BY <1>5, <1>6, <1>7 DEF Common, Magnitude
  <2>2. PICK x \in Int : p = k * x
    <3>1. p \div k \in Int /\ p = k * (p \div k) + (p % k)
      BY <2>1, Division
    <3>2. p = k * (p \div k)
      BY <2>1, <3>1
    <3> QED
      BY <3>1, <3>2
  <2>3. PICK y \in Int : q = k * y
    <3>1. q \div k \in Int /\ q = k * (q \div k) + (q % k)
      BY <2>1, Division
    <3>2. q = k * (q \div k)
      BY <2>1, <3>1
    <3> QED
      BY <3>1, <3>2
  <2>4. s * s = 1 /\ s \in Int
    OBVIOUS
  <2>5. n = c * (s * p) /\ d = c * (s * q)
    <3>1. s * p = (s * s) * u /\ s * q = (s * s) * v
      BY <1>6, <2>4
    <3>2. s * p = u /\ s * q = v
      BY <2>4, <3>1
    <3> QED
      BY <1>3, <1>4, <3>2
  <2>. HIDE DEF s, p, q
  <2>6. n = (c * k) * (s * x) /\ d = (c * k) * (s * y)
    <3>1. c \in Int /\ k \in Int
      BY <1>2, <2>1
    <3>2. c * (s * (k * x)) = (c * k) * (s * x)
      BY <2>4, <3>1
    <3>3. c * (s * (k * y)) = (c * k) * (s * y)
      BY <2>4, <3>1
    <3> QED
      BY <2>2, <2>3, <2>5, <3>2, <3>3
  <2>. DEFINE m == c * k
              w == s * x
              z == s * y
  <2>7. m \in Nat \ {0} /\ w \in Int /\ z \in Int /\ m >= k
    BY <1>2, <2>1, <2>4
  <2>8. n = m * w /\ d = m * z
    BY <2>6
  <2>9. m <= Magnitude(d)
    <3>. HIDE DEF m, w, z
    <3>1. z # 0
      BY <2>7, <2>8
    <3>2. CASE z >= 1
      <4>1. m * z >= m
        BY <2>7, <3>2
      <4> QED
        BY <2>7, <2>8, <4>1 DEF Magnitude
    <3>3. CASE z <= -1
      <4>1. m * z <= -m
        BY <2>7, <3>3
      <4> QED
        BY <2>7, <2>8, <4>1 DEF Magnitude
    <3> QED
      BY <2>7, <3>1, <3>2, <3>3
  <2>10. n % m = 0 /\ d % m = 0
    <3>. HIDE DEF m, w, z
    <3> QED
      BY <2>7, <2>8, Divided
  <2>11. m \in Common(n, d)
    <3>. HIDE DEF m
    <3>1. m \in 1..Magnitude(d)
      BY <2>7, <2>9 DEF Magnitude
    <3> QED
      BY <2>10, <3>1 DEF Common
  <2>12. c * k <= c
    BY <1>2, <2>11
  <2>13. ~(k >= 2)
    <3> SUFFICES ASSUME k >= 2 PROVE FALSE
      OBVIOUS
    <3>1. c * k >= c * 2
      BY <1>2, <2>1
    <3> QED
      BY <1>2, <2>12, <3>1, <2>1
  <2> QED
    BY <2>1, <2>13
<1>9. 1 \in Common(p, q)
  <2>1. p \in Int /\ q \in Int /\ p = 1 * p /\ q = 1 * q /\ 1 \in Nat \ {0}
    BY <1>5, <1>6, <1>7
  <2>. HIDE DEF p, q
  <2>2. p % 1 = 0 /\ q % 1 = 0
    BY <2>1, Divided
  <2> QED
    BY <1>7, <2>2 DEF Common, Magnitude
<1>10. Common(p, q) = {1} /\ p \in Int
  BY <1>5, <1>6, <1>8, <1>9
<1>. HIDE DEF p, q
<1> QED
  BY <1>1, <1>7, <1>10

\* A ratio in lowest terms stays as it is.
LEMMA ReducedStays ==
    ASSUME NEW n \in Int, NEW d \in Nat \ {0}, Common(n, d) = {1}
    PROVE  Reduced(n, d) = <<n, d>>
<1>1. Max({1}) = 1
  BY DEF Max
<1>2. Reduced(n, d) = <<(1 * n) \div 1, (1 * d) \div 1>>
  <2>. DEFINE s == IF d < 0 THEN -1 ELSE 1
              c == Max(Common(n, d))
  <2>1. Reduced(n, d) = <<(s * n) \div c, (s * d) \div c>>
    BY DEF Reduced, Common
  <2>2. s = 1 /\ c = 1
    BY <1>1
  <2>. HIDE DEF s, c
  <2> QED
    BY <2>1, <2>2
<1>3. n \div 1 = n /\ d \div 1 = d
  BY Divided
<1> QED
  BY <1>2, <1>3

IsRatio(r) ==
    /\ r[1] \in Int /\ r[2] \in Nat \ {0} /\ r = <<r[1], r[2]>>
    /\ Reduced(r[1], r[2]) = r

LEMMA ReducedIsRatio ==
    ASSUME NEW n \in Int, NEW d \in Int, d # 0
    PROVE  IsRatio(Reduced(n, d))
  BY Reduces, ReducedStays DEF IsRatio

LEMMA WholeIsRatio == ASSUME NEW n \in Int PROVE IsRatio(<<n, 1>>)
<1>1. Common(n, 1) = {1}
  <2>1. n % 1 = 0 /\ 1 % 1 = 0
    BY Divided
  <2> QED
    BY <2>1 DEF Common, Magnitude
<1>2. Reduced(n, 1) = <<n, 1>>
  BY <1>1, ReducedStays
<1> QED
  BY <1>2 DEF IsRatio

(***************************************************************************)
(* Values                                                                  *)
(***************************************************************************)
LEMMA ExactIsRatio ==
    ASSUME NEW t \in Texts, Exact(t) # None
    PROVE  IsRatio(Exact(t))
<1>. DEFINE l == RationalLiteral(Spelling[t])
<1>1. Spelling[t] \in Spellings /\ 10 ^ Spelling[t].places \in Nat \ {0}
  BY TextAssumption
<1>2. l \in Spellings
  <2>1. CASE Spelling[t].form = "decimal"
    BY <1>1, <2>1 DEF RationalLiteral, Spellings
  <2>2. CASE Spelling[t].form # "decimal"
    BY <1>1, <2>2 DEF RationalLiteral
  <2> QED
    BY <2>1, <2>2
<1>. HIDE DEF l
<1>3. RationalFromStr(l) # None
  BY DEF Exact, l
<1>4. CASE l.form = "ratio" /\ l.den # 0
  <2>1. RationalFromStr(l) = Reduced(l.digits, l.den)
    BY <1>4 DEF RationalFromStr
  <2>2. l.digits \in Int /\ l.den \in Int
    BY <1>2 DEF Spellings
  <2> QED
    BY <1>4, <2>1, <2>2, ReducedIsRatio DEF Exact, l
<1>5. CASE l.form = "integer"
  <2>1. RationalFromStr(l) = <<l.digits, 1>>
    BY <1>5 DEF RationalFromStr
  <2>2. l.digits \in Int
    BY <1>2 DEF Spellings
  <2> QED
    BY <2>1, <2>2, WholeIsRatio DEF Exact, l
<1>6. (l.form = "ratio" /\ l.den # 0) \/ l.form = "integer"
  BY <1>3 DEF RationalFromStr
<1> QED
  BY <1>4, <1>5, <1>6

\* What rational_from_str takes as it stands is no decimal.
LEMMA ExactAsSpelled ==
    ASSUME NEW t \in Texts, RationalFromStr(Spelling[t]) # None
    PROVE  Exact(t) = RationalFromStr(Spelling[t])
<1>1. Spelling[t].form # "decimal"
  BY DEF RationalFromStr
<1> QED
  BY <1>1 DEF Exact, RationalLiteral

\* The canonical text of a number spells the number, and is read from XML as
\* it is written.
LEMMA CanonicalSpells ==
    ASSUME NEW t \in Texts, Exact(t) # None
    PROVE  LET r == Exact(t)
               c == Canonical(Exact(t))
           IN /\ c \in Texts
              /\ RationalFromStr(Spelling[c]) = r /\ Exact(c) = r
              /\ InElement[c] = c /\ InAttribute[c] = c
<1>. DEFINE r == Exact(t)
            c == Canonical(r)
<1>1. IsRatio(r) /\ r # None
  BY ExactIsRatio
<1>2. /\ \E d \in Texts : Spells(d, r)
      /\ InElement[c] = c /\ InAttribute[c] = c
  BY CanonicalAssumption
<1>3. c \in Texts /\ Spells(c, r)
  BY <1>2, Zenon DEF Canonical
<1>. HIDE DEF r, c
<1>4. Spelling[c].form = "ratio" /\ Spelling[c].digits = r[1] /\ Spelling[c].den = r[2]
  BY <1>3 DEF Spells
<1>5. RationalFromStr(Spelling[c]) = r
  BY <1>1, <1>4 DEF RationalFromStr, IsRatio
<1>6. Exact(c) = r
  BY <1>1, <1>3, <1>5, ExactAsSpelled
<1> QED
  BY <1>2, <1>3, <1>5, <1>6 DEF r, c

\* A value is one of five kinds, and a document gives it back as it was.
LEMMA BlankReadsBack == /\ Blank \in CellValues /\ ValueFromExpr(ValueToExpr(Blank)) = Blank
                        /\ Blank.kind = "blank"
  BY TextAssumption DEF Blank, CellValue, CellValues, ValueToExpr, ValueFromExpr

LEMMA TextReadsBack ==
    ASSUME NEW t \in Texts
    PROVE  /\ Text(t) \in CellValues /\ ValueFromExpr(ValueToExpr(Text(t))) = Text(t)
           /\ Text(t).kind = "text" /\ Text(t).text = t
  BY DEF Text, CellValue, CellValues, ValueToExpr, ValueFromExpr

LEMMA BoolReadsBack ==
    ASSUME NEW b \in BOOLEAN
    PROVE  /\ Bool(b) \in CellValues /\ ValueFromExpr(ValueToExpr(Bool(b))) = Bool(b)
           /\ Bool(b).kind = "bool" /\ (Bool(b).ratio = <<1, 1>>) = b
<1>1. Bool(b) \in CellValues /\ Bool(b).kind = "bool"
  BY TextAssumption DEF Bool, CellValue, CellValues
<1>2. (Bool(b).ratio = <<1, 1>>) = b
  <2>1. CASE b = TRUE
    BY <2>1 DEF Bool, CellValue
  <2>2. CASE b = FALSE
    BY <2>2 DEF Bool, CellValue
  <2> QED
    BY <2>1, <2>2
<1>3. ValueToExpr(Bool(b)).kind = "bool" /\ ValueToExpr(Bool(b)).truth = b
  BY <1>1, <1>2 DEF ValueToExpr
<1> QED
  BY <1>1, <1>2, <1>3 DEF ValueFromExpr

LEMMA FormulaReadsBack ==
    ASSUME NEW t \in Texts, NEW n \in Nat
    PROVE  /\ Formula(t, n) \in CellValues /\ ValueFromExpr(ValueToExpr(Formula(t, n))) = Formula(t, n)
           /\ Formula(t, n).kind = "formula" /\ Formula(t, n).text = t /\ Formula(t, n).equals = n
  BY DEF Formula, CellValue, CellValues, ValueToExpr, ValueFromExpr

LEMMA NumberReadsBack ==
    ASSUME NEW t \in Texts, Exact(t) # None
    PROVE  /\ Number(Exact(t)) \in CellValues
           /\ ValueFromExpr(ValueToExpr(Number(Exact(t)))) = Number(Exact(t))
           /\ Number(Exact(t)).kind = "number" /\ Number(Exact(t)).ratio = Exact(t)
<1>. DEFINE r == Exact(t)
<1>1. IsRatio(r) /\ r # None /\ RationalFromStr(Spelling[Canonical(r)]) = r
  BY ExactIsRatio, CanonicalSpells
<1>. HIDE DEF r
<1>2. Number(r).kind = "number" /\ Number(r).ratio = r /\ Number(r).text = Empty
      /\ Number(r).equals = 0
  BY DEF Number, CellValue
<1>3. Number(r) \in CellValues
  <2>1. r \in Int \X Int
    BY <1>1 DEF IsRatio
  <2> QED
    BY <2>1, TextAssumption DEF Number, CellValue, CellValues
<1>4. ValueToExpr(Number(r)).kind = "number" /\ ValueToExpr(Number(r)).literal = Canonical(r)
  BY <1>2 DEF ValueToExpr
<1>5. ValueFromExpr(ValueToExpr(Number(r))) = Number(r)
  BY <1>1, <1>4 DEF ValueFromExpr
<1> QED
  BY <1>2, <1>3, <1>5 DEF r

LEMMA ValuesReadBack ==
    ASSUME NEW v, IsValue(v)
    PROVE  /\ v \in CellValues /\ v # None
           /\ ValueFromExpr(ValueToExpr(v)) = v
<1>1. v \in CellValues /\ ValueFromExpr(ValueToExpr(v)) = v
  BY BlankReadsBack, TextReadsBack, BoolReadsBack, FormulaReadsBack, NumberReadsBack DEF IsValue
<1> QED
  BY <1>1, NoneAssumption

LEMMA NumbersAreValues ==
    ASSUME NEW t \in Texts
    PROVE  /\ NumberOf(t) = None \/ (IsValue(NumberOf(t)) /\ NumberOf(t).kind = "number")
           /\ RationalFromStr(Spelling[t]) # None =>
                 /\ IsValue(Number(RationalFromStr(Spelling[t])))
                 /\ Number(RationalFromStr(Spelling[t])).kind = "number"
<1>1. CASE Exact(t) # None
  <2>1. NumberOf(t) = Number(Exact(t)) /\ NumberOf(t).kind = "number"
    BY <1>1, NumberReadsBack DEF NumberOf
  <2>2. IsValue(NumberOf(t))
    BY <1>1, <2>1 DEF IsValue
  <2> QED
    BY <2>1, <2>2, ExactAsSpelled
<1>2. CASE Exact(t) = None
  <2>1. NumberOf(t) = None
    BY <1>2 DEF NumberOf
  <2> QED
    BY <1>2, <2>1, ExactAsSpelled
<1> QED
  BY <1>1, <1>2

LEMMA TruthsAreValues ==
    ASSUME NEW t \in Texts
    PROVE  BoolOf(t) = None \/ (IsValue(BoolOf(t)) /\ BoolOf(t).kind = "bool")
<1>1. CASE Truth[t] = "neither"
  BY <1>1 DEF BoolOf
<1>2. CASE Truth[t] # "neither"
  <2>. DEFINE b == Truth[t] = "true"
  <2>1. BoolOf(t) = Bool(b) /\ b \in BOOLEAN
    BY <1>2 DEF BoolOf
  <2>. HIDE DEF b
  <2> QED
    BY <2>1, BoolReadsBack DEF IsValue
<1> QED
  BY <1>1, <1>2

LEMMA TextsAreValues == ASSUME NEW t \in Texts PROVE IsValue(Text(t)) /\ Text(t).kind = "text"
  BY TextReadsBack DEF IsValue

LEMMA FormulasAreValues ==
    ASSUME NEW t \in Texts, NEW n \in Nat
    PROVE  IsValue(Formula(t, n)) /\ Formula(t, n).kind = "formula"
<1>. DEFINE v == Formula(t, n)
<1>1. v.text = t /\ v.equals = n /\ v.kind = "formula" /\ v = Formula(t, n)
  BY FormulaReadsBack
<1>. HIDE DEF v
<1>2. IsValue(v)
  BY <1>1 DEF IsValue
<1> QED
  BY <1>1, <1>2 DEF v

LEMMA BlankIsValue == IsValue(Blank)
  BY DEF IsValue

(***************************************************************************)
(* Sheets from cells set one after the other                               *)
(***************************************************************************)
\* What is set in a cell is what `val` has for it.
Written(writes, val) ==
    /\ Len(writes) \in Nat
    /\ \A i \in 1..Len(writes) :
          /\ ParseCell(writes[i].at) # None /\ writes[i].value # None
          /\ writes[i].value = val[ParseCell(writes[i].at)]

WrittenCells(writes, val) ==
    [c \in {d \in {ParseCell(writes[i].at) : i \in 1..Len(writes)} : val[d] # Blank} |-> val[c]]

LastAt(cell, n, c) == Max({i \in 1..n : cell[i] = c})

LEMMA LastIsThere ==
    ASSUME NEW n \in Nat, NEW cell, NEW c, \E i \in 1..n : cell[i] = c
    PROVE  LastAt(cell, n, c) \in 1..n /\ cell[LastAt(cell, n, c)] = c
<1>. DEFINE S == {i \in 1..n : cell[i] = c}
<1>1. S \in SUBSET (1..n) /\ S # {}
  OBVIOUS
<1>2. Max(S) \in S
  <2>. HIDE DEF S
  <2> QED
    BY <1>1, LargestIndex
<1> QED
  BY <1>2 DEF LastAt

LEMMA SheetOfUnfolds ==
    ASSUME NEW name, NEW writes, Len(writes) \in Nat
    PROVE  LET cell == [i \in 1..Len(writes) |-> ParseCell(writes[i].at)]
               last(c) == writes[LastAt(cell, Len(writes), c)].value
           IN SheetOf(name, writes) =
                 IF \E i \in 1..Len(writes) : cell[i] = None \/ writes[i].value = None
                 THEN NoSheet
                 ELSE [name |-> name,
                       cells |-> [c \in {d \in {cell[i] : i \in 1..Len(writes)} : last(d) # Blank}
                                     |-> last(c)]]
  BY DEF SheetOf, LastAt, ToSet

LEMMA SheetOfWritten ==
    ASSUME NEW name, NEW writes, NEW val, Written(writes, val)
    PROVE  SheetOf(name, writes) = [name |-> name, cells |-> WrittenCells(writes, val)]
<1>. DEFINE n == Len(writes)
            cell == [i \in 1..n |-> ParseCell(writes[i].at)]
            last(c) == writes[LastAt(cell, n, c)].value
            D == {cell[i] : i \in 1..n}
<1>1. n \in Nat
  BY DEF Written
<1>2. /\ \A i \in 1..n : cell[i] # None /\ writes[i].value # None
      /\ \A i \in 1..n : writes[i].value = val[cell[i]]
      /\ D = {ParseCell(writes[i].at) : i \in 1..n}
  BY DEF Written
<1>3. SheetOf(name, writes) =
         IF \E i \in 1..n : cell[i] = None \/ writes[i].value = None
         THEN NoSheet
         ELSE [name |-> name, cells |-> [c \in {d \in D : last(d) # Blank} |-> last(c)]]
  BY <1>1, SheetOfUnfolds
<1>. HIDE DEF cell
<1>4. \A c \in D : last(c) = val[c]
  <2> SUFFICES ASSUME NEW c \in D PROVE last(c) = val[c]
    OBVIOUS
  <2>1. \E i \in 1..n : cell[i] = c
    OBVIOUS
  <2>. HIDE DEF n, D
  <2>2. LastAt(cell, n, c) \in 1..n /\ cell[LastAt(cell, n, c)] = c
    BY <1>1, <2>1, LastIsThere
  <2> QED
    BY <1>2, <2>2
<1>. HIDE DEF last, D, n
<1>5. SheetOf(name, writes) =
         [name |-> name, cells |-> [c \in {d \in D : last(d) # Blank} |-> last(c)]]
  BY <1>2, <1>3
<1>6. {d \in D : last(d) # Blank} = {d \in D : val[d] # Blank}
  BY <1>4
<1>7. [c \in {d \in D : last(d) # Blank} |-> last(c)]
         = [c \in {d \in D : val[d] # Blank} |-> val[c]]
  BY <1>4, <1>6
<1> QED
  BY <1>2, <1>5, <1>7 DEF n, WrittenCells

LEMMA SheetOfTyped ==
    ASSUME NEW name \in Texts, NEW writes, Len(writes) \in Nat,
           \A i \in 1..Len(writes) : writes[i].value = None \/ IsValue(writes[i].value)
    PROVE  SheetOf(name, writes) = NoSheet \/ IsSheet(SheetOf(name, writes))
<1>. DEFINE n == Len(writes)
            cell == [i \in 1..n |-> ParseCell(writes[i].at)]
            last(c) == writes[LastAt(cell, n, c)].value
            D == {cell[i] : i \in 1..n}
            E == {d \in D : last(d) # Blank}
            s == SheetOf(name, writes)
<1>1. SheetOf(name, writes) =
         IF \E i \in 1..n : cell[i] = None \/ writes[i].value = None
         THEN NoSheet
         ELSE [name |-> name, cells |-> [c \in E |-> last(c)]]
  BY SheetOfUnfolds
<1>2. n \in Nat
  OBVIOUS
<1>3. \A i \in 1..n : cell[i] = ParseCell(writes[i].at)
  OBVIOUS
<1>. HIDE DEF cell, n
<1>4. CASE \E i \in 1..n : cell[i] = None \/ writes[i].value = None
  BY <1>1, <1>4
<1>5. CASE ~\E i \in 1..n : cell[i] = None \/ writes[i].value = None
  <2>1. s = [name |-> name, cells |-> [c \in E |-> last(c)]]
    BY <1>1, <1>5
  <2>2. \A i \in 1..n : IsValue(writes[i].value) /\ cell[i] \in Cells
    BY <1>3, <1>5, ParsedCell DEF n
  <2>3. D \in SUBSET Cells /\ IsFiniteSet(D)
    <3>1. D \in SUBSET Cells
      BY <2>2
    <3>. DEFINE f == [i \in 1..n |-> cell[i]]
    <3>2. f \in Surjection(1..n, D)
      BY DEF Surjection
    <3>3. IsFiniteSet(1..n)
      BY <1>2, FS_Interval
    <3>. HIDE DEF f, D
    <3>4. IsFiniteSet(D)
      BY <3>2, <3>3, FS_Surjection
    <3> QED
      BY <3>1, <3>4
  <2>4. \A c \in D : IsValue(last(c))
    <3> SUFFICES ASSUME NEW c \in D PROVE IsValue(last(c))
      OBVIOUS
    <3>1. \E i \in 1..n : cell[i] = c
      OBVIOUS
    <3>. HIDE DEF D
    <3>2. LastAt(cell, n, c) \in 1..n
      BY <1>2, <3>1, LastIsThere
    <3> QED
      BY <2>2, <3>2
  <2>. HIDE DEF D, last, s
  <2>5. E \subseteq D /\ \A c \in E : IsValue(last(c)) /\ last(c) # Blank
    BY <2>4
  <2>6. IsFiniteSet(E) /\ E \subseteq Cells
    BY <2>3, <2>5, FS_Subset
  <2>. HIDE DEF E
  <2>7. s.name = name /\ s.cells = [c \in E |-> last(c)]
    BY <2>1
  <2>8. DOMAIN s.cells = E /\ (\A c \in E : s.cells[c] = last(c))
        /\ s.cells = [c \in DOMAIN s.cells |-> s.cells[c]]
    BY <2>7
  <2>9. IsSheet(s)
    BY <2>1, <2>5, <2>6, <2>7, <2>8 DEF IsSheet
  <2> QED
    BY <2>9 DEF s
<1> QED
  BY <1>4, <1>5

\* A sheet that is set cell by cell, in any order, is the sheet again.
LEMMA SheetSet ==
    ASSUME NEW s, IsSheet(s), NEW order \in Seq(DOMAIN s.cells),
           \A c \in DOMAIN s.cells : \E i \in 1..Len(order) : order[i] = c,
           NEW writes, Len(writes) = Len(order),
           \A i \in 1..Len(order) :
              writes[i].at = Display(order[i]) /\ writes[i].value = s.cells[order[i]]
    PROVE  SheetOf(s.name, writes) = s
<1>. DEFINE D == DOMAIN s.cells
            val == s.cells
<1>1. Len(writes) \in Nat /\ \A i \in 1..Len(writes) : order[i] \in D
  OBVIOUS
<1>2. \A i \in 1..Len(writes) : ParseCell(writes[i].at) = order[i] /\ order[i] # None
  BY <1>1, CellsReadBack, CellsAreSome DEF IsSheet
<1>3. \A i \in 1..Len(writes) : writes[i].value = val[order[i]] /\ writes[i].value # None
  BY <1>1, ValuesReadBack DEF IsSheet
<1>4. Written(writes, val)
  BY <1>1, <1>2, <1>3 DEF Written
<1>5. {d \in {ParseCell(writes[i].at) : i \in 1..Len(writes)} : val[d] # Blank} = D
  BY <1>1, <1>2 DEF IsSheet
<1>6. SheetOf(s.name, writes) = [name |-> s.name, cells |-> [c \in D |-> val[c]]]
  <2>. HIDE DEF val, D
  <2>1. SheetOf(s.name, writes) = [name |-> s.name, cells |-> WrittenCells(writes, val)]
    BY <1>4, SheetOfWritten
  <2> QED
    BY <1>5, <2>1 DEF WrittenCells
<1> QED
  BY <1>6 DEF IsSheet

\* A document gives back the sheet it was made of.
LEMMA DocumentsReadBack ==
    ASSUME NEW s, IsSheet(s), NEW id
    PROVE  /\ SheetFromExpr(SheetToExpr(s)) = s
           /\ DocToSheet(SheetToDoc(id, s)) = s /\ s # NoSheet
           /\ SheetToDoc(id, s).kind = "sheet" /\ SheetToDoc(id, s).id = id
<1>. DEFINE D == DOMAIN s.cells
            order == ColumnsFirst(D)
            expr == SheetToExpr(s)
            writes == [i \in 1..Len(expr.cells) |->
                         [at |-> expr.cells[i].at, value |-> ValueFromExpr(expr.cells[i].value)]]
<1>1. order \in Seq(D) /\ \A c \in D : \E i \in 1..Len(order) : order[i] = c
  <2>1. D \in SUBSET Cells /\ IsFiniteSet(D)
    BY DEF IsSheet
  <2>. HIDE DEF D
  <2> QED
    BY <2>1, CellsPlaced
<1>2. /\ expr.name = s.name
      /\ expr.cells = [i \in 1..Len(order) |->
                         [at |-> Display(order[i]), value |-> ValueToExpr(s.cells[order[i]])]]
  BY DEF SheetToExpr
<1>. HIDE DEF order
<1>3. Len(order) \in Nat /\ \A i \in 1..Len(order) : order[i] \in D
  BY <1>1
<1>4. Len(expr.cells) = Len(order)
  BY <1>2, <1>3
<1>5. /\ Len(writes) = Len(order)
      /\ \A i \in 1..Len(order) :
            writes[i].at = Display(order[i]) /\ writes[i].value = s.cells[order[i]]
  <2>1. Len(writes) = Len(order)
    BY <1>3, <1>4
  <2>2. ASSUME NEW i \in 1..Len(order)
        PROVE  writes[i].at = Display(order[i]) /\ writes[i].value = s.cells[order[i]]
    <3>1. expr.cells[i].at = Display(order[i])
          /\ expr.cells[i].value = ValueToExpr(s.cells[order[i]])
      BY <1>2
    <3>2. ValueFromExpr(ValueToExpr(s.cells[order[i]])) = s.cells[order[i]]
      BY <1>3, ValuesReadBack DEF IsSheet
    <3>. HIDE DEF expr
    <3> QED
      BY <1>4, <3>1, <3>2
  <2> QED
    BY <2>1, <2>2
<1>6. SheetFromExpr(expr) = SheetOf(s.name, writes)
  BY <1>2 DEF SheetFromExpr
<1>. HIDE DEF expr, writes
<1>7. SheetFromExpr(expr) = s
  BY <1>1, <1>5, <1>6, SheetSet
<1>8. s # NoSheet
  <2>1. s.name # None
    BY TextAssumption DEF IsSheet
  <2> QED
    BY <2>1 DEF NoSheet
<1> QED
  BY <1>7, <1>8 DEF DocToSheet, SheetToDoc, expr

(***************************************************************************)
(* Lists                                                                   *)
(***************************************************************************)
LEMMA Listed ==
    ASSUME NEW S, NEW s \in Seq(S)
    PROVE  /\ IsList(s) /\ ToSet(s) = {s[i] : i \in 1..Len(s)} /\ ToSet(s) \subseteq S
           /\ Len(s) \in Nat
<1>1. /\ Len(s) \in Nat /\ DOMAIN s = 1..Len(s) /\ s \in [1..Len(s) -> S]
  BY LenProperties
<1>2. ToSet(s) = {s[i] : i \in 1..Len(s)}
  BY <1>1 DEF ToSet
<1>3. s \in [1..Len(s) -> ToSet(s)]
  BY <1>1, <1>2
<1>4. s \in Seq(ToSet(s))
  BY <1>1, <1>3, SeqDef
<1> QED
  BY <1>1, <1>2, <1>4 DEF IsList

LEMMA EmptyList == IsList(<<>>) /\ ToSet(<<>>) = {}
<1>1. ToSet(<<>>) = {}
  BY DEF ToSet
<1>2. <<>> \in Seq(ToSet(<<>>))
  BY EmptySeq
<1> QED
  BY <1>1, <1>2 DEF IsList

LEMMA ListIs ==
    ASSUME NEW s, IsList(s)
    PROVE  /\ Len(s) \in Nat /\ s = [i \in 1..Len(s) |-> s[i]]
           /\ ToSet(s) = {s[i] : i \in 1..Len(s)}
<1>1. s \in Seq(ToSet(s))
  BY DEF IsList
<1>. DEFINE T == ToSet(s)
<1>2. s \in [1..Len(s) -> T] /\ Len(s) \in Nat
  <2>1. s \in Seq(T)
    BY <1>1
  <2>. HIDE DEF T
  <2> QED
    BY <2>1, LenProperties
<1>3. ToSet(s) = {s[i] : i \in 1..Len(s)}
  BY <1>1, Listed
<1> QED
  BY <1>2, <1>3

\* A function on 1..n is a list.
LEMMA ListBuilt ==
    ASSUME NEW n \in Nat, NEW s, s = [i \in 1..n |-> s[i]]
    PROVE  IsList(s) /\ Len(s) = n
<1>. DEFINE T == {s[i] : i \in 1..n}
<1>1. s \in [1..n -> T]
  OBVIOUS
<1>2. s \in Seq(T)
  BY <1>1, SeqDef
<1>3. Len(s) = n
  <2>. HIDE DEF T
  <2>1. DOMAIN s = 1..n /\ DOMAIN s = 1..Len(s) /\ Len(s) \in Nat
    BY <1>1, <1>2, LenProperties
  <2> QED
    BY <2>1
<1> QED
  BY <1>2, <1>3, Listed

LEMMA ListAppended ==
    ASSUME NEW s, IsList(s), NEW x
    PROVE  /\ IsList(Append(s, x)) /\ Len(Append(s, x)) = Len(s) + 1
           /\ \A i \in 1..Len(s) : Append(s, x)[i] = s[i]
           /\ Append(s, x)[Len(s) + 1] = x
<1>. DEFINE T == ToSet(s) \cup {x}
<1>1. s \in Seq(T) /\ x \in T
  BY SeqMonotonic DEF IsList
<1>. HIDE DEF T
<1>2. /\ Append(s, x) \in Seq(T) /\ Len(Append(s, x)) = Len(s) + 1
      /\ \A i \in 1..Len(s) : Append(s, x)[i] = s[i]
      /\ Append(s, x)[Len(s) + 1] = x
  BY <1>1, AppendProperties
<1> QED
  BY <1>2, Listed

LEMMA ListFront ==
    ASSUME NEW s, IsList(s), s # <<>>
    PROVE  /\ IsList(Front(s)) /\ Len(Front(s)) = Len(s) - 1 /\ Len(s) \in Nat \ {0}
           /\ \A i \in 1..Len(Front(s)) : Front(s)[i] = s[i]
<1>. DEFINE T == ToSet(s)
<1>1. s \in Seq(T)
  BY DEF IsList
<1>. HIDE DEF T
<1>2. Len(s) \in Nat \ {0}
  BY <1>1, EmptySeq
<1>3. \A i \in 1..(Len(s) - 1) : s[i] \in T
  BY <1>1, <1>2
<1>4. /\ SubSeq(s, 1, Len(s) - 1) \in Seq(T)
      /\ Len(SubSeq(s, 1, Len(s) - 1)) = IF 1 <= Len(s) - 1 THEN Len(s) - 1 - 1 + 1 ELSE 0
      /\ \A i \in 1..(Len(s) - 1 - 1 + 1) : SubSeq(s, 1, Len(s) - 1)[i] = s[1 + i - 1]
  BY <1>2, <1>3, SubSeqProperties
<1>5. Front(s) = SubSeq(s, 1, Len(s) - 1)
  BY DEF Front
<1>6. Len(Front(s)) = Len(s) - 1 /\ Front(s) \in Seq(T)
  <2>1. Len(SubSeq(s, 1, Len(s) - 1)) = Len(s) - 1
    <3>. DEFINE m == Len(s)
                l == Len(SubSeq(s, 1, Len(s) - 1))
    <3>1. m \in Nat \ {0} /\ l = IF 1 <= m - 1 THEN m - 1 - 1 + 1 ELSE 0
      BY <1>2, <1>4, Zenon
    <3>. HIDE DEF m, l
    <3>2. l = m - 1
      BY <3>1
    <3> QED
      BY <3>2, Zenon DEF l, m
  <2> QED
    BY <1>4, <1>5, <2>1, Zenon
<1>7. \A i \in 1..Len(Front(s)) : Front(s)[i] = s[i]
  <2> SUFFICES ASSUME NEW i \in 1..Len(Front(s)) PROVE Front(s)[i] = s[i]
    OBVIOUS
  <2>1. i \in 1..(Len(s) - 1 - 1 + 1) /\ 1 + i - 1 = i
    BY <1>2, <1>6
  <2> QED
    BY <1>4, <1>5, <2>1
<1>8. IsList(Front(s))
  BY <1>6, Listed
<1> QED
  BY <1>2, <1>6, <1>7, <1>8

LEMMA ListWithout ==
    ASSUME NEW s, IsList(s), NEW i \in 1..Len(s)
    PROVE  /\ IsList(RemoveAt(s, i))
           /\ \A j \in 1..Len(RemoveAt(s, i)) : \E k \in 1..Len(s) : RemoveAt(s, i)[j] = s[k]
<1>. DEFINE T == ToSet(s)
<1>1. s \in Seq(T)
  BY DEF IsList
<1>2. T = {s[k] : k \in 1..Len(s)} /\ Len(s) \in Nat
  BY ListIs
<1>. HIDE DEF T
<1>3. /\ \A k \in 1..(i - 1) : s[k] \in T
      /\ \A k \in (i + 1)..Len(s) : s[k] \in T
  BY <1>2
<1>4. SubSeq(s, 1, i - 1) \in Seq(T) /\ SubSeq(s, i + 1, Len(s)) \in Seq(T)
  BY <1>2, <1>3, SubSeqProperties
<1>5. RemoveAt(s, i) \in Seq(T)
  BY <1>4, ConcatProperties DEF RemoveAt
<1>6. IsList(RemoveAt(s, i))
  BY <1>5, Listed
<1>7. \A j \in 1..Len(RemoveAt(s, i)) : RemoveAt(s, i)[j] \in T
  BY <1>5, ElementOfSeq
<1> QED
  BY <1>2, <1>6, <1>7

(***************************************************************************)
(* Lists of lists                                                          *)
(***************************************************************************)
FlatTurn(ss, u, i) == IF i = 1 THEN ss[i] ELSE u[i - 1] \o ss[i]

LEMMA FlatSolved ==
    ASSUME NEW ss, Len(ss) \in Nat
    PROVE  \E u : u = [i \in 1..Len(ss) |-> FlatTurn(ss, u, i)]
<1>. DEFINE n == Len(ss)
            Right(u, k) == \A i \in 1..n : i < k => u[i] = FlatTurn(ss, u, i)
            wrong == {k \in Nat : ~ \E u : Right(u, k)}
            Longer(u) == [i \in 1..n |-> FlatTurn(ss, u, i)]
<1>1. n \in Nat
  OBVIOUS
<1>. HIDE DEF n
<1>2. ASSUME NEW k \in Nat, NEW u, Right(u, k) PROVE Right(Longer(u), k + 1)
  <2> SUFFICES ASSUME NEW i \in 1..n, i < k + 1
               PROVE  Longer(u)[i] = FlatTurn(ss, Longer(u), i)
    OBVIOUS
  <2>1. CASE i = 1
    BY <1>1, <2>1 DEF FlatTurn
  <2>2. CASE i # 1
    <3>1. i - 1 \in 1..n /\ i - 1 < k
      BY <1>1, <2>2
    <3>2. u[i - 1] = Longer(u)[i - 1]
      BY <1>2, <3>1
    <3> QED
      BY <2>2, <3>2 DEF FlatTurn
  <2> QED
    BY <2>1, <2>2
<1>3. wrong = {}
  <2> SUFFICES ASSUME wrong # {} PROVE FALSE
    OBVIOUS
  <2>1. PICK k \in wrong : \A l \in wrong : k <= l
    <3>1. wrong \in SUBSET Nat
      OBVIOUS
    <3>. HIDE DEF wrong
    <3> QED
      BY <3>1, LeastNatural
  <2>2. k # 0
    <3>1. Right(<<>>, 0)
      BY <1>1
    <3> QED
      BY <2>1, <3>1
  <2>3. k - 1 \in Nat /\ k - 1 \notin wrong /\ (k - 1) + 1 = k
    <3>1. k \in Nat
      OBVIOUS
    <3>. HIDE DEF wrong
    <3> QED
      BY <2>1, <2>2, <3>1
  <2>4. PICK u : Right(u, k - 1)
    BY <2>3
  <2>5. Right(Longer(u), k)
    <3>. HIDE DEF Right, Longer
    <3> QED
      BY <1>2, <2>3, <2>4
  <2> QED
    BY <2>1, <2>5
<1>4. PICK u : Right(u, n + 1)
  <2>1. n + 1 \in Nat /\ n + 1 \notin wrong
    <3>. HIDE DEF wrong
    <3> QED
      BY <1>1, <1>3
  <2>. HIDE DEF Right
  <2> QED
    BY <2>1
<1>5. Longer(u) = [i \in 1..n |-> FlatTurn(ss, Longer(u), i)]
  <2>1. \A i \in 1..n : i < n + 1 + 1
    BY <1>1
  <2>2. Right(Longer(u), n + 1 + 1)
    BY <1>1, <1>2, <1>4
  <2> QED
    BY <2>1, <2>2
<1> QED
  BY <1>5 DEF n

LEMMA FlattenIs ==
    ASSUME NEW ss, Len(ss) \in Nat \ {0}
    PROVE  \E u : /\ \A i \in 1..Len(ss) : u[i] = FlatTurn(ss, u, i)
                  /\ FlattenSeq(ss) = u[Len(ss)]
<1>. DEFINE u == CHOOSE w : w = [i \in 1..Len(ss) |-> FlatTurn(ss, w, i)]
<1>1. FlattenSeq(ss) = u[Len(ss)]
  BY DEF FlattenSeq, FlatTurn
<1>2. u = [i \in 1..Len(ss) |-> FlatTurn(ss, u, i)]
  BY FlatSolved
<1>3. \A i \in 1..Len(ss) : u[i] = FlatTurn(ss, u, i)
  <2>. HIDE DEF u
  <2> QED
    BY <1>2, Zenon
<1> QED
  BY <1>1, <1>3

LEMMA ElementsJoined ==
    ASSUME NEW S, NEW s \in Seq(S), NEW t \in Seq(S)
    PROVE  ToSet(s \o t) = ToSet(s) \cup ToSet(t)
<1>1. ToSet(s) = Range(s) /\ ToSet(t) = Range(t) /\ ToSet(s \o t) = Range(s \o t)
  BY DEF ToSet, Range
<1> QED
  BY <1>1, RangeConcatenation

\* What is in the joined lists is in one of them.
LEMMA Flattened ==
    ASSUME NEW S, NEW ss, Len(ss) \in Nat, ss = [i \in 1..Len(ss) |-> ss[i]],
           \A i \in 1..Len(ss) : ss[i] \in Seq(S)
    PROVE  /\ FlattenSeq(ss) \in Seq(S)
           /\ ToSet(FlattenSeq(ss)) = UNION {ToSet(ss[i]) : i \in 1..Len(ss)}
<1>1. CASE Len(ss) = 0
  <2>1. ss = <<>> /\ FlattenSeq(ss) = ss
    BY <1>1 DEF FlattenSeq
  <2>2. ToSet(<<>>) = {}
    BY DEF ToSet
  <2>3. UNION {ToSet(ss[i]) : i \in 1..Len(ss)} = {}
    BY <1>1
  <2>4. FlattenSeq(ss) = <<>>
    BY <2>1
  <2> QED
    BY <2>2, <2>3, <2>4, EmptySeq
<1>2. CASE Len(ss) # 0
  <2>. DEFINE n == Len(ss)
              Joined(u, k) == /\ u[k] \in Seq(S)
                              /\ ToSet(u[k]) = UNION {ToSet(ss[i]) : i \in 1..k}
  <2>1. PICK u : /\ \A i \in 1..n : u[i] = FlatTurn(ss, u, i)
                 /\ FlattenSeq(ss) = u[n]
    BY <1>2, FlattenIs
  <2>2. n \in Nat \ {0}
    BY <1>2
  <2>3. ASSUME NEW k \in 1..n, k # 1, Joined(u, k - 1) PROVE Joined(u, k)
    <3>1. u[k] = u[k - 1] \o ss[k]
      BY <2>1, <2>3 DEF FlatTurn
    <3>2. u[k] \in Seq(S) /\ ToSet(u[k]) = ToSet(u[k - 1]) \cup ToSet(ss[k])
      BY <2>3, <3>1, ElementsJoined, ConcatProperties
    <3>3. 1..k = 1..(k - 1) \cup {k}
      BY <2>2, <2>3
    <3>4. UNION {ToSet(ss[i]) : i \in 1..k}
             = (UNION {ToSet(ss[i]) : i \in 1..(k - 1)}) \cup ToSet(ss[k])
      BY <3>3, Zenon
    <3> QED
      BY <2>3, <3>2, <3>4
  <2>4. Joined(u, 1)
    <3>1. u[1] = ss[1] /\ 1 \in 1..n
      BY <2>1, <2>2 DEF FlatTurn
    <3>2. 1..1 = {1}
      OBVIOUS
    <3>3. UNION {ToSet(ss[i]) : i \in 1..1} = ToSet(ss[1])
      BY <3>2, Zenon
    <3> QED
      BY <3>1, <3>3
  <2>. DEFINE bad == {k \in 1..n : ~Joined(u, k)}
  <2>5. bad = {}
    <3> SUFFICES ASSUME bad # {} PROVE FALSE
      OBVIOUS
    <3>1. PICK k \in bad : \A l \in bad : k <= l
      <4>1. bad \in SUBSET Nat
        BY <2>2
      <4>. HIDE DEF bad
      <4> QED
        BY <4>1, LeastNatural
    <3>2. k \in 1..n /\ ~Joined(u, k)
      OBVIOUS
    <3>. HIDE DEF Joined, bad
    <3>3. k # 1
      BY <2>4, <3>2
    <3>4. k - 1 \in 1..n /\ ~(k <= k - 1)
      BY <2>2, <3>2, <3>3
    <3>5. Joined(u, k - 1)
      BY <3>1, <3>4 DEF bad
    <3> QED
      BY <2>3, <3>2, <3>3, <3>5
  <2>6. Joined(u, n)
    <3>1. n \in 1..n
      BY <2>2
    <3>. HIDE DEF Joined
    <3> QED
      BY <2>5, <3>1
  <2> QED
    BY <2>1, <2>6
<1> QED
  BY <1>1, <1>2

\* Joining lists of one gives the list of their elements.
LEMMA SinglesFlattened ==
    ASSUME NEW S, NEW s \in Seq(S)
    PROVE  FlattenSeq([i \in 1..Len(s) |-> <<s[i]>>]) = s
<1>. DEFINE n == Len(s)
            ss == [i \in 1..n |-> <<s[i]>>]
<1>1. n \in Nat /\ \A i \in 1..n : ss[i] = <<s[i]>>
  BY LenProperties
<1>2. Len(ss) = n
  BY <1>1
<1> SUFFICES FlattenSeq(ss) = s
  OBVIOUS
<1>. HIDE DEF ss
<1>3. CASE n = 0
  <2>1. FlattenSeq(ss) = ss /\ s = <<>>
    BY <1>2, <1>3, EmptySeq DEF FlattenSeq
  <2>2. ss = <<>>
    BY <1>3 DEF ss
  <2> QED
    BY <2>1, <2>2
<1>4. CASE n # 0
  <2>1. PICK u : /\ \A i \in 1..n : u[i] = FlatTurn(ss, u, i)
                 /\ FlattenSeq(ss) = u[n]
    BY <1>1, <1>2, <1>4, FlattenIs
  <2>. DEFINE bad == {k \in 1..n : u[k] # SubSeq(s, 1, k)}
  <2>2. u[1] = SubSeq(s, 1, 1)
    <3>1. 1 \in 1..n /\ 1 \in 1..Len(s)
      BY <1>1, <1>4
    <3>2. u[1] = <<s[1]>>
      BY <1>1, <2>1, <3>1 DEF FlatTurn
    <3>3. SubSeq(s, 1, 1) = SubSeq(s, 1, 1 - 1) \o <<s[1]>>
      BY <3>1, SubSeqRecursiveSecond
    <3>4. SubSeq(s, 1, 1 - 1) = <<>>
      BY SubSeqEmpty
    <3>5. <<>> \o <<s[1]>> = <<s[1]>>
      BY <3>1
    <3> QED
      BY <3>2, <3>3, <3>4, <3>5
  <2>3. bad = {}
    <3> SUFFICES ASSUME bad # {} PROVE FALSE
      OBVIOUS
    <3>1. PICK k \in bad : \A l \in bad : k <= l
      <4>1. bad \in SUBSET Nat
        BY <1>1
      <4>. HIDE DEF bad
      <4> QED
        BY <4>1, LeastNatural
    <3>2. k \in 1..n /\ u[k] # SubSeq(s, 1, k)
      OBVIOUS
    <3>3. k # 1
      BY <2>2, <3>2
    <3>4. k - 1 \in 1..n /\ ~(k <= k - 1)
      BY <1>1, <3>2, <3>3
    <3>5. u[k - 1] = SubSeq(s, 1, k - 1)
      BY <3>1, <3>4
    <3>6. u[k] = u[k - 1] \o <<s[k]>>
      BY <1>1, <2>1, <3>2, <3>3 DEF FlatTurn
    <3>7. SubSeq(s, 1, k) = SubSeq(s, 1, k - 1) \o <<s[k]>>
      <4>1. 1 \in 1..Len(s) /\ k \in 1..Len(s)
        BY <1>1, <3>2
      <4> QED
        BY <4>1, SubSeqRecursiveSecond
    <3> QED
      BY <3>2, <3>5, <3>6, <3>7
  <2>4. u[n] = SubSeq(s, 1, n)
    BY <1>1, <1>4, <2>3
  <2>5. SubSeq(s, 1, n) = s
    BY SubSeqFull
  <2> QED
    BY <2>1, <2>4, <2>5
<1> QED
  BY <1>3, <1>4

(***************************************************************************)
(* Values as they are written                                              *)
(***************************************************************************)
LEMMA ValueKinds ==
    ASSUME NEW v, IsValue(v), v # Blank
    PROVE  \/ v.kind = "text" /\ v.text \in Texts /\ v = Text(v.text)
           \/ /\ v.kind = "number" /\ v = Number(v.ratio) /\ v.ratio # None
              /\ Canonical(v.ratio) \in Texts /\ Exact(Canonical(v.ratio)) = v.ratio
              /\ RationalFromStr(Spelling[Canonical(v.ratio)]) = v.ratio
              /\ InElement[Canonical(v.ratio)] = Canonical(v.ratio)
              /\ InAttribute[Canonical(v.ratio)] = Canonical(v.ratio)
           \/ v.kind = "bool" /\ \E b \in BOOLEAN : v = Bool(b)
           \/ /\ v.kind = "formula" /\ v.text \in Texts /\ v.equals \in Nat
              /\ v = Formula(v.text, v.equals)
<1>1. CASE \E t \in Texts : v = Text(t)
  BY <1>1, TextReadsBack
<1>2. CASE \E t \in Texts : Exact(t) # None /\ v = Number(Exact(t))
  BY <1>2, NumberReadsBack, CanonicalSpells
<1>3. CASE \E b \in BOOLEAN : v = Bool(b)
  BY <1>3, BoolReadsBack
<1>4. CASE v.text \in Texts /\ v.equals \in Nat /\ v = Formula(v.text, v.equals)
  BY <1>4, FormulaReadsBack
<1> QED
  BY <1>1, <1>2, <1>3, <1>4 DEF IsValue

LEMMA TruthTexts ==
    ASSUME NEW form \in {"integer", "words"}, NEW b \in BOOLEAN
    PROVE  LET t == TruthAs(form, Bool(b))
           IN t \in Texts /\ BoolOf(t) = Bool(b) /\ InElement[t] = t /\ InAttribute[t] = t
<1>. DEFINE t == TruthAs(form, Bool(b))
<1>1. /\ \E u \in Texts : Spelling[u].form = form /\ BoolOf(u) = Bool(b)
      /\ InElement[t] = t /\ InAttribute[t] = t
  BY TruthAssumption
<1>2. t \in Texts /\ BoolOf(t) = Bool(b)
  BY <1>1, Zenon DEF TruthAs
<1> QED
  BY <1>1, <1>2

\* The words a parser gives back.
LEMMA Parsed ==
    ASSUME NEW t \in Texts
    PROVE  /\ InElement[t] = None \/ InElement[t] \in Texts
           /\ InElement[t] # None => /\ InElement[InElement[t]] = InElement[t]
                                     /\ InAttribute[InElement[t]] # None
           /\ InAttribute[t] = None \/ InAttribute[t] \in Texts
           /\ InAttribute[t] # None => /\ InAttribute[InAttribute[t]] = InAttribute[t]
                                       /\ InElement[InAttribute[t]] # None
           /\ InElement[t] \in Blanks => t \in Blanks
           /\ InAttribute[t] \in Blanks => t \in Blanks
  BY ParserAssumption

LEMMA EmptyParsed ==
    /\ Empty \in Texts /\ Empty \in Blanks /\ Empty # None
    /\ InElement[Empty] = Empty /\ InAttribute[Empty] = Empty
  BY TextAssumption, ParserAssumption

\* What becomes of a value that goes through a cell of a file: a text and a
\* formula may be lost or read otherwise, a number or a truth value is kept.
Kept(read, v, w) ==
    /\ w = None => /\ v.kind \in {"text", "formula"}
                   /\ InElement[v.text] = None \/ InAttribute[v.text] = None
    /\ w # None => IsValue(w) /\ w # Blank /\ w = ReadValue(read, v)

LEMMA NotBlank ==
    ASSUME NEW v, v.kind \in {"text", "number", "bool", "formula"}
    PROVE  v # Blank
  BY BlankReadsBack

(***************************************************************************)
(* Cells of .xlsx files                                                    *)
(***************************************************************************)
LEMMA XlsxTextRead ==
    ASSUME NEW c, IsXlsxCell(c), NEW strings, Len(strings) \in Nat,
           \A i \in 1..Len(strings) : strings[i] = None \/ strings[i] \in Texts
    PROVE  XlsxCellText(c, strings) = None \/ XlsxCellText(c, strings) \in Texts
<1>1. c.v \in Texts /\ c.is \in Texts
  BY DEF IsXlsxCell
<1>2. Spelling[c.v].digits \in Int
  BY <1>1, TextAssumption DEF Spellings
<1>. DEFINE index == Spelling[c.v]
<1>3. CASE c.t = "inlineStr"
  BY <1>1, <1>3, Parsed DEF XlsxCellText
<1>4. CASE c.t = "s"
  <2>1. XlsxCellText(c, strings) =
           IF index.form = "integer" /\ index.digits \in 0..(Len(strings) - 1)
           THEN strings[index.digits + 1] ELSE None
    BY <1>4 DEF XlsxCellText
  <2>. HIDE DEF index
  <2> QED
    BY <2>1
<1>5. CASE c.t \notin {"inlineStr", "s"}
  BY <1>1, <1>5, Parsed DEF XlsxCellText
<1> QED
  BY <1>3, <1>4, <1>5

\* A cell that is read as blank has no text anywhere.
LEMMA XlsxCellRead ==
    ASSUME NEW c, IsXlsxCell(c), NEW strings, Len(strings) \in Nat,
           \A i \in 1..Len(strings) : strings[i] = None \/ strings[i] \in Texts
    PROVE  /\ XlsxDecodeCell(c, strings) = None \/ IsValue(XlsxDecodeCell(c, strings))
           /\ XlsxDecodeCell(c, strings) = Blank => {c.f, c.v, c.is} \subseteq Blanks
<1>. DEFINE text == XlsxCellText(c, strings)
            f == InElement[c.f]
            w == XlsxDecodeCell(c, strings)
<1>1. c.f \in Texts /\ c.v \in Texts /\ c.is \in Texts
  BY DEF IsXlsxCell
<1>2. text = None \/ text \in Texts
  BY XlsxTextRead
<1>3. f = None \/ f \in Texts
  BY <1>1, Parsed
<1>4. None \notin Texts /\ Blank # None
  BY TextAssumption, ValuesReadBack, BlankIsValue
<1>5. CASE f = None
  BY <1>4, <1>5 DEF XlsxDecodeCell
<1>6. CASE f \notin {None, Empty}
  <2>1. w = Formula(f, 1)
    BY <1>6 DEF XlsxDecodeCell
  <2> QED
    BY <1>3, <1>6, <2>1, FormulasAreValues, NotBlank
<1>7. CASE f = Empty
  <2>1. f # None /\ c.f \in Blanks
    BY <1>1, <1>7, EmptyParsed, Parsed
  <2>2. w = IF text = None THEN None ELSE XlsxValue(c, text)
    BY <1>7, <2>1 DEF XlsxDecodeCell
  <2>3. CASE text = None
    BY <1>4, <2>2, <2>3
  <2>4. CASE text # None
    <3>1. text \in Texts
      BY <1>2, <2>4
    <3>2. w = XlsxValue(c, text)
      BY <2>2, <2>4
    <3>3. c.sim # "blank"
      BY DEF IsXlsxCell
    <3>. HIDE DEF f, w
    <3>4. CASE w \in {BoolOf(text), NumberOf(text), Formula(text, 1), Text(text)}
      <4>1. w = None \/ (IsValue(w) /\ w.kind \in {"bool", "number", "formula", "text"})
        <5>. HIDE DEF text
        <5> QED
          BY <3>1, <3>4, TruthsAreValues, NumbersAreValues, FormulasAreValues, TextsAreValues
      <4> QED
        BY <1>4, <4>1, NotBlank DEF w
    <3>5. CASE w \notin {BoolOf(text), NumberOf(text), Formula(text, 1), Text(text)}
      <4>1. c.t \in {"n", ""} /\ text \in Blanks /\ w = Blank
        BY <3>2, <3>3, <3>5, Zenon DEF XlsxValue
      <4>2. c.t \notin {"inlineStr", "s"}
        BY <4>1
      <4>3. text = InElement[c.v]
        BY <4>2 DEF XlsxCellText
      <4>4. c.v \in Blanks
        <5>1. InElement[c.v] \in Blanks
          BY <4>1, <4>3
        <5> QED
          BY <1>1, <5>1, Parsed
      <4>5. c.is \in Blanks
        BY <4>2 DEF IsXlsxCell
      <4> QED
        BY <2>1, <4>1, <4>4, <4>5, BlankIsValue DEF w
    <3> QED
      BY <3>4, <3>5
  <2> QED
    BY <2>3, <2>4
<1> QED
  BY <1>5, <1>6, <1>7

XlsxBack(v) ==
    CASE v.kind = "text" -> IF InElement[v.text] = None THEN None ELSE Text(InElement[v.text])
      [] v.kind = "formula" ->
            IF InElement[v.text] = None THEN None ELSE Formula(InElement[v.text], 1)
      [] OTHER -> v

LEMMA XlsxKept ==
    ASSUME NEW v, IsValue(v), v # Blank
    PROVE  /\ Kept(InElement, v, XlsxBack(v))
           /\ XlsxBack(v) # None => XlsxBack(XlsxBack(v)) = XlsxBack(v)
<1>1. CASE v.kind = "text"
  <2>1. v.text \in Texts
    BY <1>1, ValueKinds
  <2>. DEFINE u == InElement[v.text]
  <2>2. CASE u = None
    BY <1>1, <2>2 DEF Kept, XlsxBack
  <2>3. CASE u # None
    <3>1. u \in Texts /\ InElement[u] = u /\ u # None
      BY <2>1, <2>3, Parsed
    <3>2. XlsxBack(v) = Text(u)
      BY <1>1, <2>3 DEF XlsxBack
    <3>. HIDE DEF u
    <3>3. IsValue(Text(u)) /\ Text(u).kind = "text" /\ Text(u).text = u
      BY <3>1, TextsAreValues, TextReadsBack
    <3>4. Text(u) # Blank /\ Text(u) # None
      BY <3>3, NotBlank, ValuesReadBack
    <3>5. XlsxBack(Text(u)) = Text(u)
      BY <3>1, <3>3 DEF XlsxBack
    <3>6. ReadValue(InElement, v) = Text(u)
      BY <1>1 DEF ReadValue, u
    <3> QED
      BY <3>2, <3>3, <3>4, <3>5, <3>6, Zenon DEF Kept
  <2> QED
    BY <2>2, <2>3
<1>2. CASE v.kind = "formula"
  <2>1. v.text \in Texts
    BY <1>2, ValueKinds
  <2>. DEFINE u == InElement[v.text]
  <2>2. CASE u = None
    BY <1>2, <2>2 DEF Kept, XlsxBack
  <2>3. CASE u # None
    <3>1. u \in Texts /\ InElement[u] = u /\ u # None
      BY <2>1, <2>3, Parsed
    <3>2. XlsxBack(v) = Formula(u, 1)
      BY <1>2, <2>3 DEF XlsxBack
    <3>. HIDE DEF u
    <3>3. IsValue(Formula(u, 1)) /\ Formula(u, 1).kind = "formula" /\ Formula(u, 1).text = u
      BY <3>1, FormulasAreValues, FormulaReadsBack
    <3>4. Formula(u, 1) # Blank /\ Formula(u, 1) # None
      BY <3>3, NotBlank, ValuesReadBack
    <3>5. XlsxBack(Formula(u, 1)) = Formula(u, 1)
      BY <3>1, <3>3 DEF XlsxBack
    <3>6. ReadValue(InElement, v) = Formula(u, 1)
      BY <1>2 DEF ReadValue, u
    <3> QED
      BY <3>2, <3>3, <3>4, <3>5, <3>6, Zenon DEF Kept
  <2> QED
    BY <2>2, <2>3
<1>3. CASE v.kind \notin {"text", "formula"}
  <2>1. XlsxBack(v) = v /\ v # None
    BY <1>3, ValuesReadBack DEF XlsxBack
  <2> QED
    BY <1>3, <2>1 DEF Kept, ReadValue
<1> QED
  BY <1>1, <1>2, <1>3

\* A cell as this codec writes it.
LEMMA XlsxCellWritten ==
    ASSUME NEW v, IsValue(v), v # Blank, NEW at, NEW strings
    PROVE  /\ IsXlsxCell(XlsxCellOf(at, v)) /\ XlsxCellOf(at, v).at = at
           /\ XlsxDecodeCell(XlsxCellOf(at, v), strings) = XlsxBack(v)
<1>. DEFINE c == XlsxCellOf(at, v)
<1>1. CASE v.kind = "text"
  <2>1. v.text \in Texts
    BY <1>1, ValueKinds
  <2>2. /\ c.at = at /\ c.sim = "text" /\ c.t = "inlineStr" /\ c.f = Empty /\ c.v = Empty
        /\ c.is = v.text
    BY <1>1 DEF XlsxCellOf, XlsxCell
  <2>. HIDE DEF c
  <2>3. IsXlsxCell(c)
    BY <2>1, <2>2, EmptyParsed DEF IsXlsxCell
  <2>4. XlsxCellText(c, strings) = InElement[v.text]
    BY <2>2 DEF XlsxCellText
  <2>5. XlsxDecodeCell(c, strings) =
           IF InElement[v.text] = None THEN None ELSE XlsxValue(c, InElement[v.text])
    BY <2>2, <2>4, EmptyParsed DEF XlsxDecodeCell
  <2>6. XlsxValue(c, InElement[v.text]) = Text(InElement[v.text])
    BY <2>2 DEF XlsxValue
  <2>7. XlsxDecodeCell(c, strings) = XlsxBack(v)
    BY <1>1, <2>5, <2>6 DEF XlsxBack
  <2> QED
    BY <2>2, <2>3, <2>7 DEF c
<1>2. CASE v.kind = "formula"
  <2>1. v.text \in Texts
    BY <1>2, ValueKinds
  <2>2. /\ c.at = at /\ c.sim = "formula" /\ c.t = "" /\ c.f = v.text /\ c.v = Empty
        /\ c.is = Empty
    BY <1>2 DEF XlsxCellOf, XlsxCell
  <2>. HIDE DEF c
  <2>3. IsXlsxCell(c)
    BY <2>1, <2>2, EmptyParsed DEF IsXlsxCell
  <2>4. XlsxCellText(c, strings) = Empty
    BY <2>2, EmptyParsed DEF XlsxCellText
  <2>5. XlsxValue(c, Empty) = Formula(Empty, 1)
    BY <2>2 DEF XlsxValue
  <2>6. XlsxDecodeCell(c, strings) =
           IF InElement[v.text] = None THEN None ELSE Formula(InElement[v.text], 1)
    BY <2>2, <2>4, <2>5, EmptyParsed DEF XlsxDecodeCell
  <2>7. XlsxDecodeCell(c, strings) = XlsxBack(v)
    BY <1>2, <2>6 DEF XlsxBack
  <2> QED
    BY <2>2, <2>3, <2>7 DEF c
<1>3. CASE v.kind = "number"
  <2>. DEFINE t == Canonical(v.ratio)
  <2>1. t \in Texts /\ Exact(t) = v.ratio /\ v.ratio # None /\ InElement[t] = t /\ v = Number(v.ratio)
    BY <1>3, ValueKinds
  <2>2. /\ c.at = at /\ c.sim = "number" /\ c.t = "str" /\ c.f = Empty /\ c.v = t /\ c.is = Empty
    BY <1>3 DEF XlsxCellOf, XlsxCell
  <2>. HIDE DEF c, t
  <2>3. IsXlsxCell(c)
    BY <2>1, <2>2, EmptyParsed DEF IsXlsxCell
  <2>4. XlsxCellText(c, strings) = t /\ t # None
    BY <2>1, <2>2, TextAssumption DEF XlsxCellText
  <2>5. XlsxValue(c, t) = NumberOf(t)
    BY <2>2 DEF XlsxValue
  <2>6. XlsxDecodeCell(c, strings) = NumberOf(t)
    BY <2>2, <2>4, <2>5, EmptyParsed DEF XlsxDecodeCell
  <2>7. NumberOf(t) = v
    BY <2>1 DEF NumberOf
  <2>8. XlsxBack(v) = v
    BY <1>3 DEF XlsxBack
  <2> QED
    BY <2>2, <2>3, <2>6, <2>7, <2>8 DEF c
<1>4. CASE v.kind = "bool"
  <2>1. PICK b \in BOOLEAN : v = Bool(b)
    BY <1>4, ValueKinds
  <2>. DEFINE t == TruthAs("integer", v)
  <2>2. t \in Texts /\ BoolOf(t) = v /\ InElement[t] = t
    BY <2>1, TruthTexts
  <2>3. /\ c.at = at /\ c.sim = "bool" /\ c.t = "b" /\ c.f = Empty /\ c.v = t /\ c.is = Empty
    BY <1>4 DEF XlsxCellOf, XlsxCell
  <2>. HIDE DEF c, t
  <2>4. IsXlsxCell(c)
    BY <2>2, <2>3, EmptyParsed DEF IsXlsxCell
  <2>5. XlsxCellText(c, strings) = t /\ t # None
    BY <2>2, <2>3, TextAssumption DEF XlsxCellText
  <2>6. XlsxValue(c, t) = BoolOf(t)
    BY <2>3 DEF XlsxValue
  <2>7. XlsxDecodeCell(c, strings) = BoolOf(t)
    BY <2>3, <2>5, <2>6, EmptyParsed DEF XlsxDecodeCell
  <2>8. XlsxBack(v) = v
    BY <1>4 DEF XlsxBack
  <2> QED
    BY <2>2, <2>3, <2>4, <2>7, <2>8 DEF c
<1> QED
  BY <1>1, <1>2, <1>3, <1>4, ValueKinds

(***************************************************************************)
(* Sheets through files                                                    *)
(***************************************************************************)
LEMMA SheetDocs ==
    ASSUME NEW s, IsSheet(s), NEW id
    PROVE  /\ IsSheetDoc(SheetToDoc(id, s)) /\ DocToSheet(SheetToDoc(id, s)) = s
           /\ s # NoSheet /\ SheetToDoc(id, s) # NoDoc
           /\ SheetToDoc(id, s).id = id /\ SheetToDoc(id, s).body.name = s.name
           /\ SheetToDoc(id, s).kind = "sheet"
<1>. DEFINE d == SheetToDoc(id, s)
<1>1. DocToSheet(d) = s /\ s # NoSheet /\ d.kind = "sheet" /\ d.id = id
  BY DocumentsReadBack
<1>2. d.body.name = s.name
  BY DEF SheetToDoc, SheetToExpr
<1>3. d # NoDoc
  BY <1>1 DEF NoDoc
<1>4. d = SheetToDoc(d.id, DocToSheet(d))
  BY <1>1
<1>. HIDE DEF d
<1>5. IsSheetDoc(d)
  BY <1>1, <1>4 DEF IsSheetDoc
<1> QED
  BY <1>1, <1>2, <1>3, <1>5 DEF d

\* The literal of every cell is a text of the document.
LEMMA LiteralsAreTexts ==
    ASSUME NEW d, IsSheetDoc(d), NEW c \in DOMAIN DocToSheet(d).cells
    PROVE  /\ ValueToExpr(DocToSheet(d).cells[c]).literal \in TextsOf(d)
           /\ DocToSheet(d).name \in TextsOf(d)
<1>. DEFINE s == DocToSheet(d)
            order == ColumnsFirst(DOMAIN s.cells)
<1>1. d.kind = "sheet" /\ IsSheet(s) /\ d = SheetToDoc(d.id, s)
  BY DEF IsSheetDoc
<1>2. d.body = SheetToExpr(s)
  <2>1. SheetToDoc(d.id, s).body = SheetToExpr(s)
    BY DEF SheetToDoc
  <2>. HIDE DEF s
  <2> QED
    BY <1>1, <2>1
<1>3. /\ d.body.name = s.name
      /\ d.body.cells = [i \in 1..Len(order) |->
                           [at |-> Display(order[i]), value |-> ValueToExpr(s.cells[order[i]])]]
  <2>. HIDE DEF s
  <2> QED
    BY <1>2 DEF SheetToExpr
<1>4. /\ order \in Seq(DOMAIN s.cells)
      /\ \E i \in 1..Len(order) : order[i] = c
  <2>1. DOMAIN s.cells \in SUBSET Cells /\ IsFiniteSet(DOMAIN s.cells)
    BY <1>1 DEF IsSheet
  <2> QED
    BY <2>1, CellsPlaced
<1>. HIDE DEF order, s
<1>5. PICK i \in 1..Len(order) : order[i] = c
  BY <1>4
<1>6. Len(order) \in Nat
  BY <1>4, LenProperties
<1>7. Len(d.body.cells) = Len(order)
  BY <1>3, <1>6
<1>8. d.body.cells[i].value.literal = ValueToExpr(s.cells[c]).literal
  BY <1>3, <1>5
<1>9. TextsOf(d) = {d.body.name} \cup {d.body.cells[j].value.literal : j \in 1..Len(d.body.cells)}
  BY <1>1 DEF TextsOf
<1> QED
  BY <1>3, <1>5, <1>7, <1>8, <1>9 DEF s

\* Cells written one after the other make the sheet of what was kept.
LEMMA TripOfCells ==
    ASSUME NEW s, IsSheet(s), NEW back, NEW name \in Texts, NEW writes, IsList(writes),
           ToSet(writes) = {[at |-> Display(c), value |-> back[c]] : c \in DOMAIN s.cells},
           \A c \in DOMAIN s.cells : back[c] = None \/ (IsValue(back[c]) /\ back[c] # Blank)
    PROVE  /\ (\E c \in DOMAIN s.cells : back[c] = None) => SheetOf(name, writes) = NoSheet
           /\ (\A c \in DOMAIN s.cells : back[c] # None) =>
                 LET r == SheetOf(name, writes)
                 IN /\ r = [name |-> name, cells |-> [c \in DOMAIN s.cells |-> back[c]]]
                    /\ IsSheet(r) /\ r # NoSheet
<1>. DEFINE D == DOMAIN s.cells
            n == Len(writes)
            r == SheetOf(name, writes)
<1>1. D \in SUBSET Cells
  BY DEF IsSheet
<1>2. n \in Nat /\ ToSet(writes) = {writes[i] : i \in 1..n}
  BY ListIs
<1>3. \A i \in 1..n : \E c \in D : writes[i] = [at |-> Display(c), value |-> back[c]]
  BY <1>2
<1>4. \A c \in D : \E i \in 1..n : writes[i] = [at |-> Display(c), value |-> back[c]]
  BY <1>2
<1>5. \A i \in 1..n : \E c \in D : /\ ParseCell(writes[i].at) = c /\ writes[i].value = back[c]
                                   /\ c # None
  <2> SUFFICES ASSUME NEW i \in 1..n
               PROVE  \E c \in D : /\ ParseCell(writes[i].at) = c /\ writes[i].value = back[c]
                                   /\ c # None
    OBVIOUS
  <2>. HIDE DEF D, n
  <2>1. PICK c \in D : writes[i] = [at |-> Display(c), value |-> back[c]]
    BY <1>3
  <2>2. writes[i].at = Display(c) /\ writes[i].value = back[c] /\ c \in Cells
    BY <1>1, <2>1
  <2>3. ParseCell(writes[i].at) = c /\ c # None
    BY <2>2, CellsReadBack, CellsAreSome
  <2> QED
    BY <2>2, <2>3
<1>6. ASSUME NEW c \in D, back[c] = None PROVE r = NoSheet
  <2>. HIDE DEF D, n
  <2>1. PICK i \in 1..n : writes[i] = [at |-> Display(c), value |-> back[c]]
    BY <1>4
  <2>2. writes[i].value = None
    BY <1>6, <2>1
  <2>. DEFINE cell == [j \in 1..n |-> ParseCell(writes[j].at)]
  <2>3. \E j \in 1..n : cell[j] = None \/ writes[j].value = None
    BY <2>2
  <2> QED
    BY <1>2, <2>3, SheetOfUnfolds DEF n
<1>7. ASSUME \A c \in D : back[c] # None
      PROVE  /\ r = [name |-> name, cells |-> [c \in D |-> back[c]]]
             /\ IsSheet(r) /\ r # NoSheet
  <2>1. \A c \in D : IsValue(back[c]) /\ back[c] # Blank
    BY <1>7
  <2>2. \A i \in 1..n : IsValue(writes[i].value)
    BY <1>5, <2>1
  <2>3. Written(writes, back)
    <3>. HIDE DEF D, r
    <3> QED
      BY <1>2, <1>5, <1>7 DEF Written
  <2>4. {d \in {ParseCell(writes[i].at) : i \in 1..Len(writes)} : back[d] # Blank} = D
    <3>1. ASSUME NEW d, d \in D PROVE \E i \in 1..n : ParseCell(writes[i].at) = d
      <4>1. PICK i \in 1..n : writes[i] = [at |-> Display(d), value |-> back[d]]
        BY <1>4, <3>1
      <4>2. writes[i].at = Display(d) /\ d \in Cells
        BY <1>1, <3>1, <4>1
      <4> QED
        BY <4>2, CellsReadBack
    <3>2. {ParseCell(writes[i].at) : i \in 1..n} = D
      <4>. HIDE DEF D, n
      <4> QED
        BY <1>5, <3>1
    <3>. HIDE DEF D
    <3> QED
      BY <2>1, <3>2
  <2>5. r = [name |-> name, cells |-> [c \in D |-> back[c]]]
    <3>1. r = [name |-> name, cells |-> WrittenCells(writes, back)]
      BY <2>3, SheetOfWritten
    <3>2. WrittenCells(writes, back) = [c \in D |-> back[c]]
      <4>. HIDE DEF D
      <4> QED
        BY <2>4 DEF WrittenCells
    <3> QED
      BY <3>1, <3>2
  <2>6. r.name = name /\ name # None
    <3>. HIDE DEF r
    <3> QED
      BY <2>5, TextAssumption
  <2>7. r # NoSheet
    BY <2>6 DEF NoSheet
  <2>8. IsSheet(r)
    BY <1>2, <2>2, <2>7, SheetOfTyped
  <2> QED
    BY <2>5, <2>7, <2>8
<1> QED
  BY <1>6, <1>7

(***************************************************************************)
(* .xlsx                                                                   *)
(***************************************************************************)
XlsxWrites(content) ==
    [i \in 1..Len(content.worksheet.cells) |->
        [at |-> content.worksheet.cells[i].at,
         value |-> XlsxDecodeCell(content.worksheet.cells[i], SharedStrings(content))]]

LEMMA XlsxWritesList ==
    ASSUME NEW content, Len(content.worksheet.cells) \in Nat
    PROVE  /\ IsList(XlsxWrites(content))
           /\ Len(XlsxWrites(content)) = Len(content.worksheet.cells)
           /\ \A i \in 1..Len(content.worksheet.cells) :
                 XlsxWrites(content)[i] =
                    [at |-> content.worksheet.cells[i].at,
                     value |-> XlsxDecodeCell(content.worksheet.cells[i], SharedStrings(content))]
           /\ \A i \in 1..Len(content.worksheet.cells) :
                 XlsxWrites(content)[i].value =
                    XlsxDecodeCell(content.worksheet.cells[i], SharedStrings(content))
  BY ListBuilt DEF XlsxWrites

LEMMA SharedStringsRead ==
    ASSUME NEW content, IsList(content.strings), ToSet(content.strings) \subseteq Texts
    PROVE  /\ Len(SharedStrings(content)) \in Nat
           /\ \A i \in 1..Len(SharedStrings(content)) :
                 SharedStrings(content)[i] = None \/ SharedStrings(content)[i] \in Texts
<1>1. /\ Len(content.strings) \in Nat
      /\ ToSet(content.strings) = {content.strings[i] : i \in 1..Len(content.strings)}
  BY ListIs
<1>2. Len(SharedStrings(content)) = Len(content.strings)
  BY <1>1 DEF SharedStrings
<1>3. \A i \in 1..Len(content.strings) :
         SharedStrings(content)[i] = InElement[content.strings[i]] /\ content.strings[i] \in Texts
  BY <1>1 DEF SharedStrings
<1> QED
  BY <1>1, <1>2, <1>3, Parsed

\* What a workbook is read as.
LEMMA XlsxRead ==
    ASSUME NEW f, XlsxDecode(f).ok
    PROVE  LET content == f.content
               name == InAttribute[content.sheets[1].name]
               sheet == SheetOf(name, XlsxWrites(content))
           IN /\ content.sheets # <<>> /\ name # None /\ sheet # NoSheet
              /\ XlsxDecode(f).value = SheetToDoc(ImportedId("xlsx", name), sheet)
              /\ XlsxDecode(f).report = XlsxLosses(content, f.container.parts)
  BY DEF XlsxDecode, XlsxWrites, Refused, Answered

LEMMA XlsxReadTyped ==
    ASSUME NEW f, IsWorkbook(f.content), XlsxDecode(f).ok
    PROVE  LET sheet == SheetOf(InAttribute[f.content.sheets[1].name], XlsxWrites(f.content))
           IN IsSheet(sheet) /\ IsSheetDoc(XlsxDecode(f).value) /\ DocToSheet(XlsxDecode(f).value) = sheet
<1>. DEFINE content == f.content
            name == InAttribute[content.sheets[1].name]
            sheet == SheetOf(name, XlsxWrites(content))
<1>1. /\ content.sheets # <<>> /\ name # None /\ sheet # NoSheet
      /\ XlsxDecode(f).value = SheetToDoc(ImportedId("xlsx", name), sheet)
  BY XlsxRead
<1>2. /\ IsList(content.sheets) /\ \A s \in ToSet(content.sheets) : s.name \in Texts
      /\ IsList(content.strings) /\ ToSet(content.strings) \subseteq Texts
      /\ IsList(content.worksheet.cells)
      /\ \A c \in ToSet(content.worksheet.cells) : IsXlsxCell(c)
  BY DEF IsWorkbook
<1>. HIDE DEF content
<1>3. name \in Texts
  <2>1. Len(content.sheets) \in Nat \ {0}
    BY <1>1, <1>2, ListFront
  <2>2. content.sheets[1] \in ToSet(content.sheets)
    BY <1>2, <2>1, ListIs
  <2> QED
    BY <1>1, <1>2, <2>2, Parsed
<1>4. \A i \in 1..Len(XlsxWrites(content)) :
         XlsxWrites(content)[i].value = None \/ IsValue(XlsxWrites(content)[i].value)
  <2>1. /\ Len(content.worksheet.cells) \in Nat
        /\ \A i \in 1..Len(content.worksheet.cells) : IsXlsxCell(content.worksheet.cells[i])
    BY <1>2, ListIs
  <2>2. \A i \in 1..Len(content.worksheet.cells) :
           LET w == XlsxDecodeCell(content.worksheet.cells[i], SharedStrings(content))
           IN w = None \/ IsValue(w)
    BY <1>2, <2>1, SharedStringsRead, XlsxCellRead
  <2>3. /\ Len(XlsxWrites(content)) = Len(content.worksheet.cells)
        /\ \A i \in 1..Len(content.worksheet.cells) : XlsxWrites(content)[i].value =
              XlsxDecodeCell(content.worksheet.cells[i], SharedStrings(content))
    BY <2>1, XlsxWritesList
  <2> QED
    BY <2>2, <2>3
<1>5. Len(XlsxWrites(content)) \in Nat
  BY <1>2, ListIs, XlsxWritesList
<1>6. IsSheet(sheet)
  <2>. HIDE DEF name
  <2> QED
    BY <1>1, <1>3, <1>4, <1>5, SheetOfTyped
<1> QED
  BY <1>1, <1>6, SheetDocs DEF content

\* A sheet as this codec writes it.
LEMMA XlsxWritten ==
    ASSUME NEW s, IsSheet(s)
    PROVE  LET cells == WorksheetXml(s).cells
           IN /\ IsList(cells)
              /\ ToSet(cells) = {XlsxCellOf(Display(c), s.cells[c]) : c \in DOMAIN s.cells}
              /\ \A c \in ToSet(cells) : IsXlsxCell(c)
              /\ \A c, d \in ToSet(cells) : ParseCell(c.at) = ParseCell(d.at) => c = d
<1>. DEFINE D == DOMAIN s.cells
            order == RowsFirst(D)
            cells == WorksheetXml(s).cells
<1>1. D \in SUBSET Cells /\ IsFiniteSet(D) /\ \A c \in D : IsValue(s.cells[c]) /\ s.cells[c] # Blank
  BY DEF IsSheet
<1>2. order \in Seq(D) /\ \A c \in D : \E i \in 1..Len(order) : order[i] = c
  <2>. HIDE DEF D
  <2> QED
    BY <1>1, CellsPlaced
<1>3. cells = [i \in 1..Len(order) |-> XlsxCellOf(Display(order[i]), s.cells[order[i]])]
  BY DEF WorksheetXml
<1>. HIDE DEF order, cells
<1>4. Len(order) \in Nat /\ \A i \in 1..Len(order) : order[i] \in D
  BY <1>2, LenProperties, ElementOfSeq
<1>5. IsList(cells) /\ Len(cells) = Len(order)
  BY <1>3, <1>4, ListBuilt
<1>6. ToSet(cells) = {XlsxCellOf(Display(c), s.cells[c]) : c \in D}
  <2>1. ToSet(cells) = {cells[i] : i \in 1..Len(order)}
    BY <1>5, ListIs
  <2>2. \A i \in 1..Len(order) : cells[i] = XlsxCellOf(Display(order[i]), s.cells[order[i]])
    BY <1>3
  <2>. HIDE DEF D
  <2>3. \A i \in 1..Len(order) : \E c \in D : cells[i] = XlsxCellOf(Display(c), s.cells[c])
    BY <1>4, <2>2
  <2>4. \A c \in D : \E i \in 1..Len(order) : cells[i] = XlsxCellOf(Display(c), s.cells[c])
    BY <1>2, <2>2
  <2>5. {cells[i] : i \in 1..Len(order)} = {XlsxCellOf(Display(c), s.cells[c]) : c \in D}
    <3>1. {cells[i] : i \in 1..Len(order)} \subseteq {XlsxCellOf(Display(c), s.cells[c]) : c \in D}
      BY <2>3
    <3>2. {XlsxCellOf(Display(c), s.cells[c]) : c \in D} \subseteq {cells[i] : i \in 1..Len(order)}
      BY <2>4
    <3> QED
      BY <3>1, <3>2, Zenon
  <2> QED
    BY <2>1, <2>5, Zenon
<1>7. \A c \in D : LET x == XlsxCellOf(Display(c), s.cells[c])
                   IN IsXlsxCell(x) /\ ParseCell(x.at) = c
  <2> SUFFICES ASSUME NEW c \in D
               PROVE  LET x == XlsxCellOf(Display(c), s.cells[c])
                      IN IsXlsxCell(x) /\ ParseCell(x.at) = c
    OBVIOUS
  <2>1. IsValue(s.cells[c]) /\ s.cells[c] # Blank /\ c \in Cells
    BY <1>1
  <2> QED
    BY <2>1, XlsxCellWritten, CellsReadBack
<1>8. \A x \in ToSet(cells) : IsXlsxCell(x)
  BY <1>6, <1>7
<1>9. \A x, y \in ToSet(cells) : ParseCell(x.at) = ParseCell(y.at) => x = y
  <2>. HIDE DEF D
  <2> QED
    BY <1>6, <1>7
<1> QED
  BY <1>5, <1>6, <1>8, <1>9 DEF cells

LEMMA XlsxEncoded ==
    ASSUME NEW d, IsSheetDoc(d)
    PROVE  LET s == DocToSheet(d)
               f == XlsxEncode(d).value
           IN /\ XlsxEncode(d).ok /\ f.format = "xlsx"
              /\ f.container = WriteOoxml(WorkbookParts \cup Named({"xl/worksheets/sheet1.xml"}))
              /\ f.content.sheets = <<[name |-> s.name, rel |-> RelId(1)]>>
              /\ f.content.rels = <<[id |-> RelId(1), worksheet |-> TRUE,
                                     target |-> <<"xl/worksheets/sheet1.xml">>]>>
              /\ f.content.strings = <<>>
              /\ f.content.worksheet = WorksheetXml(s)
              /\ WorksheetXml(s).merged = FALSE
<1>. DEFINE s == DocToSheet(d)
<1>1. s # NoSheet
  BY SheetDocs DEF IsSheetDoc
<1>2. WorksheetXml(s).merged = FALSE
  BY DEF WorksheetXml
<1>. HIDE DEF s
<1> QED
  BY <1>1, <1>2 DEF XlsxEncode, Answered, s

LEMMA XlsxFile ==
    ASSUME NEW d, IsSheetDoc(d)
    PROVE  IsFile(XlsxEncode(d).value)
<1>. DEFINE s == DocToSheet(d)
            f == XlsxEncode(d).value
            content == f.content
<1>1. /\ f.format = "xlsx"
      /\ content.sheets = <<[name |-> s.name, rel |-> RelId(1)]>>
      /\ content.strings = <<>>
      /\ content.worksheet = WorksheetXml(s)
      /\ WorksheetXml(s).merged = FALSE
  BY XlsxEncoded
<1>2. IsSheet(s) /\ s.name \in Texts
  BY DEF IsSheetDoc, IsSheet
<1>3. /\ IsList(WorksheetXml(s).cells)
      /\ \A c \in ToSet(WorksheetXml(s).cells) : IsXlsxCell(c)
      /\ \A c, e \in ToSet(WorksheetXml(s).cells) : ParseCell(c.at) = ParseCell(e.at) => c = e
  BY <1>2, XlsxWritten
<1>. HIDE DEF f, s
<1>4. IsList(content.sheets) /\ \A t \in ToSet(content.sheets) : t.name \in Texts
  <2>1. content.sheets \in Seq({[name |-> s.name, rel |-> RelId(1)]})
    BY <1>1
  <2> QED
    BY <1>2, <2>1, Listed
<1>5. IsList(content.strings) /\ ToSet(content.strings) \subseteq Texts
  <2>1. content.strings \in Seq(Texts)
    BY <1>1
  <2> QED
    BY <2>1, Listed
<1>. HIDE DEF content
<1>6. IsWorkbook(content)
  BY <1>1, <1>3, <1>4, <1>5 DEF IsWorkbook
<1> QED
  BY <1>1, <1>6 DEF IsFile, f, content

\* What comes of a sheet through a workbook: the name as an attribute, each
\* cell as it is kept, or a refusal.
XlsxBackSheet(s) ==
    [name |-> InAttribute[s.name], cells |-> [c \in DOMAIN s.cells |-> XlsxBack(s.cells[c])]]
XlsxRefuses(s) ==
    InAttribute[s.name] = None \/ \E c \in DOMAIN s.cells : XlsxBack(s.cells[c]) = None

LEMMA XlsxTrip ==
    ASSUME NEW d, IsSheetDoc(d)
    PROVE  LET s == DocToSheet(d)
               answer == XlsxDecode(XlsxEncode(d).value)
           IN /\ answer.ok <=> ~XlsxRefuses(s)
              /\ answer.ok => /\ IsSheet(XlsxBackSheet(s))
                              /\ answer.value = SheetToDoc(ImportedId("xlsx", InAttribute[s.name]),
                                                           XlsxBackSheet(s))
<1>. DEFINE s == DocToSheet(d)
            f == XlsxEncode(d).value
            content == f.content
            name == InAttribute[s.name]
            sheet == SheetOf(name, XlsxWrites(content))
            back == [c \in DOMAIN s.cells |-> XlsxBack(s.cells[c])]
<1>1. /\ f.format = "xlsx"
      /\ f.container = WriteOoxml(WorkbookParts \cup Named({"xl/worksheets/sheet1.xml"}))
      /\ content.sheets = <<[name |-> s.name, rel |-> RelId(1)]>>
      /\ content.rels = <<[id |-> RelId(1), worksheet |-> TRUE,
                           target |-> <<"xl/worksheets/sheet1.xml">>]>>
      /\ content.strings = <<>>
      /\ content.worksheet = WorksheetXml(s)
  BY XlsxEncoded
<1>2. IsSheet(s) /\ s.name \in Texts
  BY DEF IsSheetDoc, IsSheet
<1>3. /\ IsList(WorksheetXml(s).cells)
      /\ ToSet(WorksheetXml(s).cells) = {XlsxCellOf(Display(c), s.cells[c]) : c \in DOMAIN s.cells}
  BY <1>2, XlsxWritten
<1>4. \A c \in DOMAIN s.cells : IsValue(s.cells[c]) /\ s.cells[c] # Blank
  BY <1>2 DEF IsSheet
<1>. HIDE DEF f, s
<1>5. content.sheets # <<>> /\ content.sheets[1].name = s.name /\ content.sheets[1].rel = RelId(1)
  BY <1>1
<1>6. WorksheetPath(content) = <<"xl/worksheets/sheet1.xml">>
  <2>. DEFINE I == {i \in 1..Len(content.rels) :
                      content.rels[i].worksheet /\ content.rels[i].id = content.sheets[1].rel}
  <2>1. Len(content.rels) = 1 /\ content.rels[1].worksheet /\ content.rels[1].id = RelId(1)
        /\ content.rels[1].target = <<"xl/worksheets/sheet1.xml">>
    BY <1>1
  <2>2. I = {1}
    BY <1>5, <2>1
  <2>3. Min({1}) = 1
    BY DEF Min
  <2>4. WorksheetPath(content) = LET i == IF I # {} THEN Min(I) ELSE 0
                                 IN IF i = 0 THEN None ELSE content.rels[i].target
    BY DEF WorksheetPath, SelectInSeq
  <2>. HIDE DEF I, content
  <2> QED
    BY <2>1, <2>2, <2>3, <2>4
<1>7. /\ OoxmlReadable(f.container) /\ WorkbookParts \subseteq f.container.parts
      /\ WorksheetPath(content) \in f.container.parts
  BY <1>1, <1>6 DEF WriteOoxml, Container, OoxmlReadable, Named
<1>8. ToSet(SharedStrings(content)) = {}
  BY <1>1 DEF SharedStrings, ToSet
<1>9. XlsxDecode(f) =
         IF name = None \/ sheet = NoSheet THEN Refused
         ELSE Answered(SheetToDoc(ImportedId("xlsx", name), sheet),
                       XlsxLosses(content, f.container.parts))
  <2>1. XlsxDecode(f) =
           IF None \in ToSet(SharedStrings(content)) \cup {name} \/ sheet = NoSheet
           THEN Refused
           ELSE Answered(SheetToDoc(ImportedId("xlsx", name), sheet),
                         XlsxLosses(content, f.container.parts))
    BY <1>1, <1>5, <1>7 DEF XlsxDecode, XlsxWrites
  <2>. HIDE DEF sheet, name, content
  <2> QED
    BY <1>8, <2>1
<1>10. CASE name = None
  <2>1. ~XlsxDecode(f).ok
    BY <1>9, <1>10 DEF Refused
  <2>2. XlsxRefuses(s)
    BY <1>10 DEF XlsxRefuses
  <2> QED
    BY <2>1, <2>2 DEF f, s
<1>11. CASE name # None
  <2>1. name \in Texts
    BY <1>2, <1>11, Parsed
  <2>2. \A c \in DOMAIN s.cells : back[c] = None \/ (IsValue(back[c]) /\ back[c] # Blank)
    BY <1>4, XlsxKept DEF Kept
  <2>3. /\ IsList(XlsxWrites(content))
        /\ ToSet(XlsxWrites(content)) = {[at |-> Display(c), value |-> back[c]] : c \in DOMAIN s.cells}
    <3>. DEFINE cells == content.worksheet.cells
                strings == SharedStrings(content)
    <3>1. /\ IsList(cells) /\ Len(cells) \in Nat /\ ToSet(cells) = {cells[i] : i \in 1..Len(cells)}
          /\ ToSet(cells) = {XlsxCellOf(Display(c), s.cells[c]) : c \in DOMAIN s.cells}
      BY <1>1, <1>3, ListIs
    <3>2. /\ IsList(XlsxWrites(content)) /\ Len(XlsxWrites(content)) = Len(cells)
          /\ \A i \in 1..Len(cells) : XlsxWrites(content)[i] =
                [at |-> cells[i].at, value |-> XlsxDecodeCell(cells[i], strings)]
      BY <3>1, XlsxWritesList
    <3>3. \A c \in DOMAIN s.cells :
             LET x == XlsxCellOf(Display(c), s.cells[c])
             IN x.at = Display(c) /\ XlsxDecodeCell(x, strings) = back[c]
      BY <1>4, XlsxCellWritten
    <3>4. ToSet(XlsxWrites(content)) = {XlsxWrites(content)[i] : i \in 1..Len(cells)}
      BY <3>2, ListIs
    <3>. HIDE DEF cells, strings, back, content
    <3>5. ASSUME NEW i \in 1..Len(cells)
          PROVE  \E c \in DOMAIN s.cells :
                    XlsxWrites(content)[i] = [at |-> Display(c), value |-> back[c]]
      <4>1. PICK c \in DOMAIN s.cells : cells[i] = XlsxCellOf(Display(c), s.cells[c])
        BY <3>1
      <4> QED
        BY <3>2, <3>3, <4>1
    <3>6. ASSUME NEW c \in DOMAIN s.cells
          PROVE  \E i \in 1..Len(cells) :
                    XlsxWrites(content)[i] = [at |-> Display(c), value |-> back[c]]
      <4>1. PICK i \in 1..Len(cells) : cells[i] = XlsxCellOf(Display(c), s.cells[c])
        BY <3>1
      <4> QED
        BY <3>2, <3>3, <4>1
    <3>7. {XlsxWrites(content)[i] : i \in 1..Len(cells)}
             = {[at |-> Display(c), value |-> back[c]] : c \in DOMAIN s.cells}
      <4>1. {XlsxWrites(content)[i] : i \in 1..Len(cells)}
               \subseteq {[at |-> Display(c), value |-> back[c]] : c \in DOMAIN s.cells}
        BY <3>5
      <4>2. {[at |-> Display(c), value |-> back[c]] : c \in DOMAIN s.cells}
               \subseteq {XlsxWrites(content)[i] : i \in 1..Len(cells)}
        BY <3>6
      <4> QED
        BY <4>1, <4>2, Zenon
    <3> QED
      BY <3>2, <3>4, <3>7, Zenon
  <2>4. /\ (\E c \in DOMAIN s.cells : back[c] = None) => sheet = NoSheet
        /\ (\A c \in DOMAIN s.cells : back[c] # None) =>
              /\ sheet = [name |-> name, cells |-> [c \in DOMAIN s.cells |-> back[c]]]
              /\ IsSheet(sheet) /\ sheet # NoSheet
    <3>. HIDE DEF back, name, content
    <3> QED
      BY <1>2, <2>1, <2>2, <2>3, TripOfCells
  <2>5. XlsxRefuses(s) <=> \E c \in DOMAIN s.cells : back[c] = None
    BY <1>11 DEF XlsxRefuses
  <2>6. [c \in DOMAIN s.cells |-> back[c]] = back /\ XlsxBackSheet(s) = [name |-> name, cells |-> back]
    BY DEF XlsxBackSheet
  <2>. HIDE DEF sheet, name, content, back
  <2>7. CASE XlsxRefuses(s)
    <3>1. ~XlsxDecode(f).ok
      BY <1>9, <2>4, <2>5, <2>7 DEF Refused
    <3> QED
      BY <2>7, <3>1 DEF f, s
  <2>8. CASE ~XlsxRefuses(s)
    <3>1. sheet = XlsxBackSheet(s) /\ IsSheet(sheet) /\ sheet # NoSheet
      BY <2>4, <2>5, <2>6, <2>8
    <3>2. XlsxDecode(f).ok /\ XlsxDecode(f).value = SheetToDoc(ImportedId("xlsx", name), sheet)
      BY <1>9, <1>11, <3>1 DEF Answered
    <3> QED
      BY <2>8, <3>1, <3>2 DEF f, s, name
  <2> QED
    BY <2>7, <2>8
<1> QED
  BY <1>10, <1>11

(***************************************************************************)
(* Cells of .ods files                                                     *)
(***************************************************************************)
LEMMA OdsCellRead ==
    ASSUME NEW c, IsOdsCell(c)
    PROVE  OdsDecodeCell(c) = None \/ IsValue(OdsDecodeCell(c))
<1>. DEFINE text == IF c.value = None THEN InElement[c.text] ELSE InAttribute[c.value]
            office == IF c.office = None THEN text ELSE InAttribute[c.office]
            w == OdsDecodeCell(c)
<1>1. /\ c.text \in Texts /\ (c.value # None => c.value \in Texts)
      /\ (c.office # None => c.office \in Texts)
      /\ (c.formula # None => c.formula.text \in Texts /\ c.formula.equals \in Nat)
  BY DEF IsOdsCell, TextsAndNone
<1>2. CASE \/ None \in {text, InElement[c.text]}
           \/ c.office # None /\ InAttribute[c.office] = None
           \/ c.formula # None /\ InAttribute[c.formula.text] = None
  BY <1>2 DEF OdsDecodeCell
<1>3. CASE ~ \/ None \in {text, InElement[c.text]}
             \/ c.office # None /\ InAttribute[c.office] = None
             \/ c.formula # None /\ InAttribute[c.formula.text] = None
  <2>1. text \in Texts /\ office \in Texts
    BY <1>1, <1>3, Parsed
  <2>2. w \in {Blank, BoolOf(text), Formula(text, 1), NumberOf(text), Text(text), OdsUntyped(c, text)}
    BY <1>3, Zenon DEF OdsDecodeCell
  <2>3. \/ c.formula # None /\ OdsUntyped(c, text) = NormalizeFormula(c.formula)
        \/ OdsUntyped(c, text) \in {BoolOf(office), NumberOf(office), Blank, Text(text)}
    BY Zenon DEF OdsUntyped
  <2>f. ASSUME c.formula # None
        PROVE  NormalizeFormula(c.formula) = None \/ IsValue(NormalizeFormula(c.formula))
    <3>1. InAttribute[c.formula.text] \in Texts /\ c.formula.equals \in Nat
      BY <1>1, <1>3, <2>f, Parsed
    <3> QED
      BY <3>1, FormulasAreValues DEF NormalizeFormula
  <2>. HIDE DEF w, text, office
  <2>4. OdsUntyped(c, text) = None \/ IsValue(OdsUntyped(c, text))
    BY <2>1, <2>3, <2>f, BlankIsValue, TruthsAreValues, NumbersAreValues, TextsAreValues
  <2>5. w = None \/ IsValue(w)
    BY <2>1, <2>2, <2>4, BlankIsValue, TruthsAreValues, NumbersAreValues, TextsAreValues,
       FormulasAreValues
  <2> QED
    BY <2>5 DEF w
<1> QED
  BY <1>2, <1>3

OdsBack(v) ==
    CASE v.kind = "text" -> IF None \in {InAttribute[v.text], InElement[v.text]}
                            THEN None ELSE Text(InAttribute[v.text])
      [] v.kind = "formula" -> IF None \in {InAttribute[v.text], InElement[v.text]}
                               THEN None ELSE Formula(InAttribute[v.text], 1)
      [] OTHER -> v

LEMMA OdsKept ==
    ASSUME NEW v, IsValue(v), v # Blank
    PROVE  /\ Kept(InAttribute, v, OdsBack(v))
           /\ OdsBack(v) # None => OdsBack(OdsBack(v)) = OdsBack(v)
<1>1. CASE v.kind = "text"
  <2>1. v.text \in Texts
    BY <1>1, ValueKinds
  <2>. DEFINE u == InAttribute[v.text]
  <2>2. CASE u = None \/ InElement[v.text] = None
    BY <1>1, <2>2 DEF Kept, OdsBack
  <2>3. CASE u # None /\ InElement[v.text] # None
    <3>1. u \in Texts /\ InAttribute[u] = u /\ u # None /\ InElement[u] # None
      BY <2>1, <2>3, Parsed
    <3>2. OdsBack(v) = Text(u)
      BY <1>1, <2>3 DEF OdsBack
    <3>. HIDE DEF u
    <3>3. IsValue(Text(u)) /\ Text(u).kind = "text" /\ Text(u).text = u
      BY <3>1, TextsAreValues, TextReadsBack
    <3>4. Text(u) # Blank /\ Text(u) # None
      BY <3>3, NotBlank, ValuesReadBack
    <3>5. OdsBack(Text(u)) = Text(u)
      BY <3>1, <3>3 DEF OdsBack
    <3>6. ReadValue(InAttribute, v) = Text(u)
      BY <1>1 DEF ReadValue, u
    <3> QED
      BY <3>2, <3>3, <3>4, <3>5, <3>6, Zenon DEF Kept
  <2> QED
    BY <2>2, <2>3
<1>2. CASE v.kind = "formula"
  <2>1. v.text \in Texts
    BY <1>2, ValueKinds
  <2>. DEFINE u == InAttribute[v.text]
  <2>2. CASE u = None \/ InElement[v.text] = None
    BY <1>2, <2>2 DEF Kept, OdsBack
  <2>3. CASE u # None /\ InElement[v.text] # None
    <3>1. u \in Texts /\ InAttribute[u] = u /\ u # None /\ InElement[u] # None
      BY <2>1, <2>3, Parsed
    <3>2. OdsBack(v) = Formula(u, 1)
      BY <1>2, <2>3 DEF OdsBack
    <3>. HIDE DEF u
    <3>3. IsValue(Formula(u, 1)) /\ Formula(u, 1).kind = "formula" /\ Formula(u, 1).text = u
      BY <3>1, FormulasAreValues, FormulaReadsBack
    <3>4. Formula(u, 1) # Blank /\ Formula(u, 1) # None
      BY <3>3, NotBlank, ValuesReadBack
    <3>5. OdsBack(Formula(u, 1)) = Formula(u, 1)
      BY <3>1, <3>3 DEF OdsBack
    <3>6. ReadValue(InAttribute, v) = Formula(u, 1)
      BY <1>2 DEF ReadValue, u
    <3> QED
      BY <3>2, <3>3, <3>4, <3>5, <3>6, Zenon DEF Kept
  <2> QED
    BY <2>2, <2>3
<1>3. CASE v.kind \notin {"text", "formula"}
  <2>1. OdsBack(v) = v /\ v # None
    BY <1>3, ValuesReadBack DEF OdsBack
  <2> QED
    BY <1>3, <2>1 DEF Kept, ReadValue
<1> QED
  BY <1>1, <1>2, <1>3

\* A cell as this codec writes it.
LEMMA OdsCellWritten ==
    ASSUME NEW v, IsValue(v), v # Blank, NEW at
    PROVE  /\ IsOdsCell(OdsCellOf(at, v)) /\ OdsDecodeCell(OdsCellOf(at, v)) = OdsBack(v)
           /\ OdsBack(v) # Blank
<1>. DEFINE c == OdsCellOf(at, v)
<1>1. OdsBack(v) # Blank
  <2>1. Kept(InAttribute, v, OdsBack(v)) /\ None # Blank
    BY OdsKept, BlankIsValue, ValuesReadBack
  <2> QED
    BY <2>1 DEF Kept
<1>2. CASE v.kind = "text"
  <2>1. v.text \in Texts
    BY <1>2, ValueKinds
  <2>2. /\ c.at = at /\ c.sim = "text" /\ c.value = v.text /\ c.text = v.text
        /\ c.formula = None /\ c.office = None /\ c.repeats = 1 /\ c.covered \in BOOLEAN /\ ~c.covered
    BY <1>2 DEF OdsCellOf, OdsCell
  <2>. HIDE DEF c
  <2>3. IsOdsCell(c)
    BY <2>1, <2>2 DEF IsOdsCell, TextsAndNone
  <2>4. v.text # None
    BY <2>1, TextAssumption
  <2>5. OdsDecodeCell(c) = IF None \in {InAttribute[v.text], InElement[v.text]}
                           THEN None ELSE Text(InAttribute[v.text])
    BY <2>2, <2>4 DEF OdsDecodeCell
  <2>6. OdsDecodeCell(c) = OdsBack(v)
    BY <1>2, <2>5 DEF OdsBack
  <2> QED
    BY <1>1, <2>3, <2>6 DEF c
<1>3. CASE v.kind = "formula"
  <2>1. v.text \in Texts
    BY <1>3, ValueKinds
  <2>2. /\ c.at = at /\ c.sim = "formula" /\ c.value = v.text /\ c.text = v.text
        /\ c.formula = OdsFormula("of:", 1, v.text) /\ c.office = None /\ c.repeats = 1 /\ c.covered \in BOOLEAN /\ ~c.covered
    BY <1>3 DEF OdsCellOf, OdsCell
  <2>. HIDE DEF c
  <2>3. IsOdsCell(c)
    BY <2>1, <2>2 DEF IsOdsCell, TextsAndNone, OdsFormula
  <2>4. v.text # None
    BY <2>1, TextAssumption
  <2>5. OdsDecodeCell(c) = IF None \in {InAttribute[v.text], InElement[v.text]}
                           THEN None ELSE Formula(InAttribute[v.text], 1)
    <3>1. c.formula # None => InAttribute[c.formula.text] = InAttribute[v.text]
      BY <2>2 DEF OdsFormula
    <3>2. CASE None \in {InAttribute[v.text], InElement[v.text]}
      BY <2>2, <2>4, <3>2, Zenon DEF OdsDecodeCell
    <3>3. CASE None \notin {InAttribute[v.text], InElement[v.text]}
      <4>1. ~ \/ None \in {InAttribute[c.value], InElement[c.text]}
              \/ c.office # None /\ InAttribute[c.office] = None
              \/ c.formula # None /\ InAttribute[c.formula.text] = None
        BY <2>2, <3>1, <3>3
      <4> QED
        BY <2>2, <2>4, <3>3, <4>1, Zenon DEF OdsDecodeCell
    <3> QED
      BY <3>2, <3>3
  <2>6. OdsDecodeCell(c) = OdsBack(v)
    BY <1>3, <2>5 DEF OdsBack
  <2> QED
    BY <1>1, <2>3, <2>6 DEF c
<1>4. CASE v.kind = "number"
  <2>. DEFINE t == Canonical(v.ratio)
  <2>1. t \in Texts /\ Exact(t) = v.ratio /\ v.ratio # None /\ v = Number(v.ratio)
        /\ InElement[t] = t /\ InAttribute[t] = t
    BY <1>4, ValueKinds
  <2>2. /\ c.at = at /\ c.sim = "number" /\ c.value = t /\ c.text = t
        /\ c.formula = None /\ c.office = None /\ c.repeats = 1 /\ c.covered \in BOOLEAN /\ ~c.covered
    BY <1>4 DEF OdsCellOf, OdsCell
  <2>. HIDE DEF c, t
  <2>3. IsOdsCell(c)
    BY <2>1, <2>2 DEF IsOdsCell, TextsAndNone
  <2>4. t # None
    BY <2>1, TextAssumption
  <2>5. OdsDecodeCell(c) = NumberOf(t)
    BY <2>1, <2>2, <2>4 DEF OdsDecodeCell
  <2>6. NumberOf(t) = v
    BY <2>1 DEF NumberOf
  <2>7. OdsBack(v) = v
    BY <1>4 DEF OdsBack
  <2> QED
    BY <1>1, <2>3, <2>5, <2>6, <2>7 DEF c
<1>5. CASE v.kind = "bool"
  <2>1. PICK b \in BOOLEAN : v = Bool(b)
    BY <1>5, ValueKinds
  <2>. DEFINE t == TruthAs("words", v)
  <2>2. t \in Texts /\ BoolOf(t) = v /\ InElement[t] = t /\ InAttribute[t] = t
    BY <2>1, TruthTexts
  <2>3. /\ c.at = at /\ c.sim = "bool" /\ c.value = t /\ c.text = t
        /\ c.formula = None /\ c.office = t /\ c.repeats = 1 /\ c.covered \in BOOLEAN /\ ~c.covered
    BY <1>5 DEF OdsCellOf, OdsCell
  <2>. HIDE DEF c, t
  <2>4. IsOdsCell(c)
    BY <2>2, <2>3 DEF IsOdsCell, TextsAndNone
  <2>5. t # None
    BY <2>2, TextAssumption
  <2>6. OdsDecodeCell(c) = BoolOf(t)
    BY <2>2, <2>3, <2>5 DEF OdsDecodeCell
  <2>7. OdsBack(v) = v
    BY <1>5 DEF OdsBack
  <2> QED
    BY <1>1, <2>2, <2>4, <2>6, <2>7 DEF c
<1> QED
  BY <1>2, <1>3, <1>4, <1>5, ValueKinds

LEMMA OdsGapRead ==
    ASSUME NEW count \in Nat
    PROVE  /\ IsOdsCell(OdsGap(count)) /\ OdsDecodeCell(OdsGap(count)) = Blank
           /\ ~OdsGap(count).covered
<1>. DEFINE c == OdsGap(count)
<1>1. /\ c.sim = "" /\ c.value = None /\ c.type = "" /\ c.formula = None /\ c.office = None
      /\ c.text = Empty /\ c.repeats = count /\ c.covered \in BOOLEAN /\ ~c.covered
  BY DEF OdsGap, OdsCell
<1>. HIDE DEF c
<1>2. IsOdsCell(c)
  BY <1>1, EmptyParsed DEF IsOdsCell, TextsAndNone
<1>3. OdsDecodeCell(c) = OdsUntyped(c, Empty)
  BY <1>1, EmptyParsed DEF OdsDecodeCell
<1>4. OdsUntyped(c, Empty) = Blank
  BY <1>1, EmptyParsed DEF OdsUntyped
<1> QED
  BY <1>1, <1>2, <1>3, <1>4 DEF c

(***************************************************************************)
(* What is written into the cells of a sheet by the rows of a table        *)
(***************************************************************************)
LEMMA ListsFlattened ==
    ASSUME NEW ss, IsList(ss), \A i \in 1..Len(ss) : IsList(ss[i])
    PROVE  /\ IsList(FlattenSeq(ss))
           /\ ToSet(FlattenSeq(ss)) = UNION {ToSet(ss[i]) : i \in 1..Len(ss)}
<1>. DEFINE U == UNION {ToSet(ss[i]) : i \in 1..Len(ss)}
<1>1. Len(ss) \in Nat /\ ss = [i \in 1..Len(ss) |-> ss[i]]
  BY ListIs
<1>2. \A i \in 1..Len(ss) : ss[i] \in Seq(U)
  <2> SUFFICES ASSUME NEW i \in 1..Len(ss) PROVE ss[i] \in Seq(U)
    OBVIOUS
  <2>1. ss[i] \in Seq(ToSet(ss[i])) /\ ToSet(ss[i]) \subseteq U
    BY DEF IsList
  <2>. HIDE DEF U
  <2> QED
    BY <2>1, SeqMonotonic
<1>3. FlattenSeq(ss) \in Seq(U) /\ ToSet(FlattenSeq(ss)) = U
  <2>. HIDE DEF U
  <2>1. /\ FlattenSeq(ss) \in Seq(U)
        /\ ToSet(FlattenSeq(ss)) = UNION {ToSet(ss[i]) : i \in 1..Len(ss)}
    BY <1>1, <1>2, Flattened
  <2> QED
    BY <2>1 DEF U
<1>4. IsList(FlattenSeq(ss))
  BY <1>3, Listed
<1> QED
  BY <1>3, <1>4

LEMMA CellWritesRead ==
    ASSUME NEW c, IsOdsCell(c), NEW column, NEW row
    PROVE  /\ IsList(OdsCellWrites(c, column, row))
           /\ \A w \in ToSet(OdsCellWrites(c, column, row)) : w.value = OdsDecodeCell(c)
           /\ c.covered \/ OdsDecodeCell(c) = Blank => ToSet(OdsCellWrites(c, column, row)) = {}
           /\ ~c.covered /\ OdsDecodeCell(c) # Blank /\ c.repeats = 1 /\ c.at # None =>
                 ToSet(OdsCellWrites(c, column, row)) = {[at |-> c.at, value |-> OdsDecodeCell(c)]}
<1>. DEFINE writes == OdsCellWrites(c, column, row)
            n == c.repeats
            w == OdsDecodeCell(c)
            e(k) == IF c.at # None /\ k = 1 THEN c.at ELSE Display(Cell(column + k - 1, row))
<1>1. n \in Nat /\ c.covered \in BOOLEAN
  BY DEF IsOdsCell
<1>2. CASE c.covered \/ w = Blank
  <2>1. writes = <<>>
    BY <1>2 DEF OdsCellWrites
  <2>2. IsList(<<>>) /\ ToSet(<<>>) = {}
    BY EmptyList
  <2> QED
    BY <1>1, <1>2, <2>1, <2>2
<1>3. CASE ~(c.covered \/ w = Blank)
  <2>1. writes = [k \in 1..n |-> [at |-> e(k), value |-> w]]
    BY <1>3 DEF OdsCellWrites
  <2>. HIDE DEF writes, n, w
  <2>2. IsList(writes) /\ Len(writes) = n /\ \A k \in 1..n : writes[k] = [at |-> e(k), value |-> w]
    BY <1>1, <2>1, ListBuilt
  <2>3. ToSet(writes) = {writes[k] : k \in 1..n}
    BY <2>2, ListIs
  <2>4. \A k \in 1..n : writes[k].value = w
    BY <2>2
  <2>5. ASSUME n = 1, c.at # None PROVE ToSet(writes) = {[at |-> c.at, value |-> w]}
    <3>1. writes[1] = [at |-> c.at, value |-> w] /\ 1..n = {1}
      BY <2>2, <2>5
    <3> QED
      BY <2>3, <3>1
  <2>6. \A x \in ToSet(writes) : x.value = w
    BY <2>3, <2>4
  <2> QED
    BY <1>3, <2>2, <2>5, <2>6 DEF writes, n, w
<1> QED
  BY <1>2, <1>3

LEMMA RowWritesRead ==
    ASSUME NEW cells, IsList(cells), \A c \in ToSet(cells) : IsOdsCell(c), NEW row
    PROVE  /\ IsList(OdsRowWrites(cells, row))
           /\ ToSet(OdsRowWrites(cells, row)) =
                 UNION {ToSet(OdsCellWrites(cells[j], PlaceOf(cells, j), row)) : j \in 1..Len(cells)}
           /\ \A w \in ToSet(OdsRowWrites(cells, row)) :
                 \E c \in ToSet(cells) : w.value = OdsDecodeCell(c)
<1>. DEFINE n == Len(cells)
            ss == [j \in 1..n |-> OdsCellWrites(cells[j], PlaceOf(cells, j), row)]
<1>1. n \in Nat /\ ToSet(cells) = {cells[j] : j \in 1..n}
  BY ListIs
<1>2. IsList(ss) /\ Len(ss) = n
  BY <1>1, ListBuilt
<1>3. \A j \in 1..n : IsOdsCell(cells[j])
  BY <1>1
<1>4. \A j \in 1..n : ss[j] = OdsCellWrites(cells[j], PlaceOf(cells, j), row)
  OBVIOUS
<1>5. OdsRowWrites(cells, row) = FlattenSeq(ss)
  BY DEF OdsRowWrites
<1>. HIDE DEF ss, n
<1>6. \A j \in 1..n : IsList(ss[j])
  BY <1>3, <1>4, CellWritesRead
<1>7. IsList(FlattenSeq(ss)) /\ ToSet(FlattenSeq(ss)) = UNION {ToSet(ss[j]) : j \in 1..n}
  BY <1>2, <1>6, ListsFlattened
<1>8. \A j \in 1..n : \A w \in ToSet(ss[j]) : w.value = OdsDecodeCell(cells[j])
  BY <1>3, <1>4, CellWritesRead
<1>9. \A w \in ToSet(FlattenSeq(ss)) : \E c \in ToSet(cells) : w.value = OdsDecodeCell(c)
  <2> SUFFICES ASSUME NEW w \in ToSet(FlattenSeq(ss))
               PROVE  \E c \in ToSet(cells) : w.value = OdsDecodeCell(c)
    OBVIOUS
  <2>1. PICK j \in 1..n : w \in ToSet(ss[j])
    BY <1>7
  <2> QED
    BY <1>1, <1>8, <2>1
<1>10. {ToSet(ss[j]) : j \in 1..n}
          = {ToSet(OdsCellWrites(cells[j], PlaceOf(cells, j), row)) : j \in 1..n}
  BY <1>4
<1> QED
  BY <1>5, <1>7, <1>9, <1>10 DEF n

\* What every row of a table sets, one after the other.
LEMMA TableWritesRead ==
    ASSUME NEW rows, IsList(rows), \A row \in ToSet(rows) : IsOdsRow(row)
    PROVE  /\ IsList(OdsWrites(rows))
           /\ ToSet(OdsWrites(rows)) =
                 UNION {UNION {ToSet(OdsRowWrites(rows[i].cells, PlaceOf(rows, i) + k - 1))
                               : k \in 1..rows[i].repeats} : i \in 1..Len(rows)}
           /\ \A w \in ToSet(OdsWrites(rows)) :
                 \E row \in ToSet(rows) : \E c \in ToSet(row.cells) : w.value = OdsDecodeCell(c)
<1>. DEFINE n == Len(rows)
            turn(i) == [k \in 1..rows[i].repeats |-> OdsRowWrites(rows[i].cells, PlaceOf(rows, i) + k - 1)]
            ss == [i \in 1..n |-> FlattenSeq(turn(i))]
            sets(i) == {ToSet(OdsRowWrites(rows[i].cells, PlaceOf(rows, i) + k - 1))
                         : k \in 1..rows[i].repeats}
<1>1. n \in Nat /\ ToSet(rows) = {rows[i] : i \in 1..n}
  BY ListIs
<1>2. \A i \in 1..n : /\ rows[i] \in ToSet(rows) /\ rows[i].repeats \in Nat
                      /\ IsList(rows[i].cells) /\ \A c \in ToSet(rows[i].cells) : IsOdsCell(c)
  BY <1>1 DEF IsOdsRow
<1>3. ASSUME NEW i \in 1..n
      PROVE  /\ IsList(FlattenSeq(turn(i))) /\ ToSet(FlattenSeq(turn(i))) = UNION sets(i)
             /\ \A w \in ToSet(FlattenSeq(turn(i))) :
                   \E c \in ToSet(rows[i].cells) : w.value = OdsDecodeCell(c)
  <2>. DEFINE t == turn(i)
              m == rows[i].repeats
              cells == rows[i].cells
  <2>1. m \in Nat /\ IsList(cells) /\ \A c \in ToSet(cells) : IsOdsCell(c)
    BY <1>2
  <2>2. IsList(t) /\ Len(t) = m
    BY <2>1, ListBuilt
  <2>3. \A k \in 1..m : t[k] = OdsRowWrites(cells, PlaceOf(rows, i) + k - 1)
    OBVIOUS
  <2>. HIDE DEF t, cells, m
  <2>4. \A k \in 1..m : IsList(t[k])
                        /\ \A w \in ToSet(t[k]) : \E c \in ToSet(cells) : w.value = OdsDecodeCell(c)
    BY <2>1, <2>3, RowWritesRead
  <2>5. IsList(FlattenSeq(t)) /\ ToSet(FlattenSeq(t)) = UNION {ToSet(t[k]) : k \in 1..m}
    BY <2>2, <2>4, ListsFlattened
  <2>6. {ToSet(t[k]) : k \in 1..m} = sets(i)
    BY <2>3 DEF cells, m
  <2>7. \A w \in ToSet(FlattenSeq(t)) : \E c \in ToSet(cells) : w.value = OdsDecodeCell(c)
    <3> SUFFICES ASSUME NEW w \in ToSet(FlattenSeq(t))
                 PROVE  \E c \in ToSet(cells) : w.value = OdsDecodeCell(c)
      OBVIOUS
    <3>1. PICK k \in 1..m : w \in ToSet(t[k])
      BY <2>5
    <3> QED
      BY <2>4, <3>1
  <2> QED
    BY <2>5, <2>6, <2>7 DEF t, cells
<1>4. OdsWrites(rows) = FlattenSeq(ss)
  BY DEF OdsWrites
<1>5. IsList(ss) /\ Len(ss) = n
  BY <1>1, ListBuilt
<1>6. \A i \in 1..n : ss[i] = FlattenSeq(turn(i))
  OBVIOUS
<1>. HIDE DEF ss, turn, n, sets
<1>7. \A i \in 1..n : /\ IsList(ss[i]) /\ ToSet(ss[i]) = UNION sets(i)
                      /\ \A w \in ToSet(ss[i]) :
                            \E c \in ToSet(rows[i].cells) : w.value = OdsDecodeCell(c)
  BY <1>3, <1>6
<1>8. IsList(FlattenSeq(ss)) /\ ToSet(FlattenSeq(ss)) = UNION {ToSet(ss[i]) : i \in 1..n}
  BY <1>5, <1>7, ListsFlattened
<1>9. {ToSet(ss[i]) : i \in 1..n} = {UNION sets(i) : i \in 1..n}
  BY <1>7
<1>10. \A w \in ToSet(FlattenSeq(ss)) :
          \E row \in ToSet(rows) : \E c \in ToSet(row.cells) : w.value = OdsDecodeCell(c)
  <2> SUFFICES ASSUME NEW w \in ToSet(FlattenSeq(ss))
               PROVE  \E row \in ToSet(rows) : \E c \in ToSet(row.cells) : w.value = OdsDecodeCell(c)
    OBVIOUS
  <2>1. PICK i \in 1..n : w \in ToSet(ss[i])
    BY <1>8
  <2> QED
    BY <1>2, <1>7, <2>1
<1> QED
  BY <1>4, <1>8, <1>9, <1>10 DEF sets, n

\* A row of elements that stand for some of the cells of a sheet, or for none.
LEMMA RowOfCells ==
    ASSUME NEW s, IsSheet(s), NEW E \in SUBSET DOMAIN s.cells,
           NEW cells, IsList(cells),
           \A x \in ToSet(cells) : \/ \E count \in Nat : x = OdsGap(count)
                                   \/ \E c \in E : x = OdsCellOf(Display(c), s.cells[c]),
           \A c \in E : OdsCellOf(Display(c), s.cells[c]) \in ToSet(cells),
           NEW row
    PROVE  /\ \A x \in ToSet(cells) : IsOdsCell(x)
           /\ ToSet(OdsRowWrites(cells, row)) =
                 {[at |-> Display(c), value |-> OdsBack(s.cells[c])] : c \in E}
<1>1. \A c \in E : IsValue(s.cells[c]) /\ s.cells[c] # Blank /\ c \in Cells
  BY DEF IsSheet
<1>2. \A c \in E : Display(c) # None
  <2> SUFFICES ASSUME NEW c \in E PROVE Display(c) # None
    OBVIOUS
  <2>1. c.column \in 0..MaxIndex /\ c.row \in Nat
    BY <1>1, MaxIndexAssumption DEF Cells
  <2>2. Letters[c.column] \in Seq(Int)
    BY <2>1, ColumnsReadBack
  <2>3. Display(c) \in [letters : Seq(Int), row : Nat]
    BY <2>1, <2>2 DEF Display
  <2> QED
    BY <2>3, NoneAssumption
<1>3. \A x \in ToSet(cells) : IsOdsCell(x)
  BY <1>1, OdsGapRead, OdsCellWritten
<1>. DEFINE n == Len(cells)
            part(j) == ToSet(OdsCellWrites(cells[j], PlaceOf(cells, j), row))
            write(c) == [at |-> Display(c), value |-> OdsBack(s.cells[c])]
            writes == ToSet(OdsRowWrites(cells, row))
<1>4. n \in Nat /\ ToSet(cells) = {cells[j] : j \in 1..n}
  BY ListIs
<1>5. writes = UNION {part(j) : j \in 1..n}
  BY <1>3, RowWritesRead
<1>6. ASSUME NEW j \in 1..n, NEW count \in Nat, cells[j] = OdsGap(count) PROVE part(j) = {}
  <2>1. IsOdsCell(cells[j]) /\ OdsDecodeCell(cells[j]) = Blank
    BY <1>6, OdsGapRead
  <2> QED
    BY <2>1, CellWritesRead
<1>7. ASSUME NEW j \in 1..n, NEW c \in E, cells[j] = OdsCellOf(Display(c), s.cells[c])
      PROVE  part(j) = {write(c)}
  <2>. DEFINE x == OdsCellOf(Display(c), s.cells[c])
  <2>1. IsOdsCell(x) /\ OdsDecodeCell(x) = OdsBack(s.cells[c]) /\ OdsBack(s.cells[c]) # Blank
    BY <1>1, OdsCellWritten
  <2>2. x.at = Display(c) /\ x.repeats = 1 /\ ~x.covered
    BY DEF OdsCellOf, OdsCell
  <2>. HIDE DEF x
  <2>3. ToSet(OdsCellWrites(x, PlaceOf(cells, j), row)) = {[at |-> x.at, value |-> OdsDecodeCell(x)]}
    BY <1>2, <2>1, <2>2, CellWritesRead
  <2> QED
    BY <1>7, <2>1, <2>2, <2>3 DEF x
<1>. HIDE DEF part, writes
<1>8. ASSUME NEW w \in writes PROVE \E c \in E : w = write(c)
  <2>. HIDE DEF write
  <2>1. PICK j \in 1..n : w \in part(j)
    BY <1>5
  <2>2. ~ \E count \in Nat : cells[j] = OdsGap(count)
    BY <1>6, <2>1
  <2>3. PICK c \in E : cells[j] = OdsCellOf(Display(c), s.cells[c])
    BY <1>4, <2>2
  <2> QED
    BY <1>7, <2>1, <2>3
<1>9. ASSUME NEW c \in E PROVE write(c) \in writes
  <2>. HIDE DEF write
  <2>1. PICK j \in 1..n : cells[j] = OdsCellOf(Display(c), s.cells[c])
    BY <1>4
  <2>2. part(j) = {write(c)}
    BY <1>7, <2>1
  <2> QED
    BY <1>5, <2>2
<1>10. writes = {write(c) : c \in E}
  <2>. HIDE DEF write
  <2>1. writes \subseteq {write(c) : c \in E}
    BY <1>8
  <2>2. {write(c) : c \in E} \subseteq writes
    BY <1>9
  <2> QED
    BY <2>1, <2>2, Zenon
<1> QED
  BY <1>3, <1>10 DEF writes

\* A row of a table as this codec writes it.
LEMMA OdsRowWritten ==
    ASSUME NEW s, IsSheet(s), NEW row
    PROVE  LET E == {c \in DOMAIN s.cells : c.row = row}
               cells == OdsRowOf(s, row)
           IN /\ IsList(cells)
              /\ \A x \in ToSet(cells) : \/ \E count \in Nat : x = OdsGap(count)
                                         \/ \E c \in E : x = OdsCellOf(Display(c), s.cells[c])
              /\ \A c \in E : OdsCellOf(Display(c), s.cells[c]) \in ToSet(cells)
<1>. DEFINE E == {c \in DOMAIN s.cells : c.row = row}
            columns == {c.column : c \in E}
            gap(column) == column - 1 - Max({0} \cup {c \in columns : c < column})
            at(column) == OdsCellOf(Display(Cell(column, row)), s.cells[Cell(column, row)])
            order == InOrder(columns, [c \in columns |-> c])
            ss == [i \in 1..Len(order) |-> IF gap(order[i]) = 0 THEN <<at(order[i])>>
                                           ELSE <<OdsGap(gap(order[i])), at(order[i])>>]
<1>1. IsFiniteSet(E) /\ E \subseteq Cells
  BY FS_Subset DEF IsSheet
<1>2. columns \subseteq 1..MaxIndex
  BY <1>1 DEF Cells
<1>3. IsFiniteSet(columns)
  <2>1. IsFiniteSet(1..MaxIndex)
    BY FS_Interval, MaxIndexAssumption
  <2> QED
    BY <1>2, <2>1, FS_Subset
<1>4. \A c \in E : c.column \in columns /\ Cell(c.column, row) = c
  <2> SUFFICES ASSUME NEW c \in E PROVE c.column \in columns /\ Cell(c.column, row) = c
    OBVIOUS
  <2>1. c \in Cells /\ c.row = row
    BY <1>1
  <2> QED
    BY <2>1 DEF Cells, Cell
<1>5. \A column \in columns : \E c \in E : c.column = column /\ Cell(column, row) = c
  BY <1>4
<1>6. OdsRowOf(s, row) = FlattenSeq(ss)
  BY DEF OdsRowOf
<1>. HIDE DEF columns
<1>7. /\ order \in Seq(columns)
      /\ \A column \in columns : \E i \in 1..Len(order) : order[i] = column
  <2>. DEFINE place == [c \in columns |-> c]
  <2>1. Placed(columns, place)
    BY <1>2, <1>3 DEF Placed
  <2>. HIDE DEF place
  <2> QED
    BY <2>1, InOrderCovers DEF place
<1>8. \A column \in columns : gap(column) \in Nat
  <2> SUFFICES ASSUME NEW column \in columns PROVE gap(column) \in Nat
    OBVIOUS
  <2>. DEFINE S == {0} \cup {c \in columns : c < column}
  <2>1. column \in 1..MaxIndex /\ MaxIndex \in Nat
    BY <1>2, MaxIndexAssumption
  <2>2. S \in SUBSET (0..(column - 1)) /\ S # {} /\ column - 1 \in Nat
    <3>1. column - 1 \in Nat /\ 0 \in 0..(column - 1)
      BY <2>1
    <3>2. ASSUME NEW c \in columns, c < column PROVE c \in 0..(column - 1)
      <4>1. c \in 1..MaxIndex
        BY <1>2
      <4> QED
        BY <2>1, <3>2, <4>1
    <3> QED
      BY <3>1, <3>2
  <2>. HIDE DEF S
  <2>3. Max(S) \in S
    BY <2>2, LargestUpTo
  <2>4. Max(S) \in 0..(column - 1)
    BY <2>2, <2>3
  <2>. DEFINE m == Max(S)
  <2>. HIDE DEF m
  <2>5. m \in 0..(column - 1)
    BY <2>4 DEF m
  <2>6. column - 1 - m \in Nat
    BY <2>1, <2>5
  <2> QED
    BY <2>6 DEF m, S
<1>. HIDE DEF order, gap, at
<1>9. Len(order) \in Nat /\ \A i \in 1..Len(order) : order[i] \in columns
  BY <1>7, LenProperties, ElementOfSeq
<1>10. IsList(ss) /\ Len(ss) = Len(order)
  BY <1>9, ListBuilt
<1>11. \A i \in 1..Len(order) :
          ss[i] = IF gap(order[i]) = 0 THEN <<at(order[i])>>
                  ELSE <<OdsGap(gap(order[i])), at(order[i])>>
  OBVIOUS
<1>. HIDE DEF ss
<1>12. \A i \in 1..Len(order) :
          /\ IsList(ss[i]) /\ at(order[i]) \in ToSet(ss[i])
          /\ ToSet(ss[i]) \subseteq {OdsGap(gap(order[i])), at(order[i])}
  <2> SUFFICES ASSUME NEW i \in 1..Len(order)
               PROVE  /\ IsList(ss[i]) /\ at(order[i]) \in ToSet(ss[i])
                      /\ ToSet(ss[i]) \subseteq {OdsGap(gap(order[i])), at(order[i])}
    OBVIOUS
  <2>. DEFINE a == at(order[i])
              g == OdsGap(gap(order[i]))
              T == {g, a}
  <2>1. ss[i] = <<a>> \/ ss[i] = <<g, a>>
    BY <1>11
  <2>. HIDE DEF a, g
  <2>2. ss[i] \in Seq(T)
    <3>1. <<a>> \in Seq(T) /\ <<g, a>> \in Seq(T)
      OBVIOUS
    <3>. HIDE DEF T
    <3> QED
      BY <2>1, <3>1
  <2>3. \E j \in 1..Len(ss[i]) : ss[i][j] = a
    <3>1. CASE ss[i] = <<a>>
      <4>1. Len(<<a>>) = 1 /\ <<a>>[1] = a
        OBVIOUS
      <4> QED
        BY <3>1, <4>1
    <3>2. CASE ss[i] = <<g, a>>
      <4>1. Len(<<g, a>>) = 2 /\ <<g, a>>[2] = a
        OBVIOUS
      <4> QED
        BY <3>2, <4>1
    <3> QED
      BY <2>1, <3>1, <3>2
  <2>4. IsList(ss[i]) /\ ToSet(ss[i]) = {ss[i][j] : j \in 1..Len(ss[i])} /\ ToSet(ss[i]) \subseteq T
    <3>. HIDE DEF T
    <3> QED
      BY <2>2, Listed
  <2> QED
    BY <2>3, <2>4 DEF a, g
<1>13. IsList(FlattenSeq(ss)) /\ ToSet(FlattenSeq(ss)) = UNION {ToSet(ss[i]) : i \in 1..Len(order)}
  BY <1>10, <1>12, ListsFlattened
<1>14. \A x \in ToSet(FlattenSeq(ss)) :
          \/ \E count \in Nat : x = OdsGap(count)
          \/ \E c \in E : x = OdsCellOf(Display(c), s.cells[c])
  <2> SUFFICES ASSUME NEW x \in ToSet(FlattenSeq(ss))
               PROVE  \/ \E count \in Nat : x = OdsGap(count)
                      \/ \E c \in E : x = OdsCellOf(Display(c), s.cells[c])
    OBVIOUS
  <2>1. PICK i \in 1..Len(order) : x \in ToSet(ss[i])
    BY <1>13
  <2>2. x = OdsGap(gap(order[i])) \/ x = at(order[i])
    BY <1>12, <2>1
  <2>3. order[i] \in columns /\ gap(order[i]) \in Nat
    BY <1>8, <1>9
  <2>4. PICK c \in E : Cell(order[i], row) = c
    BY <1>5, <2>3
  <2>5. at(order[i]) = OdsCellOf(Display(c), s.cells[c])
    BY <2>4 DEF at
  <2>. HIDE DEF E
  <2> QED
    BY <2>2, <2>3, <2>5
<1>15. \A c \in E : OdsCellOf(Display(c), s.cells[c]) \in ToSet(FlattenSeq(ss))
  <2> SUFFICES ASSUME NEW c \in E
               PROVE  OdsCellOf(Display(c), s.cells[c]) \in ToSet(FlattenSeq(ss))
    OBVIOUS
  <2>. HIDE DEF E
  <2>1. c.column \in columns /\ Cell(c.column, row) = c
    BY <1>4
  <2>2. PICK i \in 1..Len(order) : order[i] = c.column
    BY <1>7, <2>1
  <2>3. at(order[i]) = OdsCellOf(Display(c), s.cells[c])
    BY <2>1, <2>2 DEF at
  <2>4. at(order[i]) \in ToSet(ss[i])
    BY <1>12
  <2> QED
    BY <1>13, <2>3, <2>4
<1> QED
  BY <1>6, <1>13, <1>14, <1>15

LEMMA TableWritten ==
    ASSUME NEW s, IsSheet(s)
    PROVE  LET rows == TableXml(s).rows
           IN /\ TableXml(s).name = s.name
              /\ IsList(rows) /\ \A row \in ToSet(rows) : IsOdsRow(row)
              /\ IsList(OdsWrites(rows))
              /\ ToSet(OdsWrites(rows)) =
                    {[at |-> Display(c), value |-> OdsBack(s.cells[c])] : c \in DOMAIN s.cells}
<1>. DEFINE D == DOMAIN s.cells
            taken == {0} \cup {c.row : c \in D}
            n == Max(taken)
            E(i) == {c \in D : c.row = i}
            rows == TableXml(s).rows
            write(c) == [at |-> Display(c), value |-> OdsBack(s.cells[c])]
            set(i, k) == ToSet(OdsRowWrites(rows[i].cells, PlaceOf(rows, i) + k - 1))
<1>1. D \subseteq Cells /\ MaxIndex \in Nat
  BY MaxIndexAssumption DEF IsSheet
<1>2. taken \in SUBSET (0..MaxIndex) /\ taken # {}
  BY <1>1 DEF Cells
<1>3. rows = [row \in 1..n |-> OdsRow(OdsRowOf(s, row))] /\ TableXml(s).name = s.name
  BY DEF TableXml
<1>4. n \in taken /\ \A k \in taken : k <= n
  <2>. HIDE DEF taken
  <2> QED
    BY <1>1, <1>2, LargestUpTo
<1>5. n \in Nat /\ \A c \in D : c.row \in 1..n
  <2>1. n \in 0..MaxIndex
    BY <1>2, <1>4
  <2>2. \A c \in D : c.row \in 1..MaxIndex /\ c.row <= n
    BY <1>1, <1>4 DEF Cells
  <2>. HIDE DEF n
  <2> QED
    BY <1>1, <2>1, <2>2
<1>. HIDE DEF n, rows
<1>6. IsList(rows) /\ Len(rows) = n
  BY <1>3, <1>5, ListBuilt
<1>7. \A i \in 1..n : rows[i].cells = OdsRowOf(s, i) /\ rows[i].repeats = 1
  BY <1>3 DEF OdsRow
<1>8. ASSUME NEW i \in 1..n
      PROVE  /\ IsOdsRow(rows[i])
             /\ \A k : set(i, k) = {write(c) : c \in E(i)}
  <2>. DEFINE cells == OdsRowOf(s, i)
  <2>1. /\ IsList(cells)
        /\ \A x \in ToSet(cells) : \/ \E count \in Nat : x = OdsGap(count)
                                   \/ \E c \in E(i) : x = OdsCellOf(Display(c), s.cells[c])
        /\ \A c \in E(i) : OdsCellOf(Display(c), s.cells[c]) \in ToSet(cells)
    BY OdsRowWritten
  <2>. HIDE DEF cells
  <2>2. /\ \A x \in ToSet(cells) : IsOdsCell(x)
        /\ \A row : ToSet(OdsRowWrites(cells, row)) = {write(c) : c \in E(i)}
    <3>1. E(i) \in SUBSET D
      OBVIOUS
    <3>. HIDE DEF E
    <3> QED
      BY <2>1, <3>1, RowOfCells
  <2>3. rows[i].cells = cells /\ rows[i].repeats = 1
    BY <1>7 DEF cells
  <2>4. IsOdsRow(rows[i])
    BY <2>1, <2>2, <2>3 DEF IsOdsRow
  <2> QED
    BY <2>2, <2>3, <2>4
<1>. HIDE DEF E, write, set
<1>9. \A row \in ToSet(rows) : IsOdsRow(row)
  BY <1>6, <1>8, ListIs
<1>10. /\ IsList(OdsWrites(rows))
       /\ ToSet(OdsWrites(rows)) =
             UNION {UNION {set(i, k) : k \in 1..rows[i].repeats} : i \in 1..n}
  BY <1>6, <1>9, TableWritesRead DEF set
<1>11. ToSet(OdsWrites(rows)) \subseteq {write(c) : c \in D}
  <2> SUFFICES ASSUME NEW w \in ToSet(OdsWrites(rows)) PROVE \E c \in D : w = write(c)
    OBVIOUS
  <2>1. PICK i \in 1..n : \E k \in 1..rows[i].repeats : w \in set(i, k)
    BY <1>10
  <2>2. w \in {write(c) : c \in E(i)}
    BY <1>8, <2>1
  <2>3. E(i) \subseteq D
    BY DEF E
  <2> QED
    BY <2>2, <2>3
<1>12. {write(c) : c \in D} \subseteq ToSet(OdsWrites(rows))
  <2> SUFFICES ASSUME NEW c \in D PROVE write(c) \in ToSet(OdsWrites(rows))
    OBVIOUS
  <2>1. c.row \in 1..n /\ c \in E(c.row)
    BY <1>5 DEF E
  <2>2. write(c) \in set(c.row, 1)
    BY <1>8, <2>1
  <2>3. 1 \in 1..rows[c.row].repeats
    BY <1>7, <2>1
  <2> QED
    BY <1>10, <2>1, <2>2, <2>3
<1>13. ToSet(OdsWrites(rows)) = {write(c) : c \in D}
  BY <1>11, <1>12, Zenon
<1> QED
  BY <1>3, <1>6, <1>9, <1>10, <1>13 DEF rows, write

(***************************************************************************)
(* .ods                                                                    *)
(***************************************************************************)
LEMMA OdfWritten ==
    ASSUME NEW mimetype, mimetype # "none"
    PROVE  OdfReadable(WriteOdf(mimetype)) /\ WriteOdf(mimetype).mimetype = mimetype
<1>. DEFINE c == WriteOdf(mimetype)
            names == {"mimetype", "content.xml", "styles.xml", "META-INF/manifest.xml"}
<1>1. /\ c.first = (mimetype # "none") /\ c.mimetype = mimetype
      /\ c.parts = Named(names)
  BY DEF WriteOdf, Container
<1>. HIDE DEF c
<1>2. Named({"mimetype", "content.xml", "META-INF/manifest.xml"}) \subseteq Named(names)
  BY DEF Named
<1>3. OdfReadable(c)
  BY <1>1, <1>2, Zenon DEF OdfReadable
<1> QED
  BY <1>1, <1>3 DEF c

LEMMA OdsRead ==
    ASSUME NEW f, OdsDecode(f).ok
    PROVE  LET content == f.content
               name == InAttribute[content.tables[1].name]
               sheet == SheetOf(name, OdsWrites(content.tables[1].rows))
           IN /\ content.tables # <<>> /\ name # None /\ sheet # NoSheet
              /\ OdsDecode(f).value = SheetToDoc(ImportedId("ods", name), sheet)
  BY DEF OdsDecode, Refused, Answered

LEMMA OdsReadTyped ==
    ASSUME NEW f, IsSpreadsheet(f.content), OdsDecode(f).ok
    PROVE  IsSheetDoc(OdsDecode(f).value)
<1>. DEFINE content == f.content
            table == content.tables[1]
            name == InAttribute[table.name]
            sheet == SheetOf(name, OdsWrites(table.rows))
<1>1. /\ content.tables # <<>> /\ name # None /\ sheet # NoSheet
      /\ OdsDecode(f).value = SheetToDoc(ImportedId("ods", name), sheet)
  BY OdsRead
<1>2. /\ IsList(content.tables)
      /\ \A t \in ToSet(content.tables) :
            t.name \in Texts /\ IsList(t.rows) /\ \A row \in ToSet(t.rows) : IsOdsRow(row)
  BY DEF IsSpreadsheet
<1>. HIDE DEF content
<1>3. table \in ToSet(content.tables)
  <2>1. Len(content.tables) \in Nat \ {0}
    BY <1>1, <1>2, ListFront
  <2> QED
    BY <1>2, <2>1, ListIs
<1>4. table.name \in Texts /\ IsList(table.rows) /\ \A row \in ToSet(table.rows) : IsOdsRow(row)
  BY <1>2, <1>3
<1>5. name \in Texts
  BY <1>1, <1>4, Parsed
<1>. HIDE DEF table, name
<1>6. /\ IsList(OdsWrites(table.rows))
      /\ \A w \in ToSet(OdsWrites(table.rows)) :
            \E row \in ToSet(table.rows) : \E c \in ToSet(row.cells) : w.value = OdsDecodeCell(c)
  BY <1>4, TableWritesRead
<1>7. \A w \in ToSet(OdsWrites(table.rows)) : w.value = None \/ IsValue(w.value)
  <2> SUFFICES ASSUME NEW w \in ToSet(OdsWrites(table.rows))
               PROVE  w.value = None \/ IsValue(w.value)
    OBVIOUS
  <2>1. PICK row \in ToSet(table.rows) : \E c \in ToSet(row.cells) : w.value = OdsDecodeCell(c)
    BY <1>6
  <2>2. PICK c \in ToSet(row.cells) : w.value = OdsDecodeCell(c)
    BY <2>1
  <2>3. IsOdsCell(c)
    BY <1>4 DEF IsOdsRow
  <2> QED
    BY <2>2, <2>3, OdsCellRead
<1>. DEFINE writes == OdsWrites(table.rows)
<1>. HIDE DEF writes
<1>8. /\ Len(writes) \in Nat
      /\ \A i \in 1..Len(writes) : writes[i].value = None \/ IsValue(writes[i].value)
  BY <1>6, <1>7, ListIs DEF writes
<1>9. IsSheet(sheet)
  BY <1>1, <1>5, <1>8, SheetOfTyped DEF writes
<1> QED
  BY <1>1, <1>9, SheetDocs

LEMMA OdsEncoded ==
    ASSUME NEW d, IsSheetDoc(d)
    PROVE  LET f == OdsEncode(d).value
           IN /\ OdsEncode(d).ok /\ f.format = "ods" /\ f.container = WriteOdf("spreadsheet")
              /\ f.content.tables = <<TableXml(DocToSheet(d))>>
<1>. DEFINE s == DocToSheet(d)
<1>1. s # NoSheet
  BY SheetDocs DEF IsSheetDoc
<1>. HIDE DEF s
<1> QED
  BY <1>1 DEF OdsEncode, Answered, s

LEMMA OdsFile ==
    ASSUME NEW d, IsSheetDoc(d)
    PROVE  IsFile(OdsEncode(d).value)
<1>. DEFINE s == DocToSheet(d)
            f == OdsEncode(d).value
            content == f.content
            table == TableXml(s)
<1>1. f.format = "ods" /\ content.tables = <<table>>
  BY OdsEncoded
<1>2. IsSheet(s) /\ s.name \in Texts
  BY DEF IsSheetDoc, IsSheet
<1>3. table.name \in Texts /\ IsList(table.rows) /\ \A row \in ToSet(table.rows) : IsOdsRow(row)
  BY <1>2, TableWritten
<1>. HIDE DEF content, table, f
<1>4. IsList(content.tables) /\ ToSet(content.tables) \subseteq {table}
  <2>1. content.tables \in Seq({table})
    BY <1>1
  <2> QED
    BY <2>1, Listed
<1>5. IsSpreadsheet(content)
  BY <1>3, <1>4 DEF IsSpreadsheet
<1> QED
  BY <1>1, <1>5 DEF IsFile, f, content

OdsBackSheet(s) ==
    [name |-> InAttribute[s.name], cells |-> [c \in DOMAIN s.cells |-> OdsBack(s.cells[c])]]
OdsRefuses(s) ==
    InAttribute[s.name] = None \/ \E c \in DOMAIN s.cells : OdsBack(s.cells[c]) = None

LEMMA OdsTrip ==
    ASSUME NEW d, IsSheetDoc(d)
    PROVE  LET s == DocToSheet(d)
               answer == OdsDecode(OdsEncode(d).value)
           IN /\ answer.ok <=> ~OdsRefuses(s)
              /\ answer.ok => /\ IsSheet(OdsBackSheet(s))
                              /\ answer.value = SheetToDoc(ImportedId("ods", InAttribute[s.name]),
                                                           OdsBackSheet(s))
<1>. DEFINE s == DocToSheet(d)
            f == OdsEncode(d).value
            content == f.content
            table == TableXml(s)
            name == InAttribute[s.name]
            writes == OdsWrites(table.rows)
            sheet == SheetOf(name, writes)
            back == [c \in DOMAIN s.cells |-> OdsBack(s.cells[c])]
<1>1. f.format = "ods" /\ f.container = WriteOdf("spreadsheet") /\ content.tables = <<table>>
  BY OdsEncoded
<1>2. IsSheet(s) /\ s.name \in Texts
  BY DEF IsSheetDoc, IsSheet
<1>3. /\ table.name = s.name /\ IsList(writes)
      /\ ToSet(writes) = {[at |-> Display(c), value |-> OdsBack(s.cells[c])] : c \in DOMAIN s.cells}
  BY <1>2, TableWritten
<1>4. \A c \in DOMAIN s.cells : IsValue(s.cells[c]) /\ s.cells[c] # Blank
  BY <1>2 DEF IsSheet
<1>. HIDE DEF f, s, table
<1>5. content.tables # <<>> /\ content.tables[1] = table
  BY <1>1
<1>6. OdfReadable(f.container) /\ f.container.mimetype = "spreadsheet"
  BY <1>1, OdfWritten
<1>7. OdsDecode(f) = IF name = None \/ sheet = NoSheet THEN Refused
                     ELSE Answered(SheetToDoc(ImportedId("ods", name), sheet), OdsLosses(content))
  <2>1. InAttribute[content.tables[1].name] = name
    BY <1>3, <1>5
  <2>2. SheetOf(InAttribute[content.tables[1].name], OdsWrites(content.tables[1].rows)) = sheet
    BY <1>5, <2>1
  <2>. HIDE DEF content, name, sheet
  <2> QED
    BY <1>1, <1>5, <1>6, <2>1, <2>2 DEF OdsDecode, content
<1>. HIDE DEF writes
<1>8. CASE name = None
  <2>1. ~OdsDecode(f).ok
    BY <1>7, <1>8 DEF Refused
  <2>2. OdsRefuses(s)
    BY <1>8 DEF OdsRefuses
  <2> QED
    BY <2>1, <2>2 DEF f, s
<1>9. CASE name # None
  <2>1. name \in Texts
    BY <1>2, <1>9, Parsed
  <2>2. \A c \in DOMAIN s.cells : back[c] = None \/ (IsValue(back[c]) /\ back[c] # Blank)
    BY <1>4, OdsKept DEF Kept
  <2>3. ToSet(writes) = {[at |-> Display(c), value |-> back[c]] : c \in DOMAIN s.cells}
    <3>1. \A c \in DOMAIN s.cells : back[c] = OdsBack(s.cells[c])
      OBVIOUS
    <3>. HIDE DEF back
    <3> QED
      BY <1>3, <3>1
  <2>4. /\ (\E c \in DOMAIN s.cells : back[c] = None) => sheet = NoSheet
        /\ (\A c \in DOMAIN s.cells : back[c] # None) =>
              /\ sheet = [name |-> name, cells |-> [c \in DOMAIN s.cells |-> back[c]]]
              /\ IsSheet(sheet) /\ sheet # NoSheet
    <3>. HIDE DEF back, name
    <3> QED
      BY <1>2, <1>3, <2>1, <2>2, <2>3, TripOfCells
  <2>5. OdsRefuses(s) <=> \E c \in DOMAIN s.cells : back[c] = None
    BY <1>9 DEF OdsRefuses
  <2>6. [c \in DOMAIN s.cells |-> back[c]] = back /\ OdsBackSheet(s) = [name |-> name, cells |-> back]
    BY DEF OdsBackSheet
  <2>. HIDE DEF sheet, name, content, back
  <2>7. CASE OdsRefuses(s)
    <3>1. ~OdsDecode(f).ok
      BY <1>7, <2>4, <2>5, <2>7 DEF Refused
    <3> QED
      BY <2>7, <3>1 DEF f, s
  <2>8. CASE ~OdsRefuses(s)
    <3>1. sheet = OdsBackSheet(s) /\ IsSheet(sheet) /\ sheet # NoSheet
      BY <2>4, <2>5, <2>6, <2>8
    <3>2. OdsDecode(f).ok /\ OdsDecode(f).value = SheetToDoc(ImportedId("ods", name), sheet)
      BY <1>7, <1>9, <3>1 DEF Answered
    <3> QED
      BY <2>8, <3>1, <3>2 DEF f, s, name
  <2> QED
    BY <2>7, <2>8
<1> QED
  BY <1>8, <1>9

(***************************************************************************)
(* Ranges                                                                  *)
(***************************************************************************)
LEMMA Multiplied ==
    ASSUME NEW b \in Nat, NEW p \in Int, NEW q \in Int
    PROVE  /\ p < q => b * p + b <= b * q
           /\ b * p \in Int
<1>1. b * p \in Int /\ b * q \in Int
  OBVIOUS
<1>2. ASSUME p < q PROVE b * p + b <= b * q
  <2>. DEFINE k == q - p - 1
  <2>1. k \in Nat /\ q = p + 1 + k
    BY <1>2
  <2>. HIDE DEF k
  <2>2. b * q = b * p + b + b * k
    BY <2>1
  <2>3. b * k \in Nat
    BY <2>1
  <2>. DEFINE x == b * p
              y == b * q
              z == b * k
  <2>4. x \in Int /\ y \in Int /\ z \in Nat /\ y = x + b + z
    BY <1>1, <2>2, <2>3
  <2>. HIDE DEF x, y, z
  <2>5. x + b <= y
    BY <2>4
  <2> QED
    BY <2>5 DEF x, y
<1> QED
  BY <1>1, <1>2

LEMMA DividedWithRest ==
    ASSUME NEW b \in Nat \ {0}, NEW q \in Int, NEW r \in 0..(b - 1), NEW a \in Int, a = b * q + r
    PROVE  a % b = r /\ a \div b = q
<1>. DEFINE p == a \div b
            s == a % b
            x == b * p
            y == b * q
<1>1. p \in Int /\ s \in 0..(b - 1) /\ a = x + s /\ a = y + r
  BY Division
<1>2. /\ x \in Int /\ y \in Int /\ (p < q => x + b <= y) /\ (q < p => y + b <= x)
  <2>. HIDE DEF p
  <2> QED
    BY <1>1, Multiplied
<1>3. p = q
  <2>. HIDE DEF p, s, x, y
  <2> QED
    BY <1>1, <1>2
<1>4. x = y
  <2>. HIDE DEF p
  <2> QED
    BY <1>3
<1>5. s = r
  <2>. HIDE DEF p, s, x, y
  <2> QED
    BY <1>1, <1>2, <1>4
<1> QED
  BY <1>3, <1>5

\* Counting the cells of a range row by row.
LEMMA RangeCounted ==
    ASSUME NEW w \in Nat \ {0}, NEW h \in Nat \ {0}
    PROVE  /\ w * h \in Nat
           /\ \A k \in 1..(w * h) : Column(k, w) \in 0..(w - 1) /\ Row(k, w) \in 0..(h - 1)
           /\ \A x \in 0..(w - 1), y \in 0..(h - 1) :
                 \E k \in 1..(w * h) : Column(k, w) = x /\ Row(k, w) = y
<1>1. w * h \in Nat
  OBVIOUS
<1>2. ASSUME NEW k \in 1..(w * h)
      PROVE  Column(k, w) \in 0..(w - 1) /\ Row(k, w) \in 0..(h - 1)
  <2>. DEFINE a == k - 1
              q == a \div w
              r == a % w
              x == w * q
              y == w * h
  <2>1. a \in Nat /\ a < y
    BY <1>1, <1>2
  <2>2. q \in Int /\ r \in 0..(w - 1) /\ a = x + r
    <3>. HIDE DEF a
    <3> QED
      BY <2>1, Division
  <2>3. /\ x \in Int /\ y \in Int /\ (h < q => y + w <= x) /\ (q < 0 => x + w <= w * 0) /\ w * 0 = 0
    <3>. HIDE DEF q
    <3> QED
      BY <2>2, Multiplied
  <2>4. h = q => x = y
    OBVIOUS
  <2>5. q \in 0..(h - 1)
    <3>. HIDE DEF q, r, a, x, y
    <3> QED
      BY <2>1, <2>2, <2>3, <2>4
  <2> QED
    BY <2>2, <2>5 DEF Column, Row
<1>3. ASSUME NEW x \in 0..(w - 1), NEW y \in 0..(h - 1)
      PROVE  \E k \in 1..(w * h) : Column(k, w) = x /\ Row(k, w) = y
  <2>. DEFINE p == w * y
              n == w * h
              k == p + x + 1
  <2>1. p \in Int /\ n \in Int /\ p + w <= n /\ w * 0 + 0 = 0
    BY Multiplied
  <2>2. p >= 0
    <3>1. y >= 0 /\ w >= 0 /\ y \in Int /\ w \in Int
      OBVIOUS
    <3> QED
      BY <3>1
  <2>3. k \in 1..n /\ k - 1 = p + x /\ k - 1 \in Int
    <3>. HIDE DEF p, n
    <3> QED
      BY <2>1, <2>2
  <2>4. (k - 1) % w = x /\ (k - 1) \div w = y
    <3>1. y \in Int
      OBVIOUS
    <3>. HIDE DEF k
    <3> QED
      BY <2>3, <3>1, DividedWithRest
  <2> QED
    BY <2>3, <2>4 DEF Column, Row
<1> QED
  BY <1>1, <1>2, <1>3

LEMMA NotWrapped ==
    ASSUME NEW n \in 0..MaxIndex
    PROVE  Wrapped(n) = n
<1>. DEFINE b == MaxIndex + 1
<1>1. b \in Nat \ {0} /\ 0 \in Int /\ n \in Int /\ n \in 0..(b - 1)
  BY MaxIndexAssumption
<1>2. n = b * 0 + n
  BY <1>1
<1>. HIDE DEF b
<1>3. n % b = n
  BY <1>1, <1>2, DividedWithRest
<1> QED
  BY <1>3 DEF Wrapped, b

(***************************************************************************)
(* Values in ranges                                                        *)
(***************************************************************************)
LEMMA ScalarRead ==
    ASSUME NEW s, s.text \in Texts, s.equals \in Nat, s.truth \in BOOLEAN
    PROVE  ScalarValue(s) = None \/ IsValue(ScalarValue(s))
<1>. DEFINE ratio == RationalFromStr(Spelling[s.text])
            w == ScalarValue(s)
<1>1. CASE s.json = "null"
  BY <1>1, BlankIsValue DEF ScalarValue
<1>2. CASE s.json = "bool"
  <2>1. w = Bool(s.truth)
    BY <1>2 DEF ScalarValue
  <2>2. IsValue(Bool(s.truth))
    BY Zenon DEF IsValue
  <2> QED
    BY <2>1, <2>2
<1>3. CASE s.json = "number"
  <2>1. w = NumberOf(s.text)
    BY <1>3 DEF ScalarValue
  <2> QED
    BY <2>1, NumbersAreValues
<1>4. CASE s.json = "string"
  <2>1. w \in {Formula(s.text, s.equals), Blank, Text(s.text)} \/ (ratio # None /\ w = Number(ratio))
    BY <1>4 DEF ScalarValue
  <2> QED
    BY <2>1, FormulasAreValues, BlankIsValue, TextsAreValues, NumbersAreValues
<1>5. CASE s.json \notin {"null", "bool", "number", "string"}
  BY <1>5 DEF ScalarValue
<1> QED
  BY <1>1, <1>2, <1>3, <1>4, <1>5

RangeBack(v) == ScalarValue(BridgeValue(v))

LEMMA RangeOfString ==
    ASSUME NEW text \in Texts, NEW equals \in Nat
    PROVE  ScalarValue(Scalar("string", text, equals, FALSE)) =
              IF equals > 0 THEN Formula(text, equals)
              ELSE IF text = Empty THEN Blank
              ELSE IF RationalFromStr(Spelling[text]) = None THEN Text(text)
              ELSE Number(RationalFromStr(Spelling[text]))
<1>. SUFFICES ASSUME NEW s, s = Scalar("string", text, equals, FALSE)
              PROVE  ScalarValue(s) =
                        IF equals > 0 THEN Formula(text, equals)
                        ELSE IF text = Empty THEN Blank
                        ELSE IF RationalFromStr(Spelling[text]) = None THEN Text(text)
                        ELSE Number(RationalFromStr(Spelling[text]))
  OBVIOUS
<1>1. s.json = "string" /\ s.text = text /\ s.equals = equals
  BY DEF Scalar
<1>2. CASE equals > 0
  <2>1. ScalarValue(s) = Formula(text, equals)
    BY <1>1, <1>2 DEF ScalarValue
  <2> QED
    BY <1>2, <2>1, Zenon
<1>3. CASE ~(equals > 0)
  <2>1. equals = 0
    BY <1>3
  <2>2. CASE text = Empty
    <3>1. s.text = Empty /\ ~(s.equals > 0)
      BY <1>1, <1>3, <2>2
    <3>2. ScalarValue(s) = Blank
      BY <1>1, <3>1, Zenon DEF ScalarValue
    <3> QED
      BY <1>3, <2>2, <3>2, Zenon
  <2>3. CASE text # Empty
    BY <1>1, <2>1, <2>3 DEF ScalarValue
  <2> QED
    BY <1>3, <2>2, <2>3
<1> QED
  BY <1>2, <1>3

LEMMA RangeOfBlank ==
    BridgeValue(Blank) = Scalar("null", Empty, 0, FALSE) /\ RangeBack(Blank) = Blank
<1>1. BridgeValue(Blank) = Scalar("null", Empty, 0, FALSE)
  BY BlankReadsBack DEF BridgeValue
<1> QED
  BY <1>1 DEF RangeBack, Scalar, ScalarValue

LEMMA RangeOfNumber ==
    ASSUME NEW v, IsValue(v), v.kind = "number"
    PROVE  /\ Canonical(v.ratio) \in Texts
           /\ BridgeValue(v) = Scalar("string", Canonical(v.ratio), 0, FALSE)
           /\ RangeBack(v) = v
<1>. DEFINE t == Canonical(v.ratio)
<1>1. t \in Texts /\ RationalFromStr(Spelling[t]) = v.ratio /\ v.ratio # None /\ v = Number(v.ratio)
  BY ValueKinds, BlankReadsBack
<1>2. BridgeValue(v) = Scalar("string", t, 0, FALSE)
  BY DEF BridgeValue
<1>. HIDE DEF t
<1>3. t # Empty
  <2>1. Spelling[Empty].form = "words"
    BY TextAssumption
  <2>2. RationalFromStr(Spelling[Empty]) = None
    BY <2>1 DEF RationalFromStr
  <2> QED
    BY <1>1, <2>2
<1>4. RangeBack(v) = v
  <2>1. t \in Texts /\ 0 \in Nat /\ ~(0 > 0)
    BY <1>1
  <2>2. ScalarValue(Scalar("string", t, 0, FALSE)) = Number(v.ratio)
    BY <1>1, <1>3, <2>1, RangeOfString
  <2> QED
    BY <1>1, <1>2, <2>2 DEF RangeBack
<1> QED
  BY <1>1, <1>2, <1>4 DEF t

\* What of a value comes back out of a range.
LEMMA RangeKept ==
    ASSUME NEW v, IsValue(v)
    PROVE  /\ BridgeValue(v).text \in Texts /\ BridgeValue(v).equals \in Nat
           /\ BridgeValue(v).truth \in BOOLEAN
           /\ IsValue(RangeBack(v)) /\ RangeBack(RangeBack(v)) = RangeBack(v)
           /\ SameInRange(v, RangeBack(v))
<1>1. CASE v = Blank
  <2>1. v.kind = "blank" /\ RangeBack(v) = v
    BY <1>1, BlankReadsBack, RangeOfBlank
  <2>2. BridgeValue(v).text = Empty /\ BridgeValue(v).equals = 0 /\ BridgeValue(v).truth \in BOOLEAN
    BY <1>1, RangeOfBlank DEF Scalar
  <2> QED
    BY <2>1, <2>2, EmptyParsed DEF SameInRange
<1>2. CASE v # Blank /\ v.kind = "bool"
  <2>1. PICK b \in BOOLEAN : v = Bool(b)
    BY <1>2, ValueKinds
  <2>2. (v.ratio = <<1, 1>>) = b
    BY <2>1, BoolReadsBack
  <2>3. BridgeValue(v) = Scalar("bool", Empty, 0, b)
    BY <1>2, <2>2 DEF BridgeValue
  <2>4. RangeBack(v) = Bool(b)
    BY <2>3 DEF RangeBack, Scalar, ScalarValue
  <2>5. BridgeValue(v).text = Empty /\ BridgeValue(v).equals = 0 /\ BridgeValue(v).truth \in BOOLEAN
    BY <2>3 DEF Scalar
  <2> QED
    BY <1>2, <2>1, <2>4, <2>5, EmptyParsed DEF SameInRange
<1>3. CASE v # Blank /\ v.kind = "number"
  <2>. DEFINE t == Canonical(v.ratio)
  <2>1. t \in Texts /\ BridgeValue(v) = Scalar("string", t, 0, FALSE) /\ RangeBack(v) = v
    BY <1>3, RangeOfNumber
  <2>2. BridgeValue(v).text \in Texts /\ BridgeValue(v).equals \in Nat /\ BridgeValue(v).truth \in BOOLEAN
    <3>1. 0 \in Nat /\ FALSE \in BOOLEAN
      OBVIOUS
    <3> QED
      BY <2>1, <3>1 DEF Scalar
  <2>3. IsValue(RangeBack(v)) /\ RangeBack(RangeBack(v)) = RangeBack(v)
    BY <2>1
  <2>4. v.kind = "number"
    BY <1>3
  <2> QED
    BY <2>1, <2>2, <2>3, <2>4, Zenon DEF SameInRange
<1>4. CASE v # Blank /\ v.kind \in {"text", "formula"}
  <2>. DEFINE t == v.text
              e == v.equals
              ratio == RationalFromStr(Spelling[t])
  <2>1. t \in Texts /\ e \in Nat
    BY <1>4, ValueKinds, TextReadsBack DEF Text, CellValue
  <2>2. BridgeValue(v) = Scalar("string", t, e, FALSE)
    BY <1>4 DEF BridgeValue
  <2>3. BridgeValue(v).text = t /\ BridgeValue(v).equals = e /\ BridgeValue(v).truth \in BOOLEAN
    BY <2>2 DEF Scalar
  <2>4. RangeBack(v) = IF e > 0 THEN Formula(t, e) ELSE IF t = Empty THEN Blank
                       ELSE IF ratio = None THEN Text(t) ELSE Number(ratio)
    BY <2>1, <2>2, RangeOfString DEF RangeBack
  <2>5. CASE e > 0
    <3>1. v.kind = "formula" /\ v = Formula(t, e)
      BY <1>4, <2>5, ValueKinds DEF Text, CellValue
    <3> QED
      BY <1>4, <2>1, <2>3, <2>4, <2>5, <3>1 DEF SameInRange
  <2>6. CASE e = 0 /\ t = Empty
    <3>1. RangeBack(v) = Blank
      BY <2>4, <2>6
    <3> QED
      BY <1>1, <1>4, <2>1, <2>3, <2>6, <3>1, BlankIsValue, BlankReadsBack, RangeOfBlank DEF SameInRange
  <2>7. CASE e = 0 /\ t # Empty /\ ratio = None
    <3>1. RangeBack(v) = Text(t)
      BY <2>4, <2>7
    <3>2. Text(t).kind = "text" /\ Text(t).text = t /\ Text(t).equals = 0 /\ IsValue(Text(t))
      BY <2>1, TextsAreValues DEF Text, CellValue
    <3>3. BridgeValue(Text(t)) = Scalar("string", t, 0, FALSE)
      BY <3>2 DEF BridgeValue
    <3>4. RangeBack(Text(t)) = Text(t)
      <4>1. t \in Texts /\ 0 \in Nat /\ ~(0 > 0)
        BY <2>1
      <4>2. ScalarValue(Scalar("string", t, 0, FALSE)) = Text(t)
        BY <2>7, <4>1, RangeOfString
      <4> QED
        BY <3>3, <4>2 DEF RangeBack
    <3> QED
      BY <1>4, <2>1, <2>3, <2>7, <3>1, <3>2, <3>4 DEF SameInRange
  <2>8. CASE e = 0 /\ t # Empty /\ ratio # None
    <3>1. RangeBack(v) = Number(ratio)
      BY <2>4, <2>8
    <3>2. IsValue(Number(ratio)) /\ Number(ratio).kind = "number" /\ Number(ratio).ratio = ratio
      BY <2>1, <2>8, NumbersAreValues DEF Number, CellValue
    <3>3. RangeBack(Number(ratio)) = Number(ratio)
      BY <3>2, RangeOfNumber
    <3> QED
      BY <1>4, <2>1, <2>3, <2>8, <3>1, <3>2, <3>3 DEF SameInRange
  <2> QED
    BY <2>1, <2>5, <2>6, <2>7, <2>8
<1> QED
  BY <1>1, <1>2, <1>3, <1>4, ValueKinds

(***************************************************************************)
(* Sheets through ranges                                                   *)
(***************************************************************************)
RangeWidth(r) == RangeBounds(r)[2].column - RangeBounds(r)[1].column + 1
RangeHeight(r) == RangeBounds(r)[2].row - RangeBounds(r)[1].row + 1
RangeAt(r, k) == Cell(RangeBounds(r)[1].column + Column(k, RangeWidth(r)),
                      RangeBounds(r)[1].row + Row(k, RangeWidth(r)))
RangeCells(r) == {RangeAt(r, k) : k \in 1..(RangeWidth(r) * RangeHeight(r))}
IsRange(r) ==
    /\ RangeBounds(r)[1] \in Cells /\ RangeBounds(r)[2] \in Cells
    /\ RangeBounds(r)[1].column <= RangeBounds(r)[2].column
    /\ RangeBounds(r)[1].row <= RangeBounds(r)[2].row

LEMMA RangeAddressed ==
    ASSUME NEW r, IsRange(r)
    PROVE  LET first == RangeBounds(r)[1]
               w == RangeWidth(r)
               n == w * RangeHeight(r)
           IN /\ n \in Nat
              /\ \A k \in 1..n :
                    /\ RangeAt(r, k) \in Cells
                    /\ ParseCell(Display(Cell(Wrapped(first.column + Column(k, w)),
                                              Wrapped(first.row + Row(k, w))))) = RangeAt(r, k)
              /\ RangeCells(r) \subseteq Cells
              /\ RangeCells(r) = {Cell(x, y) : x \in first.column..RangeBounds(r)[2].column,
                                               y \in first.row..RangeBounds(r)[2].row}
<1>. DEFINE first == RangeBounds(r)[1]
            last == RangeBounds(r)[2]
            w == RangeWidth(r)
            h == RangeHeight(r)
<1>1. /\ first.column \in 1..MaxIndex /\ first.row \in 1..MaxIndex
      /\ last.column \in 1..MaxIndex /\ last.row \in 1..MaxIndex
      /\ first.column <= last.column /\ first.row <= last.row
  BY DEF IsRange, Cells
<1>2. /\ w \in Nat \ {0} /\ h \in Nat \ {0} /\ MaxIndex \in Nat
      /\ first.column + (w - 1) = last.column /\ first.row + (h - 1) = last.row
  BY <1>1, MaxIndexAssumption DEF RangeWidth, RangeHeight
<1>3. /\ w * h \in Nat
      /\ \A k \in 1..(w * h) : Column(k, w) \in 0..(w - 1) /\ Row(k, w) \in 0..(h - 1)
      /\ \A x \in 0..(w - 1), y \in 0..(h - 1) :
            \E k \in 1..(w * h) : Column(k, w) = x /\ Row(k, w) = y
  <2>. HIDE DEF w, h
  <2> QED
    BY <1>2, RangeCounted
<1>4. \A k : RangeAt(r, k) = Cell(first.column + Column(k, w), first.row + Row(k, w))
  BY DEF RangeAt
<1>5. RangeCells(r) = {RangeAt(r, k) : k \in 1..(w * h)}
  BY DEF RangeCells
<1>. HIDE DEF first, last, w, h
<1>6. ASSUME NEW k \in 1..(w * h)
      PROVE  /\ RangeAt(r, k) \in Cells
             /\ ParseCell(Display(Cell(Wrapped(first.column + Column(k, w)),
                                       Wrapped(first.row + Row(k, w))))) = RangeAt(r, k)
  <2>. DEFINE x == first.column + Column(k, w)
              y == first.row + Row(k, w)
  <2>1. x \in 1..MaxIndex /\ y \in 1..MaxIndex
    <3>1. Column(k, w) \in 0..(w - 1) /\ Row(k, w) \in 0..(h - 1)
      BY <1>3
    <3> QED
      BY <1>1, <1>2, <3>1
  <2>. HIDE DEF x, y
  <2>2. Wrapped(x) = x /\ Wrapped(y) = y
    BY <1>2, <2>1, NotWrapped
  <2>3. Cell(x, y) \in Cells
    BY <2>1 DEF Cell, Cells
  <2>4. ParseCell(Display(Cell(x, y))) = Cell(x, y)
    BY <2>3, CellsReadBack
  <2> QED
    BY <1>4, <2>2, <2>3, <2>4 DEF x, y
<1>7. ASSUME NEW x \in first.column..last.column, NEW y \in first.row..last.row
      PROVE  Cell(x, y) \in RangeCells(r)
  <2>1. x - first.column \in 0..(w - 1) /\ y - first.row \in 0..(h - 1)
    BY <1>1, <1>2
  <2>2. PICK k \in 1..(w * h) : Column(k, w) = x - first.column /\ Row(k, w) = y - first.row
    BY <1>3, <2>1
  <2>3. first.column + Column(k, w) = x /\ first.row + Row(k, w) = y
    BY <1>1, <2>2
  <2> QED
    BY <1>4, <1>5, <2>3
<1>8. RangeCells(r) \subseteq Cells
  BY <1>5, <1>6
<1>9. ASSUME NEW k \in 1..(w * h)
      PROVE  \E x \in first.column..last.column, y \in first.row..last.row : RangeAt(r, k) = Cell(x, y)
  <2>1. /\ first.column + Column(k, w) \in first.column..last.column
        /\ first.row + Row(k, w) \in first.row..last.row
    <3>1. Column(k, w) \in 0..(w - 1) /\ Row(k, w) \in 0..(h - 1)
      BY <1>3
    <3> QED
      BY <1>1, <1>2, <3>1
  <2> QED
    BY <1>4, <2>1
<1>10. RangeCells(r) = {Cell(x, y) : x \in first.column..last.column, y \in first.row..last.row}
  BY <1>5, <1>7, <1>9
<1> QED
  BY <1>3, <1>6, <1>8, <1>10 DEF first, last, w, h

LEMMA RangeEncoded ==
    ASSUME NEW d, NEW target, RangeEncode(d, target).ok
    PROVE  LET s == DocToSheet(d)
               r == target.range
               f == RangeEncode(d, target).value
           IN /\ IsRange(r) /\ s # NoSheet
              /\ f.format = "range" /\ f.target = target
              /\ f.content.address = r /\ f.content.width = RangeWidth(r)
              /\ f.content.values = [k \in 1..(RangeWidth(r) * RangeHeight(r)) |->
                                        BridgeValue(CellOf(s, RangeAt(r, k)))]
<1>. DEFINE s == DocToSheet(d)
            r == target.range
            first == RangeBounds(r)[1]
            last == RangeBounds(r)[2]
            plan == PlanWriteRange(d, target)
<1>1. plan.ok /\ RangeEncode(d, target).value = [format |-> "range", target |-> target,
                                                 content |-> plan.value.op]
  BY DEF RangeEncode, Refused, Answered
<1>2. /\ s # NoSheet /\ None \notin {first, last}
      /\ ~(last.column < first.column) /\ ~(last.row < first.row)
  BY <1>1 DEF PlanWriteRange, Refused
<1>3. plan.value.op = [address |-> r, width |-> RangeWidth(r),
                       values |-> [k \in 1..(RangeWidth(r) * RangeHeight(r)) |->
                                      BridgeValue(CellOf(s, RangeAt(r, k)))]]
  BY <1>2 DEF PlanWriteRange, Answered, RangeWidth, RangeHeight, RangeAt
<1>4. first \in Cells /\ last \in Cells
  BY <1>2, ParsedCell DEF RangeBounds
<1>5. IsRange(r)
  <2>1. /\ first.column \in Int /\ first.row \in Int
        /\ last.column \in Int /\ last.row \in Int
    BY <1>4, MaxIndexAssumption DEF Cells
  <2> QED
    BY <1>2, <1>4, <2>1 DEF IsRange
<1>. DEFINE values == [k \in 1..(RangeWidth(r) * RangeHeight(r)) |-> BridgeValue(CellOf(s, RangeAt(r, k)))]
            f == RangeEncode(d, target).value
<1>. HIDE DEF plan, values
<1>6. /\ f.format = "range" /\ f.target = target
      /\ f.content.address = r /\ f.content.width = RangeWidth(r) /\ f.content.values = values
  <2>1. plan.value.op = [address |-> r, width |-> RangeWidth(r), values |-> values]
    BY <1>3 DEF values
  <2>. HIDE DEF r
  <2> QED
    BY <1>1, <2>1
<1> QED
  BY <1>2, <1>5, <1>6, Zenon DEF values

\* What a range is read as, cell by cell.
RangeWrites(target, answer) ==
    LET start == RangeBounds(IF answer.address = None THEN target.range ELSE answer.address)[1]
    IN [k \in 1..Len(answer.values) |->
           [at |-> Display(Cell(Wrapped(start.column + Column(k, answer.width)),
                                Wrapped(start.row + Row(k, answer.width)))),
            value |-> ScalarValue(answer.values[k])]]

LEMMA RangeRead ==
    ASSUME NEW f, RangeDecode(f).ok
    PROVE  LET sheet == SheetOf(f.target.worksheet, RangeWrites(f.target, f.content))
           IN /\ sheet # NoSheet
              /\ RangeDecode(f).value = SheetToDoc(ImportedId("range", sheet.name), sheet)
<1>. DEFINE sheet == SheetOf(f.target.worksheet, RangeWrites(f.target, f.content))
<1>1. ReadRange(f.target, f.content) \in {NoSheet, sheet}
  BY DEF ReadRange, RangeWrites
<1>. HIDE DEF sheet
<1> QED
  BY <1>1 DEF RangeDecode, Refused, Answered, sheet

LEMMA RangeReadTyped ==
    ASSUME NEW f, f.target.worksheet \in Texts, IsScalars(f.content.values), RangeDecode(f).ok
    PROVE  /\ IsSheetDoc(RangeDecode(f).value)
           /\ DocToSheet(RangeDecode(f).value) =
                 SheetOf(f.target.worksheet, RangeWrites(f.target, f.content))
<1>. DEFINE values == f.content.values
            writes == RangeWrites(f.target, f.content)
            sheet == SheetOf(f.target.worksheet, writes)
<1>1. /\ Len(values) \in Nat
      /\ \A i \in 1..Len(values) : values[i] \in ToSet(values)
  BY ListIs DEF IsScalars
<1>2. Len(writes) \in Nat /\ Len(writes) = Len(values)
      /\ \A i \in 1..Len(values) : writes[i].value = ScalarValue(values[i])
  BY <1>1 DEF RangeWrites
<1>3. \A i \in 1..Len(writes) : writes[i].value = None \/ IsValue(writes[i].value)
  <2> SUFFICES ASSUME NEW i \in 1..Len(values)
               PROVE  ScalarValue(values[i]) = None \/ IsValue(ScalarValue(values[i]))
    BY <1>2
  <2>1. /\ values[i].text \in Texts /\ values[i].equals \in Nat
        /\ values[i].truth \in BOOLEAN
    BY <1>1 DEF IsScalars
  <2> QED
    BY <2>1, ScalarRead
<1>. HIDE DEF writes
<1>4. sheet = NoSheet \/ IsSheet(sheet)
  BY <1>2, <1>3, SheetOfTyped
<1>5. sheet # NoSheet /\ RangeDecode(f).value = SheetToDoc(ImportedId("range", sheet.name), sheet)
  BY RangeRead DEF writes
<1>. HIDE DEF sheet
<1>6. IsSheetDoc(RangeDecode(f).value) /\ DocToSheet(RangeDecode(f).value) = sheet
  BY <1>4, <1>5, SheetDocs
<1> QED
  BY <1>6 DEF sheet, writes

\* What is added to one number to give one sum is one number.
LEMMA SumCancels ==
    ASSUME NEW a \in Int, NEW b \in Int, NEW c \in Int, a + b = a + c
    PROVE  b = c
OBVIOUS

\* Whoever counts that far in rows of one width comes by every column and every
\* row before, and never by a place twice.
LEMMA CountedThrough ==
    ASSUME NEW n \in Nat, NEW w \in Nat \ {0}, NEW k \in 1..n
    PROVE  /\ Column(k, w) \in Nat /\ Row(k, w) \in Nat
           /\ \A j \in 0..Column(k, w) : \E i \in 1..n : Column(i, w) = j
           /\ \A j \in 0..Row(k, w) : \E i \in 1..n : Row(i, w) = j
           /\ \A i \in 1..n : Column(i, w) = Column(k, w) /\ Row(i, w) = Row(k, w) => i = k
<1>. DEFINE q == (k - 1) \div w
            r == (k - 1) % w
            x == w * q
<1>1. k - 1 \in Nat /\ q \in Int /\ r \in 0..(w - 1) /\ k - 1 = x + r
  <2>1. k - 1 \in Nat /\ k - 1 \in Int
    OBVIOUS
  <2> QED
    BY <2>1, Division
<1>2. x \in Int /\ (q < 0 => x + w <= w * 0) /\ w * 0 = 0
  <2>. HIDE DEF q
  <2> QED
    BY <1>1, Multiplied
<1>3. Column(k, w) = r /\ Row(k, w) = q
  BY DEF Column, Row
<1>4. q \in Nat /\ r \in Nat /\ r < w
  <2>. HIDE DEF q, r, x
  <2> QED
    BY <1>1, <1>2
<1>5. ASSUME NEW j \in 0..r PROVE \E i \in 1..n : Column(i, w) = j
  <2>. DEFINE i == x + j + 1
  <2>1. i \in 1..n /\ i - 1 = x + j /\ i - 1 \in Int /\ j \in 0..(w - 1)
    <3>1. x >= 0
      <4>1. q \in Nat /\ w \in Nat
        BY <1>4
      <4>. HIDE DEF q
      <4> QED
        BY <4>1
    <3>. HIDE DEF q, r, x
    <3> QED
      BY <1>1, <1>2, <1>4, <3>1
  <2>. HIDE DEF i, q, r
  <2>2. (i - 1) % w = j
    BY <1>1, <2>1, DividedWithRest
  <2> QED
    BY <2>1, <2>2 DEF Column
<1>6. ASSUME NEW j \in 0..q PROVE \E i \in 1..n : Row(i, w) = j
  <2>. DEFINE y == w * j
              i == y + 1
  <2>1. j \in Int /\ j >= 0 /\ j <= q
    <3>. HIDE DEF q
    <3> QED
      BY <1>4
  <2>2. y \in Int /\ (j < q => y + w <= x) /\ (j = q => y = x) /\ y >= 0
    <3>1. y \in Int /\ (j < q => y + w <= x)
      <4>. HIDE DEF q
      <4> QED
        BY <1>4, <2>1, Multiplied
    <3>2. y >= 0
      <4>1. j \in Nat /\ w \in Nat
        BY <2>1
      <4> QED
        BY <4>1
    <3> QED
      BY <3>1, <3>2
  <2>3. i \in 1..n /\ i - 1 = y + 0 /\ i - 1 \in Int /\ 0 \in 0..(w - 1)
    <3>. HIDE DEF q, r, x, y
    <3> QED
      BY <1>1, <1>2, <1>4, <2>1, <2>2
  <2>. HIDE DEF i
  <2>4. (i - 1) \div w = j
    BY <2>1, <2>3, DividedWithRest
  <2> QED
    BY <2>3, <2>4 DEF Row
<1>7. ASSUME NEW i \in 1..n, Column(i, w) = r, Row(i, w) = q PROVE i = k
  <2>1. i - 1 \in Int /\ i - 1 = w * ((i - 1) \div w) + ((i - 1) % w)
    <3>1. i - 1 \in Int
      OBVIOUS
    <3> QED
      BY <3>1, Division
  <2>2. (i - 1) % w = r /\ (i - 1) \div w = q
    BY <1>7 DEF Column, Row
  <2>. HIDE DEF q, r
  <2>3. i - 1 = x + r
    BY <2>1, <2>2
  <2>. HIDE DEF x
  <2> QED
    BY <1>1, <2>1, <2>3
<1> QED
  BY <1>3, <1>4, <1>5, <1>6, <1>7

\* Before the first column, and above the first row, there is no cell.
LEMMA NoCellAtNull ==
    /\ \A row : ParseCell(Display(Cell(0, row))) = None
    /\ \A column : ParseCell(Display(Cell(column, 0))) = None
<1>1. Letters[0] = <<>>
  <2>1. 0 \in 0..MaxIndex
    BY MaxIndexAssumption
  <2> QED
    BY <2>1, LettersOf DEF LettersTurn
<1>2. \A row : Display(Cell(0, row)).letters = <<>>
  BY <1>1 DEF Display, Cell
<1>3. \A column : Display(Cell(column, 0)).row = 0
  BY DEF Display, Cell
<1> QED
  BY <1>2, <1>3, ColumnOfNone DEF ParseCell

\* A sum that is one too large for an index is null; so no cell has it, and a
\* larger one is not read without it.
LEMMA RangeInBounds ==
    ASSUME NEW start \in Cells, NEW n \in Nat, NEW w \in Nat \ {0},
           \A i \in 1..n : ParseCell(Display(Cell(Wrapped(start.column + Column(i, w)),
                                                  Wrapped(start.row + Row(i, w))))) # None,
           NEW k \in 1..n
    PROVE  LET c == Cell(start.column + Column(k, w), start.row + Row(k, w))
           IN /\ c \in Cells
              /\ ParseCell(Display(Cell(Wrapped(start.column + Column(k, w)),
                                        Wrapped(start.row + Row(k, w))))) = c
<1>. DEFINE b == MaxIndex + 1
            x == start.column + Column(k, w)
            y == start.row + Row(k, w)
<1>1. /\ start.column \in 1..MaxIndex /\ start.row \in 1..MaxIndex /\ MaxIndex \in Nat
      /\ b \in Nat \ {0} /\ b \in Int /\ 1 \in Int /\ b = b * 1 + 0 /\ 0 \in 0..(b - 1)
  BY MaxIndexAssumption DEF Cells
<1>2. Column(k, w) \in Nat /\ Row(k, w) \in Nat
  BY CountedThrough
<1>3. Wrapped(b) = 0
  <2>1. b % b = 0
    <3>. HIDE DEF b
    <3> QED
      BY <1>1, DividedWithRest
  <2> QED
    BY <2>1 DEF Wrapped
<1>4. x \in 1..MaxIndex
  <2> SUFFICES ASSUME x >= b PROVE FALSE
    BY <1>1, <1>2
  <2>1. b - start.column \in 0..Column(k, w)
    BY <1>1, <1>2
  <2>2. PICK i \in 1..n : Column(i, w) = b - start.column
    BY <2>1, CountedThrough
  <2>3. start.column + Column(i, w) = b
    BY <1>1, <2>2
  <2>. HIDE DEF b
  <2> QED
    BY <1>3, <2>3, NoCellAtNull
<1>5. y \in 1..MaxIndex
  <2> SUFFICES ASSUME y >= b PROVE FALSE
    BY <1>1, <1>2
  <2>1. b - start.row \in 0..Row(k, w)
    BY <1>1, <1>2
  <2>2. PICK i \in 1..n : Row(i, w) = b - start.row
    BY <2>1, CountedThrough
  <2>3. start.row + Row(i, w) = b
    BY <1>1, <2>2
  <2>. HIDE DEF b
  <2> QED
    BY <1>3, <2>3, NoCellAtNull
<1>6. Wrapped(x) = x /\ Wrapped(y) = y
  <2>1. x \in 0..MaxIndex /\ y \in 0..MaxIndex
    BY <1>1, <1>4, <1>5
  <2>. HIDE DEF x, y
  <2> QED
    BY <2>1, NotWrapped
<1>7. Cell(x, y) \in Cells
  BY <1>4, <1>5 DEF Cell, Cells
<1>. HIDE DEF x, y
<1>8. ParseCell(Display(Cell(x, y))) = Cell(x, y)
  BY <1>7, CellsReadBack
<1> QED
  BY <1>6, <1>7, <1>8 DEF x, y

\* The answer for a range that is read: every value stands at its offset.
RangeNamed(f, d) ==
    LET start == RangeBounds(IF f.content.address = None THEN f.target.range ELSE f.content.address)[1]
    IN \A k \in 1..Len(f.content.values) :
          ScalarValue(f.content.values[k]) =
             CellOf(DocToSheet(d), Cell(start.column + Column(k, f.content.width),
                                        start.row + Row(k, f.content.width)))

LEMMA RangeLossesNamed ==
    ASSUME NEW f, f.target.worksheet \in Texts, IsScalars(f.content.values),
           f.content.width \in Nat \ {0}, RangeDecode(f).ok
    PROVE  RangeNamed(f, RangeDecode(f).value)
<1>. DEFINE values == f.content.values
            n == Len(values)
            w == f.content.width
            address == IF f.content.address = None THEN f.target.range ELSE f.content.address
            start == RangeBounds(address)[1]
            writes == RangeWrites(f.target, f.content)
            name == f.target.worksheet
            sheet == SheetOf(name, writes)
            cell == [k \in 1..n |-> Cell(start.column + Column(k, w), start.row + Row(k, w))]
            val == [c \in Cells |-> writes[CHOOSE k \in 1..n : cell[k] = c].value]
<1>1. n \in Nat
  BY ListIs DEF IsScalars
<1>2. sheet # NoSheet /\ DocToSheet(RangeDecode(f).value) = sheet
  BY RangeRead, RangeReadTyped
<1>3. start \in Cells
  <2>1. ReadRange(f.target, f.content) # NoSheet
    BY DEF RangeDecode, Refused
  <2>2. RangeBounds(address)[1] # None
    BY <2>1 DEF ReadRange
  <2> QED
    BY <2>2, ParsedCell DEF RangeBounds
<1>. HIDE DEF start, sheet, n
<1>4. writes = [k \in 1..n |->
                  [at |-> Display(Cell(Wrapped(start.column + Column(k, w)),
                                       Wrapped(start.row + Row(k, w)))),
                   value |-> ScalarValue(values[k])]]
  BY DEF RangeWrites, start, n
<1>5. Len(writes) = n /\ Len(writes) \in Nat
  BY <1>1, <1>4
<1>6. \A k \in 1..n : /\ ParseCell(writes[k].at) # None /\ writes[k].value # None
                      /\ writes[k].value = ScalarValue(values[k])
                      /\ writes[k].at = Display(Cell(Wrapped(start.column + Column(k, w)),
                                                     Wrapped(start.row + Row(k, w))))
  <2>. HIDE DEF writes
  <2>1. \A k \in 1..n : ParseCell(writes[k].at) # None /\ writes[k].value # None
    BY <1>2, <1>5, SheetOfUnfolds DEF sheet
  <2> QED
    BY <1>4, <2>1
<1>7. \A k \in 1..n : cell[k] \in Cells /\ ParseCell(writes[k].at) = cell[k]
  <2> SUFFICES ASSUME NEW k \in 1..n PROVE cell[k] \in Cells /\ ParseCell(writes[k].at) = cell[k]
    OBVIOUS
  <2>1. \A i \in 1..n : ParseCell(Display(Cell(Wrapped(start.column + Column(i, w)),
                                                Wrapped(start.row + Row(i, w))))) # None
    BY <1>6
  <2>2. w \in Nat \ {0}
    OBVIOUS
  <2>. HIDE DEF w, writes
  <2>3. LET c == Cell(start.column + Column(k, w), start.row + Row(k, w))
        IN c \in Cells /\ ParseCell(Display(Cell(Wrapped(start.column + Column(k, w)),
                                                 Wrapped(start.row + Row(k, w))))) = c
    BY <1>1, <1>3, <2>1, <2>2, RangeInBounds
  <2> QED
    BY <1>6, <2>3
<1>8. \A i, k \in 1..n : cell[i] = cell[k] => i = k
  <2> SUFFICES ASSUME NEW i \in 1..n, NEW k \in 1..n, cell[i] = cell[k] PROVE i = k
    OBVIOUS
  <2>1. w \in Nat \ {0} /\ start.column \in Int /\ start.row \in Int
    BY <1>3, MaxIndexAssumption DEF Cells
  <2>. HIDE DEF w
  <2>2. Column(i, w) \in Int /\ Row(i, w) \in Int /\ Column(k, w) \in Int /\ Row(k, w) \in Int
    BY <1>1, <2>1, CountedThrough
  <2>3. /\ start.column + Column(i, w) = start.column + Column(k, w)
        /\ start.row + Row(i, w) = start.row + Row(k, w)
    BY DEF Cell
  <2>4. Column(i, w) = Column(k, w)
    BY ONLY <2>1, <2>2, <2>3, SumCancels
  <2>5. Row(i, w) = Row(k, w)
    BY ONLY <2>1, <2>2, <2>3, SumCancels
  <2> QED
    BY <1>1, <2>1, <2>4, <2>5, CountedThrough
<1>. HIDE DEF writes, cell
<1>9. \A k \in 1..n : val[cell[k]] = writes[k].value
  BY <1>7, <1>8
<1>. HIDE DEF val
<1>10. Written(writes, val)
  BY <1>5, <1>6, <1>7, <1>9 DEF Written
<1>11. sheet.cells = WrittenCells(writes, val)
  BY <1>10, SheetOfWritten DEF sheet
<1>12. \A k \in 1..n : CellOf(sheet, cell[k]) = writes[k].value
  <2> SUFFICES ASSUME NEW k \in 1..n PROVE CellOf(sheet, cell[k]) = writes[k].value
    OBVIOUS
  <2>1. cell[k] \in {ParseCell(writes[i].at) : i \in 1..Len(writes)}
    BY <1>5, <1>7
  <2>2. CASE val[cell[k]] = Blank
    BY <1>9, <1>11, <2>1, <2>2 DEF CellOf, WrittenCells
  <2>3. CASE val[cell[k]] # Blank
    BY <1>9, <1>11, <2>1, <2>3 DEF CellOf, WrittenCells
  <2> QED
    BY <2>2, <2>3
<1>13. \A k \in 1..n : ScalarValue(values[k]) =
          CellOf(sheet, Cell(start.column + Column(k, w), start.row + Row(k, w)))
  BY <1>6, <1>12 DEF cell
<1> QED
  BY <1>2, <1>13 DEF RangeNamed, start, n

LEMMA CellOfValue ==
    ASSUME NEW s, IsSheet(s), NEW c
    PROVE  IsValue(CellOf(s, c))
BY BlankIsValue DEF IsSheet, CellOf

LEMMA RangeFile ==
    ASSUME NEW d, IsSheetDoc(d), NEW target, target.worksheet \in Texts, RangeEncode(d, target).ok
    PROVE  IsFile(RangeEncode(d, target).value)
<1>. DEFINE s == DocToSheet(d)
            r == target.range
            f == RangeEncode(d, target).value
            n == RangeWidth(r) * RangeHeight(r)
            values == [k \in 1..n |-> BridgeValue(CellOf(s, RangeAt(r, k)))]
<1>1. IsRange(r) /\ f.format = "range" /\ f.target = target /\ f.content.values = values
      /\ f.content.width = RangeWidth(r)
  BY RangeEncoded
<1>w. RangeWidth(r) \in Nat \ {0}
  <2>1. /\ RangeBounds(r)[1].column \in 1..MaxIndex /\ RangeBounds(r)[2].column \in 1..MaxIndex
        /\ RangeBounds(r)[1].column <= RangeBounds(r)[2].column
    BY <1>1 DEF IsRange, Cells
  <2> QED
    BY <2>1, MaxIndexAssumption DEF RangeWidth
<1>2. IsSheet(s)
  BY DEF IsSheetDoc
<1>3. n \in Nat
  BY <1>1, RangeAddressed
<1>. HIDE DEF n, s, f
<1>4. IsList(values) /\ Len(values) = n
  <2>1. values = [k \in 1..n |-> values[k]]
    OBVIOUS
  <2>. HIDE DEF values
  <2> QED
    BY <1>3, <2>1, ListBuilt
<1>5. ToSet(values) = {values[k] : k \in 1..n}
  BY <1>4, ListIs
<1>6. \A k \in 1..n : LET v == values[k]
                     IN v.text \in Texts /\ v.equals \in Nat /\ v.truth \in BOOLEAN
  BY <1>2, CellOfValue, RangeKept
<1>. HIDE DEF values
<1>7. IsScalars(values)
  BY <1>4, <1>5, <1>6 DEF IsScalars
<1> QED
  BY <1>1, <1>w, <1>7 DEF IsFile, f

RangeBackSheet(name, s, r) ==
    [name |-> name,
     cells |-> [c \in {d \in RangeCells(r) : RangeBack(CellOf(s, d)) # Blank} |->
                   RangeBack(CellOf(s, c))]]

LEMMA RangeBackCell ==
    ASSUME NEW name, NEW s, NEW r, NEW c \in RangeCells(r)
    PROVE  CellOf(RangeBackSheet(name, s, r), c) = RangeBack(CellOf(s, c))
<1>. DEFINE S == {d \in RangeCells(r) : RangeBack(CellOf(s, d)) # Blank}
            cells == [e \in S |-> RangeBack(CellOf(s, e))]
<1>1. RangeBackSheet(name, s, r).cells = cells /\ DOMAIN cells = S
  BY DEF RangeBackSheet
<1>2. CASE c \in S
  BY <1>1, <1>2 DEF CellOf
<1>3. CASE c \notin S
  <2>1. RangeBack(CellOf(s, c)) = Blank
    BY <1>3
  <2>2. CellOf(RangeBackSheet(name, s, r), c) = Blank
    <3>. HIDE DEF cells, S
    <3> QED
      BY <1>1, <1>3 DEF CellOf
  <2> QED
    BY <2>1, <2>2
<1> QED
  BY <1>2, <1>3

\* What has been through a range is the same behind another.
LEMMA RangeSettled ==
    ASSUME NEW name, NEW s, IsSheet(s), NEW r
    PROVE  RangeBackSheet(name, RangeBackSheet(name, s, r), r) = RangeBackSheet(name, s, r)
<1>. DEFINE b == RangeBackSheet(name, s, r)
<1>1. \A c \in RangeCells(r) : RangeBack(CellOf(b, c)) = RangeBack(CellOf(s, c))
  <2> SUFFICES ASSUME NEW c \in RangeCells(r)
               PROVE  RangeBack(CellOf(b, c)) = RangeBack(CellOf(s, c))
    OBVIOUS
  <2>1. CellOf(b, c) = RangeBack(CellOf(s, c))
    BY RangeBackCell
  <2>2. RangeBack(RangeBack(CellOf(s, c))) = RangeBack(CellOf(s, c))
    BY CellOfValue, RangeKept
  <2> QED
    BY <2>1, <2>2
<1>2. {d \in RangeCells(r) : RangeBack(CellOf(b, d)) # Blank}
      = {d \in RangeCells(r) : RangeBack(CellOf(s, d)) # Blank}
  BY <1>1
<1>. DEFINE S == {d \in RangeCells(r) : RangeBack(CellOf(s, d)) # Blank}
<1>3. [c \in S |-> RangeBack(CellOf(b, c))] = [c \in S |-> RangeBack(CellOf(s, c))]
  BY <1>1
<1> QED
  BY <1>2, <1>3, Zenon DEF RangeBackSheet

LEMMA RangeTrip ==
    ASSUME NEW d, IsSheetDoc(d), NEW target, target.worksheet \in Texts, RangeEncode(d, target).ok
    PROVE  LET b == RangeBackSheet(target.worksheet, DocToSheet(d), target.range)
               answer == RangeDecode(RangeEncode(d, target).value)
           IN /\ answer.ok /\ IsSheet(b)
              /\ answer.value = SheetToDoc(ImportedId("range", target.worksheet), b)
<1>. DEFINE s == DocToSheet(d)
            r == target.range
            f == RangeEncode(d, target).value
            n == RangeWidth(r) * RangeHeight(r)
            name == target.worksheet
            b == RangeBackSheet(name, s, r)
            writes == RangeWrites(target, f.content)
            val == [c \in Cells |-> RangeBack(CellOf(s, c))]
            first == RangeBounds(r)[1]
<1>1. /\ IsRange(r) /\ f.format = "range" /\ f.target = target
      /\ f.content.address = r /\ f.content.width = RangeWidth(r)
      /\ f.content.values = [k \in 1..n |-> BridgeValue(CellOf(s, RangeAt(r, k)))]
  BY RangeEncoded
<1>2. IsSheet(s)
  BY DEF IsSheetDoc
<1>3. /\ n \in Nat
      /\ \A k \in 1..n :
            /\ RangeAt(r, k) \in Cells
            /\ ParseCell(Display(Cell(Wrapped(first.column + Column(k, RangeWidth(r))),
                                      Wrapped(first.row + Row(k, RangeWidth(r)))))) = RangeAt(r, k)
  BY <1>1, RangeAddressed
<1>4. RangeCells(r) = {RangeAt(r, k) : k \in 1..n}
  BY DEF RangeCells
<1>. HIDE DEF s, f, n, first, r
<1>5. Len(f.content.values) = n /\ \A k \in 1..n : f.content.values[k] = BridgeValue(CellOf(s, RangeAt(r, k)))
  BY <1>1, <1>3
<1>6. writes = [k \in 1..n |->
                  [at |-> Display(Cell(Wrapped(first.column + Column(k, RangeWidth(r))),
                                       Wrapped(first.row + Row(k, RangeWidth(r))))),
                   value |-> ScalarValue(f.content.values[k])]]
  <2>1. (IF f.content.address = None THEN target.range ELSE f.content.address) = r
    BY <1>1 DEF r
  <2> QED
    BY <1>1, <1>5, <2>1 DEF RangeWrites, first
<1>. HIDE DEF writes
<1>7. Len(writes) = n /\ Len(writes) \in Nat
  BY <1>3, <1>6
<1>8. ASSUME NEW k \in 1..n
      PROVE  /\ ParseCell(writes[k].at) = RangeAt(r, k) /\ RangeAt(r, k) \in Cells
             /\ writes[k].value = val[RangeAt(r, k)] /\ IsValue(writes[k].value)
  <2>1. writes[k].value = RangeBack(CellOf(s, RangeAt(r, k)))
    BY <1>5, <1>6 DEF RangeBack
  <2>2. IsValue(writes[k].value)
    BY <1>2, <2>1, CellOfValue, RangeKept
  <2>3. ParseCell(writes[k].at) = RangeAt(r, k) /\ RangeAt(r, k) \in Cells
    BY <1>3, <1>6
  <2> QED
    BY <2>1, <2>2, <2>3
<1>. HIDE DEF val
<1>9. Written(writes, val)
  <2> SUFFICES ASSUME NEW i \in 1..Len(writes)
               PROVE  /\ ParseCell(writes[i].at) # None /\ writes[i].value # None
                      /\ writes[i].value = val[ParseCell(writes[i].at)]
    BY <1>7 DEF Written
  <2>1. i \in 1..n
    BY <1>7
  <2> QED
    BY <1>8, <2>1, CellsAreSome, ValuesReadBack
<1>. DEFINE sheet == SheetOf(name, writes)
<1>10. sheet = [name |-> name, cells |-> WrittenCells(writes, val)]
  BY <1>9, SheetOfWritten
<1>11. sheet = b
  <2>1. {ParseCell(writes[i].at) : i \in 1..Len(writes)} = RangeCells(r)
    <3>1. {ParseCell(writes[i].at) : i \in 1..Len(writes)} \subseteq RangeCells(r)
      BY <1>4, <1>7, <1>8
    <3>2. RangeCells(r) \subseteq {ParseCell(writes[i].at) : i \in 1..Len(writes)}
      BY <1>4, <1>7, <1>8
    <3> QED
      BY <3>1, <3>2, Zenon
  <2>2. \A c \in RangeCells(r) : val[c] = RangeBack(CellOf(s, c))
    BY <1>3, <1>4 DEF val
  <2>. DEFINE S == {c \in RangeCells(r) : val[c] # Blank}
              T == {c \in RangeCells(r) : RangeBack(CellOf(s, c)) # Blank}
  <2>3. S = T
    BY <2>2
  <2>4. WrittenCells(writes, val) = [c \in S |-> val[c]]
    BY <2>1, Zenon DEF WrittenCells
  <2>5. [c \in S |-> val[c]] = [c \in T |-> RangeBack(CellOf(s, c))]
    BY <2>2, <2>3
  <2> QED
    BY <1>10, <2>4, <2>5, Zenon DEF RangeBackSheet
<1>12. sheet = NoSheet \/ IsSheet(sheet)
  <2>1. \A i \in 1..Len(writes) : writes[i].value = None \/ IsValue(writes[i].value)
    BY <1>7, <1>8
  <2>. HIDE DEF name
  <2>2. name \in Texts
    BY DEF name
  <2> QED
    BY <1>7, <2>1, <2>2, SheetOfTyped
<1>13. sheet.name = name /\ sheet # NoSheet
  BY <1>10, TextAssumption DEF NoSheet
<1>14. ReadRange(target, f.content) = sheet
  <2>1. None \notin {RangeBounds(r)[i] : i \in 1..2}
    BY <1>1, CellsAreSome DEF IsRange
  <2>2. (IF f.content.address = None THEN target.range ELSE f.content.address) = r
    BY <1>1 DEF r
  <2>3. ReadRange(target, f.content) = IF None \in {RangeBounds(r)[i] : i \in 1..2} THEN NoSheet ELSE sheet
    BY <2>2 DEF ReadRange, RangeWrites, writes
  <2> QED
    BY <2>1, <2>3
<1>. HIDE DEF sheet, b
<1>15. RangeDecode(f).ok /\ RangeDecode(f).value = SheetToDoc(ImportedId("range", name), b)
  BY <1>1, <1>11, <1>13, <1>14 DEF RangeDecode, Answered
<1> QED
  BY <1>11, <1>12, <1>13, <1>15 DEF b, f, s, r

(***************************************************************************)
(* Blocks of slides                                                        *)
(***************************************************************************)
\* A list that reads as it is.
ReadsAsItIs(s) == IsList(s) /\ \A t \in ToSet(s) : t \in Texts /\ t # Empty /\ InElement[t] = t

LEMMA ChildTextsKept ==
    ASSUME NEW s, ReadsAsItIs(s)
    PROVE  ChildTexts(s) = s
<1>1. /\ IsList(s) /\ Len(s) \in Nat
      /\ \A i \in 1..Len(s) : s[i] \in ToSet(s)
  BY ListIs DEF ReadsAsItIs
<1>2. \A i \in 1..Len(s) : s[i] # Empty /\ InElement[s[i]] = s[i]
  BY <1>1 DEF ReadsAsItIs
<1>3. [i \in 1..Len(s) |-> IF InElement[s[i]] = Empty THEN <<>> ELSE <<InElement[s[i]]>>]
      = [i \in 1..Len(s) |-> <<s[i]>>]
  BY <1>2
<1>4. FlattenSeq([i \in 1..Len(s) |-> <<s[i]>>]) = s
  BY <1>1, SinglesFlattened DEF IsList
<1> QED
  BY <1>3, <1>4 DEF ChildTexts

LEMMA ChildTextsRead ==
    ASSUME NEW s, IsList(s), ToSet(s) \subseteq Texts, ~Unreadable(s, InElement)
    PROVE  ReadsAsItIs(ChildTexts(s))
<1>. DEFINE ss == [i \in 1..Len(s) |->
                      IF InElement[s[i]] = Empty THEN <<>> ELSE <<InElement[s[i]]>>]
            T == {t \in Texts : t # Empty /\ InElement[t] = t}
<1>1. /\ Len(s) \in Nat
      /\ \A i \in 1..Len(s) : s[i] \in Texts
  BY ListIs
<1>2. \A i \in 1..Len(s) : s[i] # None
  BY <1>1, TextAssumption
<1>3. \A i \in 1..Len(s) : InElement[s[i]] # None
  BY <1>2 DEF Unreadable
<1>4. \A i \in 1..Len(s) : InElement[s[i]] = Empty \/ InElement[s[i]] \in T
  <2> SUFFICES ASSUME NEW i \in 1..Len(s), InElement[s[i]] # Empty
               PROVE  InElement[s[i]] \in T
    OBVIOUS
  <2> QED
    BY <1>1, <1>3, Parsed
<1>5. \A i \in 1..Len(s) : ss[i] \in Seq(T)
  <2> SUFFICES ASSUME NEW i \in 1..Len(s)
               PROVE  ss[i] \in Seq(T)
    OBVIOUS
  <2>1. CASE InElement[s[i]] = Empty
    BY <2>1
  <2>2. CASE InElement[s[i]] # Empty
    <3>1. ss[i] = <<InElement[s[i]]>> /\ InElement[s[i]] \in T
      BY <1>4, <2>2
    <3>. HIDE DEF T, ss
    <3> QED
      BY <3>1
  <2> QED
    BY <2>1, <2>2
<1>6. Len(ss) = Len(s) /\ ss = [i \in 1..Len(ss) |-> ss[i]]
  BY <1>1
<1>. HIDE DEF ss, T
<1>7. FlattenSeq(ss) \in Seq(T)
  BY <1>1, <1>5, <1>6, Flattened
<1>8. IsList(FlattenSeq(ss)) /\ ToSet(FlattenSeq(ss)) \subseteq T
  BY <1>7, Listed
<1>9. ChildTexts(s) = FlattenSeq(ss)
  BY DEF ChildTexts, ss
<1> QED
  BY <1>8, <1>9 DEF ReadsAsItIs, T

\* What holds something among the first k texts, and a list of just that.
Holding(s, k) == {i \in 1..k : InElement[s[i]] # Empty}
Told(s, k, t) ==
    /\ Len(t) = Cardinality(Holding(s, k))
    /\ \A i \in Holding(s, k) : t[Cardinality(Holding(s, i))] = InElement[s[i]]

LEMMA HoldingCounted ==
    ASSUME NEW s, NEW k \in Nat
    PROVE  /\ IsFiniteSet(Holding(s, k)) /\ Cardinality(Holding(s, k)) \in Nat
           /\ \A i \in Holding(s, k) :
                 Cardinality(Holding(s, i)) \in 1..Cardinality(Holding(s, k))
<1>1. ASSUME NEW j \in Nat PROVE IsFiniteSet(Holding(s, j)) /\ Cardinality(Holding(s, j)) \in Nat
  <2>1. IsFiniteSet(1..j)
    BY FS_Interval
  <2>2. Holding(s, j) \in SUBSET (1..j)
    BY DEF Holding
  <2> QED
    BY <2>1, <2>2, FS_Subset, FS_CardinalityType
<1>2. ASSUME NEW i \in Holding(s, k)
      PROVE  Cardinality(Holding(s, i)) \in 1..Cardinality(Holding(s, k))
  <2>1. i \in Nat /\ i \in Holding(s, i) /\ Holding(s, i) \in SUBSET Holding(s, k)
    BY DEF Holding
  <2>2. Cardinality(Holding(s, i)) <= Cardinality(Holding(s, k))
    BY <1>1, <2>1, FS_Subset
  <2>3. Cardinality(Holding(s, i)) # 0
    BY <1>1, <2>1, FS_EmptySet
  <2> QED
    BY <1>1, <2>1, <2>2, <2>3
<1> QED
  BY <1>1, <1>2

LEMMA ToldOneMore ==
    ASSUME NEW T, NEW s, NEW k \in Nat, NEW j, j = k + 1, NEW t \in Seq(T), Told(s, k, t), NEW one \in Seq(T),
           one = IF InElement[s[j]] = Empty THEN <<>> ELSE <<InElement[s[j]]>>
    PROVE  t \o one \in Seq(T) /\ Told(s, j, t \o one)
<1>. DEFINE now == Holding(s, k)
            next == Holding(s, j)
<1>1. /\ IsFiniteSet(now) /\ Cardinality(now) \in Nat /\ j \notin now
      /\ \A i \in now : Cardinality(Holding(s, i)) \in 1..Cardinality(now)
  <2>1. j \notin now
    BY DEF Holding
  <2> QED
    BY <2>1, HoldingCounted
<1>2. t \o one \in Seq(T)
  BY ConcatProperties
<1>3. CASE InElement[s[j]] = Empty
  <2>1. next = now
    BY <1>3 DEF Holding
  <2>2. t \o one = t
    BY <1>3
  <2> QED
    BY <1>2, <2>1, <2>2 DEF Told
<1>4. CASE InElement[s[j]] # Empty
  <2>1. next = now \cup {j}
    BY <1>4 DEF Holding
  <2>. DEFINE n == Cardinality(now)
              u == t \o one
  <2>2. Cardinality(next) = n + 1
    BY <1>1, <2>1, FS_AddElement
  <2>3. Len(t) = n /\ \A i \in now : t[Cardinality(Holding(s, i))] = InElement[s[i]]
    BY DEF Told
  <2>4. Len(one) = 1 /\ one[1] = InElement[s[j]]
    BY <1>4
  <2>5. Len(u) = n + 1
    BY <2>3, <2>4, ConcatProperties
  <2>6. \A m \in 1..n : u[m] = t[m]
    BY <1>1, <2>3, <2>4, ConcatProperties
  <2>7. u[n + 1] = InElement[s[j]]
    BY <1>1, <2>3, <2>4, ConcatProperties
  <2>8. \A i \in next : u[Cardinality(Holding(s, i))] = InElement[s[i]]
    <3> SUFFICES ASSUME NEW i \in next PROVE u[Cardinality(Holding(s, i))] = InElement[s[i]]
      OBVIOUS
    <3>1. CASE i \in now
      BY <1>1, <2>3, <2>6, <3>1
    <3>2. CASE i = j
      BY <2>2, <2>7, <3>2
    <3>. HIDE DEF now, next
    <3> QED
      BY <2>1, <3>1, <3>2
  <2> QED
    BY <1>2, <2>2, <2>5, <2>8 DEF Told
<1> QED
  BY <1>3, <1>4

\* The texts of a list are all told, in their order.
LEMMA ItemsTold ==
    ASSUME NEW s, IsList(s), ToSet(s) \subseteq Texts, ~Unreadable(s, InElement)
    PROVE  SameItems(s, ChildTexts(s))
<1>. DEFINE n == Len(s)
            ss == [i \in 1..n |-> IF InElement[s[i]] = Empty THEN <<>> ELSE <<InElement[s[i]]>>]
<1>1. n \in Nat /\ \A i \in 1..n : s[i] \in Texts
  BY ListIs
<1>2. \A i \in 1..n : InElement[s[i]] \in Texts
  <2> SUFFICES ASSUME NEW i \in 1..n PROVE InElement[s[i]] \in Texts
    OBVIOUS
  <2>1. s[i] # None
    BY <1>1, TextAssumption
  <2>2. InElement[s[i]] # None
    BY <2>1 DEF Unreadable
  <2> QED
    BY <1>1, <2>2, Parsed
<1>3. /\ Len(ss) = n
      /\ \A i \in 1..n : /\ ss[i] = IF InElement[s[i]] = Empty THEN <<>> ELSE <<InElement[s[i]]>>
                         /\ ss[i] \in Seq(Texts)
  BY <1>1, <1>2
<1>4. ChildTexts(s) = FlattenSeq(ss)
  BY DEF ChildTexts
<1>. HIDE DEF ss
<1>5. Told(s, n, ChildTexts(s))
  <2>. DEFINE All(t, k) == t \in Seq(Texts) /\ Told(s, k, t)
  <2>1. All(<<>>, 0)
    <3>1. Holding(s, 0) = {}
      BY DEF Holding
    <3> QED
      BY <3>1, FS_EmptySet, EmptySeq DEF Told
  <2>2. CASE n = 0
    <3>1. ChildTexts(s) = <<>>
      BY <1>3, <1>4, <2>2 DEF FlattenSeq, ss
    <3> QED
      BY <2>1, <2>2, <3>1
  <2>3. CASE n # 0
    <3>1. PICK u : (\A i \in 1..n : u[i] = FlatTurn(ss, u, i)) /\ FlattenSeq(ss) = u[n]
      BY <1>1, <1>3, <2>3, FlattenIs
    <3>2. All(u[1], 1)
      <4>1. 1 \in 1..n /\ u[1] = ss[1]
        BY <1>1, <2>3, <3>1 DEF FlatTurn
      <4>2. u[1] = <<>> \o ss[1]
        BY <1>3, <4>1, ConcatEmptySeq
      <4>3. /\ ss[1] \in Seq(Texts)
            /\ ss[1] = IF InElement[s[1]] = Empty THEN <<>> ELSE <<InElement[s[1]]>>
        BY <1>3, <4>1
      <4>4. <<>> \o ss[1] \in Seq(Texts) /\ Told(s, 1, <<>> \o ss[1])
        <5>1. 0 \in Nat /\ 1 = 0 + 1
          OBVIOUS
        <5> QED
          BY <2>1, <4>3, <5>1, ToldOneMore
      <4> QED
        BY <4>2, <4>4
    <3>3. ASSUME NEW k \in 1..n, k # 1, All(u[k - 1], k - 1) PROVE All(u[k], k)
      <4>1. u[k] = u[k - 1] \o ss[k]
        BY <3>1, <3>3 DEF FlatTurn
      <4>2. k - 1 \in Nat /\ k = (k - 1) + 1
        BY <1>1, <3>3
      <4>3. /\ ss[k] \in Seq(Texts)
            /\ ss[k] = IF InElement[s[k]] = Empty THEN <<>> ELSE <<InElement[s[k]]>>
        BY <1>3
      <4>4. u[k - 1] \o ss[k] \in Seq(Texts) /\ Told(s, k, u[k - 1] \o ss[k])
        BY <3>3, <4>2, <4>3, ToldOneMore
      <4> QED
        BY <4>1, <4>4
    <3>. DEFINE bad == {k \in 1..n : ~All(u[k], k)}
    <3>. HIDE DEF All
    <3>4. bad = {}
      <4> SUFFICES ASSUME bad # {} PROVE FALSE
        OBVIOUS
      <4>1. PICK k \in bad : \A l \in bad : k <= l
        <5>1. bad \in SUBSET Nat
          BY <1>1
        <5>. HIDE DEF bad
        <5> QED
          BY <5>1, LeastNatural
      <4>2. k \in 1..n /\ ~All(u[k], k) /\ k # 1
        BY <3>2
      <4>3. k - 1 \in 1..n /\ ~(k <= k - 1)
        BY <1>1, <4>2
      <4>4. k - 1 \notin bad
        <5>. HIDE DEF bad
        <5> QED
          BY <4>1, <4>3
      <4> QED
        BY <3>3, <4>2, <4>3, <4>4
    <3>5. n \in 1..n
      BY <1>1, <2>3
    <3>6. All(u[n], n)
      BY <3>4, <3>5
    <3> QED
      BY <1>4, <3>1, <3>6 DEF All
  <2> QED
    BY <2>2, <2>3
<1> QED
  BY <1>5 DEF Told, Holding, SameItems

LEMMA ReadAgain ==
    ASSUME NEW s, ReadsAsItIs(s)
    PROVE  /\ IsList(s) /\ ToSet(s) \subseteq Texts /\ ~Unreadable(s, InElement)
<1>1. /\ IsList(s) /\ \A i \in 1..Len(s) : s[i] \in ToSet(s)
  BY ListIs DEF ReadsAsItIs
<1> QED
  BY <1>1, TextAssumption DEF ReadsAsItIs, Unreadable

\* An attribute that may be missing.
LEMMA AttributeRead ==
    ASSUME NEW t \in TextsAndNone, t = None \/ InAttribute[t] # None,
           NEW fallback \in TextsAndNone, fallback = None \/ InAttribute[fallback] = fallback
    PROVE  LET a == Attribute(t, fallback)
           IN /\ a \in TextsAndNone /\ (fallback # None => a \in Texts)
              /\ a # None => a \in Texts /\ InAttribute[a] = a
              /\ a = IF t # None THEN InAttribute[t] ELSE fallback
<1>1. CASE t = None
  BY <1>1 DEF Attribute, TextsAndNone
<1>2. CASE t # None
  <2>1. t \in Texts
    BY <1>2 DEF TextsAndNone
  <2>2. InAttribute[t] \in Texts /\ InAttribute[InAttribute[t]] = InAttribute[t]
    BY <1>2, <2>1, Parsed
  <2> QED
    BY <1>2, <2>2 DEF Attribute, TextsAndNone
<1> QED
  BY <1>1, <1>2

\* A block that was read: of the kind that was written, and read the same again.
IsReadBlock(codec, r, kind) ==
    /\ IsBlock(r) /\ r.kind = kind /\ ~BlockUnreadable(r) /\ BlockFromNode(codec, r) = r

LEMMA BlockParts ==
    ASSUME NEW kind, NEW items, NEW rows
    PROVE  /\ Block(kind, items, rows).kind = kind /\ Block(kind, items, rows).items = items
           /\ Block(kind, items, rows).rows = rows
BY DEF Block

LEMMA NoRows ==
    ASSUME NEW b, b.rows = <<>>
    PROVE  /\ IsList(b.rows) /\ Len(b.rows) = 0
           /\ \A row \in ToSet(b.rows) : IsList(row) /\ ToSet(row) \subseteq Texts
BY EmptyList

LEMMA HeadingRead ==
    ASSUME NEW codec, NEW t \in Texts, InElement[t] = t
    PROVE  IsReadBlock(codec, Heading(t), "heading")
<1>. DEFINE r == Heading(t)
<1>1. r = Block("heading", <<t>>, <<>>) /\ r.kind = "heading" /\ r.items = <<t>> /\ r.rows = <<>>
  BY BlockParts DEF Heading
<1>2. t # None
  BY TextAssumption
<1>. HIDE DEF r
<1>3. IsList(r.items) /\ Len(r.items) = 1 /\ ToSet(r.items) \subseteq Texts
  <2>1. <<t>> \in Seq(Texts) /\ Len(<<t>>) = 1
    OBVIOUS
  <2> QED
    BY <1>1, <2>1, Listed
<1>4. IsBlockXml(r)
  BY <1>1, <1>3, NoRows DEF IsBlockXml
<1>5. ~BlockUnreadable(r)
  BY <1>1, <1>2, <1>3, NoRows DEF BlockUnreadable, Unreadable
<1>6. BlockFromNode(codec, r) = r
  <2>1. BlockFromNode(codec, r) = Heading(InElement[r.items[1]])
    BY <1>1 DEF BlockFromNode
  <2> QED
    BY <1>1, <2>1 DEF r
<1> QED
  BY <1>1, <1>4, <1>5, <1>6 DEF IsReadBlock, IsBlock, BlockKinds, r

LEMMA BulletsRead ==
    ASSUME NEW codec, NEW s, ReadsAsItIs(s)
    PROVE  IsReadBlock(codec, BulletList(s), "bullet-list")
<1>. DEFINE r == BulletList(s)
<1>1. r = Block("bullet-list", s, <<>>) /\ r.kind = "bullet-list" /\ r.items = s /\ r.rows = <<>>
  BY BlockParts DEF BulletList
<1>. HIDE DEF r
<1>2. IsList(s) /\ ToSet(s) \subseteq Texts /\ ~Unreadable(s, InElement) /\ ChildTexts(s) = s
  BY ReadAgain, ChildTextsKept
<1>3. IsBlockXml(r)
  BY <1>1, <1>2, NoRows DEF IsBlockXml
<1>4. ~BlockUnreadable(r)
  BY <1>1, <1>2, NoRows DEF BlockUnreadable
<1>5. BlockFromNode(codec, r) = r
  <2>1. BlockFromNode(codec, r) = BulletList(ChildTexts(r.items))
    BY <1>1 DEF BlockFromNode
  <2> QED
    BY <1>1, <1>2, <2>1 DEF r
<1> QED
  BY <1>1, <1>3, <1>4, <1>5 DEF IsReadBlock, IsBlock, BlockKinds, r

LEMMA TableRead ==
    ASSUME NEW codec, NEW s, ReadsAsItIs(s), NEW rows, IsList(rows), \A i \in 1..Len(rows) : ReadsAsItIs(rows[i])
    PROVE  IsReadBlock(codec, Table(s, rows), "table")
<1>. DEFINE r == Table(s, rows)
<1>1. r = Block("table", s, rows) /\ r.kind = "table" /\ r.items = s /\ r.rows = rows
  BY BlockParts DEF Table
<1>. HIDE DEF r
<1>2. IsList(s) /\ ToSet(s) \subseteq Texts /\ ~Unreadable(s, InElement) /\ ChildTexts(s) = s
  BY ReadAgain, ChildTextsKept
<1>3. \A i \in 1..Len(rows) :
         /\ IsList(rows[i]) /\ ToSet(rows[i]) \subseteq Texts /\ ~Unreadable(rows[i], InElement)
         /\ ChildTexts(rows[i]) = rows[i]
  BY ReadAgain, ChildTextsKept
<1>4. ToSet(rows) = {rows[i] : i \in 1..Len(rows)} /\ rows = [i \in 1..Len(rows) |-> rows[i]]
  BY ListIs
<1>5. IsBlockXml(r)
  BY <1>1, <1>2, <1>3, <1>4 DEF IsBlockXml
<1>6. ~BlockUnreadable(r)
  BY <1>1, <1>2, <1>3 DEF BlockUnreadable
<1>7. BlockFromNode(codec, r) = r
  <2>1. BlockFromNode(codec, r) = Table(ChildTexts(s), [i \in 1..Len(rows) |-> ChildTexts(rows[i])])
    BY <1>1 DEF BlockFromNode
  <2>2. [i \in 1..Len(rows) |-> ChildTexts(rows[i])] = rows
    BY <1>3, <1>4
  <2> QED
    BY <1>2, <2>1, <2>2 DEF r
<1> QED
  BY <1>1, <1>5, <1>6, <1>7 DEF IsReadBlock, IsBlock, BlockKinds, r

LEMMA FourTexts ==
    ASSUME NEW a \in TextsAndNone, NEW b \in TextsAndNone, NEW c \in TextsAndNone, NEW d \in TextsAndNone
    PROVE  LET s == <<a, b, c, d>>
           IN IsList(s) /\ Len(s) = 4 /\ ToSet(s) \subseteq TextsAndNone
<1>1. <<a, b, c, d>> \in Seq(TextsAndNone) /\ Len(<<a, b, c, d>>) = 4
  OBVIOUS
<1> QED
  BY <1>1, Listed

LEMMA ImageRead ==
    ASSUME NEW codec, NEW a \in Texts, NEW b \in Texts, NEW c \in TextsAndNone, NEW d \in TextsAndNone,
           \A t \in {a, b, c, d} : t # None => InAttribute[t] = t
    PROVE  IsReadBlock(codec, ImageRef(a, b, c, d), "image-ref")
<1>. DEFINE r == ImageRef(a, b, c, d)
            s == <<a, b, c, d>>
<1>1. r = Block("image-ref", s, <<>>) /\ r.kind = "image-ref" /\ r.items = s /\ r.rows = <<>>
  BY BlockParts DEF ImageRef
<1>2. IsList(s) /\ Len(s) = 4 /\ ToSet(s) \subseteq TextsAndNone
  BY FourTexts DEF TextsAndNone
<1>3. /\ s[1] = a /\ s[2] = b /\ s[3] = c /\ s[4] = d
      /\ \A i \in 1..4 : s[i] \in {a, b, c, d}
  OBVIOUS
<1>. HIDE DEF r, s
<1>4. IsBlockXml(r)
  BY <1>1, <1>2, NoRows DEF IsBlockXml
<1>5. ~BlockUnreadable(r)
  <2>1. ~Unreadable(s, InAttribute)
    BY <1>2, <1>3 DEF Unreadable, TextsAndNone
  <2> QED
    BY <1>1, <2>1, NoRows DEF BlockUnreadable
<1>6. BlockFromNode(codec, r) = r
  <2>1. BlockFromNode(codec, r) = ImageRef(Attribute(s[1], CodecId[codec]), Attribute(s[2], Empty),
                                           Attribute(s[3], None), Attribute(s[4], None))
    BY <1>1 DEF BlockFromNode
  <2>2. /\ Attribute(a, CodecId[codec]) = a /\ Attribute(b, Empty) = b
        /\ Attribute(c, None) = c /\ Attribute(d, None) = d
    BY TextAssumption DEF Attribute
  <2> QED
    BY <1>3, <2>1, <2>2 DEF r
<1>7. {r.items[1], r.items[2]} \subseteq Texts
  BY <1>1, <1>3
<1> QED
  BY <1>1, <1>4, <1>5, <1>6, <1>7 DEF IsReadBlock, IsBlock, BlockKinds, r

LEMMA BlockRead ==
    ASSUME NEW codec \in {"pptx", "odp"}, NEW b, IsBlockXml(b), ~BlockUnreadable(b)
    PROVE  /\ IsReadBlock(codec, BlockFromNode(codec, b), b.kind)
           /\ SameBlock(codec, b, BlockFromNode(codec, b))
<1>1. /\ b.kind \in BlockKinds
      /\ IsList(b.items) /\ IsList(b.rows)
      /\ ToSet(b.items) \subseteq IF b.kind = "image-ref" THEN TextsAndNone ELSE Texts
      /\ \A row \in ToSet(b.rows) : IsList(row) /\ ToSet(row) \subseteq Texts
      /\ b.kind = "heading" => Len(b.items) = 1
      /\ b.kind = "image-ref" => Len(b.items) = 4
  BY DEF IsBlockXml, BlockUnreadable, BlockKinds
<1>2. \A i \in 1..Len(b.items) : b.items[i] \in ToSet(b.items)
  BY <1>1, ListIs
<1>3. ~Unreadable(b.items, IF b.kind = "image-ref" THEN InAttribute ELSE InElement)
  BY DEF BlockUnreadable
<1>4. CASE b.kind = "heading"
  <2>1. b.items[1] \in Texts /\ b.items[1] # None /\ InElement[b.items[1]] # None
    <3>1. 1 \in 1..Len(b.items)
      <4>1. Len(b.items) = 1
        BY <1>1, <1>4
      <4> QED
        BY <4>1
    <3>2. b.items[1] \in Texts /\ b.items[1] # None
      BY <1>1, <1>2, <1>4, <3>1, TextAssumption
    <3> QED
      BY <1>3, <1>4, <3>1, <3>2 DEF Unreadable
  <2>2. InElement[b.items[1]] \in Texts /\ InElement[InElement[b.items[1]]] = InElement[b.items[1]]
    BY <2>1, Parsed
  <2>3. BlockFromNode(codec, b) = Heading(InElement[b.items[1]])
    BY <1>4 DEF BlockFromNode
  <2>4. BlockFromNode(codec, b).items[1] = InElement[b.items[1]]
    BY <2>3, BlockParts DEF Heading
  <2>5. IsReadBlock(codec, BlockFromNode(codec, b), b.kind)
    BY <1>4, <2>2, <2>3, HeadingRead
  <2> QED
    BY <1>4, <2>4, <2>5 DEF SameBlock, IsReadBlock
<1>5. CASE b.kind = "bullet-list"
  <2>1. ReadsAsItIs(ChildTexts(b.items))
    BY <1>1, <1>3, <1>5, ChildTextsRead
  <2>2. BlockFromNode(codec, b) = BulletList(ChildTexts(b.items))
    BY <1>5 DEF BlockFromNode
  <2>3. IsReadBlock(codec, BlockFromNode(codec, b), b.kind)
    BY <1>5, <2>1, <2>2, BulletsRead
  <2>4. SameItems(b.items, ChildTexts(b.items))
    BY <1>1, <1>3, <1>5, ItemsTold
  <2>5. BlockFromNode(codec, b).items = ChildTexts(b.items)
    BY <2>2, BlockParts DEF BulletList
  <2> QED
    BY <1>5, <2>3, <2>4, <2>5 DEF SameBlock, IsReadBlock
<1>6. CASE b.kind = "table"
  <2>. DEFINE rows == [i \in 1..Len(b.rows) |-> ChildTexts(b.rows[i])]
  <2>1. ReadsAsItIs(ChildTexts(b.items))
    BY <1>1, <1>3, <1>6, ChildTextsRead
  <2>2. Len(b.rows) \in Nat /\ \A i \in 1..Len(b.rows) : b.rows[i] \in ToSet(b.rows)
    BY <1>1, ListIs
  <2>3. \A i \in 1..Len(b.rows) : /\ ReadsAsItIs(ChildTexts(b.rows[i]))
                                  /\ SameItems(b.rows[i], ChildTexts(b.rows[i]))
    <3> SUFFICES ASSUME NEW i \in 1..Len(b.rows)
                 PROVE  /\ ReadsAsItIs(ChildTexts(b.rows[i]))
                        /\ SameItems(b.rows[i], ChildTexts(b.rows[i]))
      OBVIOUS
    <3>1. ~Unreadable(b.rows[i], InElement)
      BY DEF BlockUnreadable
    <3> QED
      BY <1>1, <2>2, <3>1, ChildTextsRead, ItemsTold
  <2>4. Len(rows) = Len(b.rows) /\ rows = [i \in 1..Len(b.rows) |-> rows[i]]
    BY <2>2
  <2>5. \A i \in 1..Len(rows) : ReadsAsItIs(rows[i])
    BY <2>2, <2>3
  <2>6. BlockFromNode(codec, b) = Table(ChildTexts(b.items), rows)
    BY <1>6 DEF BlockFromNode
  <2>7. \A i \in 1..Len(b.rows) : SameItems(b.rows[i], rows[i])
    BY <2>3
  <2>. HIDE DEF rows
  <2>8. IsList(rows)
    BY <2>2, <2>4, ListBuilt
  <2>9. IsReadBlock(codec, BlockFromNode(codec, b), b.kind)
    BY <1>6, <2>1, <2>5, <2>6, <2>8, TableRead
  <2>10. SameItems(b.items, ChildTexts(b.items))
    BY <1>1, <1>3, <1>6, ItemsTold
  <2>11. /\ BlockFromNode(codec, b).items = ChildTexts(b.items)
         /\ BlockFromNode(codec, b).rows = rows
    BY <2>6, BlockParts DEF Table
  <2> QED
    BY <1>6, <2>4, <2>7, <2>9, <2>10, <2>11 DEF SameBlock, IsReadBlock
<1>7. CASE b.kind = "image-ref"
  <2>. DEFINE fallback == <<CodecId[codec], Empty, None, None>>
              t == [i \in 1..4 |-> Attribute(b.items[i], fallback[i])]
  <2>1. \A i \in 1..4 : b.items[i] \in TextsAndNone /\ (b.items[i] = None \/ InAttribute[b.items[i]] # None)
    BY <1>1, <1>2, <1>3, <1>7 DEF Unreadable
  <2>2. /\ fallback[1] = CodecId[codec] /\ fallback[2] = Empty /\ fallback[3] = None /\ fallback[4] = None
        /\ {fallback[1], fallback[2]} \subseteq Texts
        /\ \A i \in 1..4 : /\ fallback[i] \in TextsAndNone
                           /\ fallback[i] = None \/ InAttribute[fallback[i]] = fallback[i]
    BY CodecIdAssumption, TextAssumption, ParserAssumption DEF TextsAndNone
  <2>3. BlockFromNode(codec, b) = ImageRef(t[1], t[2], t[3], t[4])
    BY <1>7 DEF BlockFromNode
  <2>. HIDE DEF fallback
  <2>4. \A i \in 1..4 :
           /\ t[i] \in TextsAndNone /\ (fallback[i] # None => t[i] \in Texts)
           /\ t[i] # None => InAttribute[t[i]] = t[i]
           /\ t[i] = IF b.items[i] # None THEN InAttribute[b.items[i]] ELSE fallback[i]
    <3> SUFFICES ASSUME NEW i \in 1..4
                 PROVE  /\ t[i] \in TextsAndNone /\ (fallback[i] # None => t[i] \in Texts)
                        /\ t[i] # None => InAttribute[t[i]] = t[i]
                        /\ t[i] = IF b.items[i] # None THEN InAttribute[b.items[i]] ELSE fallback[i]
      OBVIOUS
    <3>. DEFINE x == b.items[i]
                f == fallback[i]
    <3>1. t[i] = Attribute(x, f)
      OBVIOUS
    <3>. HIDE DEF t
    <3>2. x \in TextsAndNone /\ (x = None \/ InAttribute[x] # None)
      BY <2>1
    <3>3. f \in TextsAndNone /\ (f = None \/ InAttribute[f] = f)
      BY <2>2
    <3>. HIDE DEF x, f
    <3>4. LET a == Attribute(x, f)
          IN /\ a \in TextsAndNone /\ (f # None => a \in Texts)
             /\ a # None => a \in Texts /\ InAttribute[a] = a
             /\ a = IF x # None THEN InAttribute[x] ELSE f
      BY <3>2, <3>3, AttributeRead
    <3> QED
      BY <3>1, <3>4 DEF x, f
  <2>. HIDE DEF t
  <2>5. t[1] \in Texts /\ t[2] \in Texts
    BY <2>2, <2>4, TextAssumption
  <2>6. IsReadBlock(codec, ImageRef(t[1], t[2], t[3], t[4]), "image-ref")
    BY <2>4, <2>5, ImageRead
  <2>. DEFINE r == BlockFromNode(codec, b)
  <2>7. r.items = <<t[1], t[2], t[3], t[4]>>
    BY <2>3, BlockParts DEF ImageRef
  <2>8. \A i \in 1..4 : r.items[i] = t[i]
    BY <2>7
  <2>9. SameImage(codec, b, r)
    BY <2>2, <2>4, <2>8 DEF SameImage
  <2> QED
    BY <1>7, <2>3, <2>6, <2>9 DEF SameBlock, IsReadBlock
<1> QED
  BY <1>1, <1>4, <1>5, <1>6, <1>7 DEF BlockKinds

\* A block is refused for one of its texts.
LEMMA BlockRefused ==
    ASSUME NEW b, IsBlockXml(b), b.kind \in BlockKinds, BlockUnreadable(b)
    PROVE  \E t \in ToSet(b.items) \cup UNION {ToSet(b.rows[r]) : r \in 1..Len(b.rows)} :
              t # None /\ (InElement[t] = None \/ InAttribute[t] = None)
<1>1. IsList(b.items) /\ IsList(b.rows) /\ \A row \in ToSet(b.rows) : IsList(row)
  BY DEF IsBlockXml
<1>2. CASE Unreadable(b.items, IF b.kind = "image-ref" THEN InAttribute ELSE InElement)
  <2>1. PICK i \in 1..Len(b.items) :
           /\ b.items[i] # None
           /\ InElement[b.items[i]] = None \/ InAttribute[b.items[i]] = None
    BY <1>2 DEF Unreadable
  <2>2. b.items[i] \in ToSet(b.items)
    BY <1>1, ListIs
  <2> QED
    BY <2>1, <2>2
<1>3. CASE \E r \in 1..Len(b.rows) : Unreadable(b.rows[r], InElement)
  <2>1. PICK r \in 1..Len(b.rows) : Unreadable(b.rows[r], InElement)
    BY <1>3
  <2>2. PICK i \in 1..Len(b.rows[r]) : b.rows[r][i] # None /\ InElement[b.rows[r][i]] = None
    BY <2>1 DEF Unreadable
  <2>3. b.rows[r] \in ToSet(b.rows)
    BY <1>1, ListIs
  <2>4. b.rows[r][i] \in ToSet(b.rows[r])
    BY <1>1, <2>3, ListIs
  <2> QED
    BY <2>2, <2>4
<1> QED
  BY <1>2, <1>3 DEF BlockUnreadable, BlockKinds

(***************************************************************************)
(* Slides and decks                                                        *)
(***************************************************************************)
LEMMA LeastOf ==
    ASSUME NEW S \in SUBSET {1, 2}
    PROVE  /\ 1 \in S => Min(S) = 1
           /\ S = {2} => Min(S) = 2
<1>1. ASSUME 1 \in S PROVE Min(S) = 1
  <2>1. \A x \in S : (\A y \in S : x <= y) <=> x = 1
    BY <1>1
  <2>2. Min(S) \in S /\ \A y \in S : Min(S) <= y
    BY <1>1, <2>1 DEF Min
  <2> QED
    BY <2>1, <2>2
<1>2. ASSUME S = {2} PROVE Min(S) = 2
  BY <1>2 DEF Min
<1> QED
  BY <1>1, <1>2

\* The first of one or two that is there.
LEMMA FirstOfOne ==
    ASSUME NEW a, NEW fallback
    PROVE  First(<<a>>, fallback) = IF a # None THEN InAttribute[a] ELSE fallback
<1>. DEFINE s == <<a>>
            I == {i \in 1..Len(s) : s[i] # None}
<1>1. Len(s) = 1 /\ s[1] = a
  OBVIOUS
<1>. HIDE DEF s
<1>2. First(s, fallback) = IF (IF I # {} THEN Min(I) ELSE 0) = 0 THEN fallback
                           ELSE InAttribute[s[IF I # {} THEN Min(I) ELSE 0]]
  BY DEF First, SelectInSeq
<1>3. I \in SUBSET {1, 2} /\ (1 \in I <=> a # None) /\ 2 \notin I
  BY <1>1
<1>. HIDE DEF I
<1>4. CASE a # None
  BY <1>1, <1>2, <1>3, <1>4, LeastOf DEF s
<1>5. CASE a = None
  <2>1. I = {}
    BY <1>3, <1>5
  <2> QED
    BY <1>2, <1>5, <2>1 DEF s
<1> QED
  BY <1>4, <1>5

LEMMA FirstOfTwo ==
    ASSUME NEW a, NEW b, NEW fallback
    PROVE  First(<<a, b>>, fallback) = IF a # None THEN InAttribute[a]
                                       ELSE IF b # None THEN InAttribute[b] ELSE fallback
<1>. DEFINE s == <<a, b>>
            I == {i \in 1..Len(s) : s[i] # None}
<1>1. Len(s) = 2 /\ s[1] = a /\ s[2] = b
  OBVIOUS
<1>. HIDE DEF s
<1>2. First(s, fallback) = IF (IF I # {} THEN Min(I) ELSE 0) = 0 THEN fallback
                           ELSE InAttribute[s[IF I # {} THEN Min(I) ELSE 0]]
  BY DEF First, SelectInSeq
<1>3. I \in SUBSET {1, 2} /\ (1 \in I <=> a # None) /\ (2 \in I <=> b # None)
  BY <1>1
<1>. HIDE DEF I
<1>4. CASE a # None
  BY <1>1, <1>2, <1>3, <1>4, LeastOf DEF s
<1>5. CASE a = None /\ b # None
  <2>1. I = {2}
    BY <1>3, <1>5
  <2> QED
    BY <1>1, <1>2, <1>3, <1>5, <2>1, LeastOf DEF s
<1>6. CASE a = None /\ b = None
  <2>1. I = {}
    BY <1>3, <1>6
  <2> QED
    BY <1>2, <1>6, <2>1 DEF s
<1> QED
  BY <1>4, <1>5, <1>6

\* The blocks read from a slide that can be read.
BlocksOf(codec, xml) == [i \in 1..Len(xml.blocks) |-> BlockFromNode(codec, xml.blocks[i])]

LEMMA BlocksRead ==
    ASSUME NEW codec \in {"pptx", "odp"}, NEW xml, IsList(xml.blocks), \A b \in ToSet(xml.blocks) : IsBlockXml(b),
           \A i \in 1..Len(xml.blocks) : ~BlockUnreadable(xml.blocks[i])
    PROVE  /\ IsList(BlocksOf(codec, xml)) /\ Len(BlocksOf(codec, xml)) = Len(xml.blocks) /\ Len(xml.blocks) \in Nat
           /\ \A i \in 1..Len(xml.blocks) :
                 /\ IsReadBlock(codec, BlocksOf(codec, xml)[i], xml.blocks[i].kind)
                 /\ SameBlock(codec, xml.blocks[i], BlocksOf(codec, xml)[i])
           /\ \A b \in ToSet(BlocksOf(codec, xml)) : IsBlock(b)
<1>1. Len(xml.blocks) \in Nat /\ \A i \in 1..Len(xml.blocks) : xml.blocks[i] \in ToSet(xml.blocks)
  BY ListIs
<1>. DEFINE n == Len(xml.blocks)
            r == BlocksOf(codec, xml)
<1>2. r = [i \in 1..n |-> r[i]] /\ \A i \in 1..n : r[i] = BlockFromNode(codec, xml.blocks[i])
  BY DEF BlocksOf
<1>3. \A i \in 1..n : /\ IsReadBlock(codec, r[i], xml.blocks[i].kind)
                      /\ SameBlock(codec, xml.blocks[i], r[i])
  BY <1>1, <1>2, BlockRead
<1>. HIDE DEF r
<1>4. IsList(r) /\ Len(r) = n
  BY <1>1, <1>2, ListBuilt
<1>5. ToSet(r) = {r[i] : i \in 1..n}
  BY <1>4, ListIs
<1>6. \A b \in ToSet(r) : IsBlock(b)
  BY <1>3, <1>5 DEF IsReadBlock
<1> QED
  BY <1>1, <1>3, <1>4, <1>6 DEF r

LEMMA SlideParts ==
    ASSUME NEW id, NEW title, NEW blocks
    PROVE  /\ Slide(id, title, blocks).id = id /\ Slide(id, title, blocks).title = title
           /\ Slide(id, title, blocks).blocks = blocks
BY DEF Slide

LEMMA SlideIsSome ==
    ASSUME NEW id \in Texts, NEW title, NEW blocks
    PROVE  Slide(id, title, blocks) # NoSlide
BY SlideParts, TextAssumption DEF NoSlide

LEMMA SlideNames ==
    ASSUME NEW n, Numbered(n), NEW i \in 1..n
    PROVE  /\ SlideName[i] \in Texts \ Blanks /\ InAttribute[SlideName[i]] = SlideName[i]
           /\ SlideTitle[i] \in Texts
BY SlideNameAssumption DEF Numbered

LEMMA ThreeReadable ==
    ASSUME NEW a, NEW b, NEW c
    PROVE  Unreadable(<<a, b, c>>, InAttribute) <=>
              \E t \in {a, b, c} : t # None /\ InAttribute[t] = None
<1>. DEFINE s == <<a, b, c>>
<1>1. Len(s) = 3 /\ s[1] = a /\ s[2] = b /\ s[3] = c
  OBVIOUS
<1>. HIDE DEF s
<1>2. Unreadable(s, InAttribute) <=> \E i \in 1..3 : s[i] # None /\ InAttribute[s[i]] = None
  BY <1>1 DEF Unreadable
<1>3. Unreadable(s, InAttribute) <=> \E t \in {a, b, c} : t # None /\ InAttribute[t] = None
  BY <1>1, <1>2
<1> QED
  BY <1>3 DEF s

\* What is read of a slide in a file.
LEMMA SlideRead ==
    ASSUME NEW codec \in {"pptx", "odp"}, NEW n, Numbered(n), NEW index \in 1..n, NEW xml, IsSlideXml(xml),
           NEW ids \in {<<xml.id>>, <<xml.id, xml.name>>}, SlideAt(codec, index, xml, ids) # NoSlide
    PROVE  LET s == SlideAt(codec, index, xml, ids)
           IN /\ s = Slide(s.id, s.title, s.blocks) /\ s.id \in Texts /\ s.title \in Texts
              /\ s.blocks = BlocksOf(codec, xml) /\ Len(s.blocks) = Len(xml.blocks) /\ IsList(s.blocks)
              /\ \A b \in ToSet(s.blocks) : IsBlock(b)
              /\ SameSlide(codec, xml, s)
<1>1. ~SlideUnreadable(xml)
  BY DEF SlideAt
<1>2. /\ {xml.id, xml.title, xml.name} \subseteq TextsAndNone
      /\ IsList(xml.blocks) /\ \A b \in ToSet(xml.blocks) : IsBlockXml(b)
      /\ \A i \in 1..Len(xml.blocks) : ~BlockUnreadable(xml.blocks[i])
      /\ \A t \in {xml.id, xml.title, xml.name} : t # None => InAttribute[t] # None
  BY <1>1, ThreeReadable DEF SlideUnreadable, IsSlideXml
<1>3. \A t \in {xml.id, xml.title, xml.name} : t # None => InAttribute[t] \in Texts
  BY <1>2, Parsed DEF TextsAndNone
<1>4. SlideAt(codec, index, xml, ids) = Slide(First(ids, SlideName[index]),
                                       First(<<xml.title, xml.name>>, SlideTitle[index]), BlocksOf(codec, xml))
  BY <1>1 DEF SlideAt, BlocksOf
<1>5. First(ids, SlideName[index]) \in Texts
  BY <1>3, FirstOfOne, FirstOfTwo, SlideNames
<1>6. First(<<xml.title, xml.name>>, SlideTitle[index]) \in Texts
  BY <1>3, FirstOfTwo, SlideNames
<1>7. /\ IsList(BlocksOf(codec, xml)) /\ Len(BlocksOf(codec, xml)) = Len(xml.blocks)
      /\ \A b \in ToSet(BlocksOf(codec, xml)) : IsBlock(b)
      /\ \A i \in 1..Len(xml.blocks) : SameBlock(codec, xml.blocks[i], BlocksOf(codec, xml)[i])
  BY <1>2, BlocksRead
<1>8. xml.id # None => First(ids, SlideName[index]) = InAttribute[xml.id]
  BY FirstOfOne, FirstOfTwo
<1>9. xml.title # None => First(<<xml.title, xml.name>>, SlideTitle[index]) = InAttribute[xml.title]
  BY FirstOfTwo
<1>. DEFINE s == SlideAt(codec, index, xml, ids)
<1>10. /\ s.id = First(ids, SlideName[index]) /\ s.title = First(<<xml.title, xml.name>>, SlideTitle[index])
       /\ s.blocks = BlocksOf(codec, xml)
  BY <1>4, SlideParts
<1>11. SameSlide(codec, xml, s)
  BY <1>7, <1>8, <1>9, <1>10 DEF SameSlide
<1> QED
  BY <1>4, <1>5, <1>6, <1>7, <1>10, <1>11

\* What comes back of a slide that this code wrote.
SlideRefused(slide) ==
    \/ InAttribute[slide.id] = None \/ InAttribute[slide.title] = None
    \/ \E i \in 1..Len(slide.blocks) : BlockUnreadable(slide.blocks[i])
SlideBack(codec, slide) == Slide(InAttribute[slide.id], InAttribute[slide.title], BlocksOf(codec, slide))

LEMMA SlideWritten ==
    ASSUME NEW slide, IsSlide(slide), NEW name \in TextsAndNone
    PROVE  IsSlideXml(SlideXml(slide, name))
<1>1. /\ slide.id \in TextsAndNone /\ slide.title \in TextsAndNone
      /\ IsList(slide.blocks) /\ \A b \in ToSet(slide.blocks) : IsBlockXml(b)
  BY DEF IsSlide, IsBlock, TextsAndNone
<1>. DEFINE xml == SlideXml(slide, name)
<1>2. /\ xml.id = slide.id /\ xml.title = slide.title /\ xml.name = name /\ xml.blocks = slide.blocks
      /\ xml.shapes \in BOOLEAN /\ xml.transition \in BOOLEAN /\ xml.media \in BOOLEAN
  BY DEF SlideXml
<1>. HIDE DEF xml
<1> QED
  BY <1>1, <1>2 DEF IsSlideXml, xml

LEMMA SlideTrip ==
    ASSUME NEW codec \in {"pptx", "odp"}, NEW slide, IsSlide(slide), NEW name \in TextsAndNone, name # None => InAttribute[name] # None,
           NEW index, NEW ids \in {<<slide.id>>, <<slide.id, name>>}
    PROVE  SlideAt(codec, index, SlideXml(slide, name), ids) =
              IF SlideRefused(slide) THEN NoSlide ELSE SlideBack(codec, slide)
<1>. DEFINE xml == SlideXml(slide, name)
<1>1. xml.id = slide.id /\ xml.title = slide.title /\ xml.name = name /\ xml.blocks = slide.blocks
  BY DEF SlideXml
<1>2. slide.id \in Texts /\ slide.title \in Texts /\ slide.id # None /\ slide.title # None
  BY TextAssumption DEF IsSlide
<1>. HIDE DEF xml
<1>3. Unreadable(<<xml.id, xml.title, xml.name>>, InAttribute) <=>
         InAttribute[slide.id] = None \/ InAttribute[slide.title] = None
  BY <1>1, <1>2, ThreeReadable
<1>4. SlideUnreadable(xml) <=> SlideRefused(slide)
  BY <1>1, <1>3 DEF SlideUnreadable, SlideRefused
<1>5. First(ids, SlideName[index]) = InAttribute[slide.id]
  BY <1>2, FirstOfOne, FirstOfTwo
<1>6. First(<<xml.title, xml.name>>, SlideTitle[index]) = InAttribute[slide.title]
  BY <1>1, <1>2, FirstOfTwo
<1>7. [i \in 1..Len(xml.blocks) |-> BlockFromNode(codec, xml.blocks[i])] = BlocksOf(codec, slide)
  BY <1>1 DEF BlocksOf
<1> QED
  BY <1>4, <1>5, <1>6, <1>7, Zenon DEF SlideAt, SlideBack, xml

LEMMA SlideSettles ==
    ASSUME NEW codec \in {"pptx", "odp"}, NEW slide, IsSlide(slide), ~SlideRefused(slide)
    PROVE  LET r == SlideBack(codec, slide)
           IN /\ IsSlide(r) /\ ~SlideRefused(r) /\ SlideBack(codec, r) = r /\ r # NoSlide
              /\ SameSlide(codec, slide, r)
<1>. DEFINE r == SlideBack(codec, slide)
            id == InAttribute[slide.id]
            title == InAttribute[slide.title]
            blocks == BlocksOf(codec, slide)
<1>1. /\ slide.id \in Texts \ Blanks /\ slide.title \in Texts /\ id # None /\ title # None
      /\ IsList(slide.blocks) /\ \A b \in ToSet(slide.blocks) : IsBlockXml(b)
      /\ \A i \in 1..Len(slide.blocks) : ~BlockUnreadable(slide.blocks[i])
  BY DEF IsSlide, IsBlock, SlideRefused
<1>2. /\ id \in Texts /\ id \notin Blanks /\ InAttribute[id] = id
      /\ title \in Texts /\ InAttribute[title] = title
  BY <1>1, Parsed
<1>3. r.id = id /\ r.title = title /\ r.blocks = blocks /\ r = Slide(id, title, blocks)
  BY SlideParts DEF SlideBack
<1>4. /\ IsList(blocks) /\ Len(blocks) = Len(slide.blocks) /\ Len(slide.blocks) \in Nat
      /\ \A i \in 1..Len(slide.blocks) : /\ IsReadBlock(codec, blocks[i], slide.blocks[i].kind)
                                         /\ SameBlock(codec, slide.blocks[i], blocks[i])
      /\ \A b \in ToSet(blocks) : IsBlock(b)
  BY <1>1, BlocksRead
<1>. HIDE DEF r, id, title, blocks
<1>5. IsSlide(r)
  BY <1>2, <1>3, <1>4 DEF IsSlide
<1>6. \A i \in 1..Len(blocks) : ~BlockUnreadable(blocks[i]) /\ BlockFromNode(codec, blocks[i]) = blocks[i]
  BY <1>4 DEF IsReadBlock
<1>7. ~SlideRefused(r)
  BY <1>1, <1>2, <1>3, <1>6, TextAssumption DEF SlideRefused
<1>8. BlocksOf(codec, r) = blocks
  <2>1. [i \in 1..Len(blocks) |-> BlockFromNode(codec, blocks[i])] = [i \in 1..Len(blocks) |-> blocks[i]]
    BY <1>6
  <2>2. blocks = [i \in 1..Len(blocks) |-> blocks[i]]
    BY <1>4, ListIs
  <2> QED
    BY <1>3, <2>1, <2>2 DEF BlocksOf
<1>9. SlideBack(codec, r) = r
  BY <1>2, <1>3, <1>8 DEF SlideBack
<1>10. r # NoSlide
  BY <1>2, <1>3, SlideIsSome
<1>11. SameSlide(codec, slide, r)
  BY <1>3, <1>4 DEF SameSlide, id, title
<1> QED
  BY <1>5, <1>7, <1>9, <1>10, <1>11 DEF r

\* What comes back of a deck.
DeckRefused(deck) ==
    InAttribute[deck.title] = None \/ \E i \in 1..Len(deck.slides) : SlideRefused(deck.slides[i])
DeckBack(codec, deck) ==
    [title |-> InAttribute[deck.title],
     slides |-> [i \in 1..Len(deck.slides) |-> SlideBack(codec, deck.slides[i])]]
DeckDoc(scheme, deck) == [kind |-> "deck", id |-> [scheme |-> scheme, name |-> deck.title], body |-> deck]

LEMMA DeckSlides ==
    ASSUME NEW deck, IsDeck(deck)
    PROVE  /\ Len(deck.slides) \in Nat /\ Numbered(Len(deck.slides)) /\ IsList(deck.slides)
           /\ deck.title \in Texts \ Blanks /\ deck.title # None
           /\ \A i \in 1..Len(deck.slides) : IsSlide(deck.slides[i])
           /\ ToSet(deck.slides) = {deck.slides[i] : i \in 1..Len(deck.slides)}
<1>1. IsList(deck.slides) /\ \A slide \in ToSet(deck.slides) : IsSlide(slide)
  BY DEF IsDeck
<1>2. /\ Len(deck.slides) \in Nat
      /\ ToSet(deck.slides) = {deck.slides[i] : i \in 1..Len(deck.slides)}
  BY <1>1, ListIs
<1> QED
  BY <1>1, <1>2, TextAssumption DEF IsDeck

LEMMA DeckSettles ==
    ASSUME NEW codec \in {"pptx", "odp"}, NEW deck, IsDeck(deck), ~DeckRefused(deck)
    PROVE  LET r == DeckBack(codec, deck)
           IN /\ IsDeck(r) /\ ~DeckRefused(r) /\ DeckBack(codec, r) = r
              /\ Len(r.slides) = Len(deck.slides) /\ r.title = InAttribute[deck.title]
              /\ \A i \in 1..Len(deck.slides) : r.slides[i] = SlideBack(codec, deck.slides[i])
<1>. DEFINE r == DeckBack(codec, deck)
            n == Len(deck.slides)
            slides == [i \in 1..n |-> SlideBack(codec, deck.slides[i])]
            title == InAttribute[deck.title]
<1>1. /\ n \in Nat /\ Numbered(n) /\ deck.title \in Texts \ Blanks /\ title # None
      /\ \A i \in 1..n : IsSlide(deck.slides[i]) /\ ~SlideRefused(deck.slides[i])
  BY DeckSlides DEF DeckRefused
<1>2. r = [title |-> title, slides |-> slides] /\ r.title = title /\ r.slides = slides
  BY DEF DeckBack
<1>3. title \in Texts \ Blanks /\ InAttribute[title] = title
  BY <1>1, Parsed
<1>4. /\ slides = [i \in 1..n |-> slides[i]]
      /\ \A i \in 1..n : slides[i] = SlideBack(codec, deck.slides[i])
  OBVIOUS
<1>. HIDE DEF r, n, slides, title
<1>5. \A i \in 1..n : /\ IsSlide(slides[i]) /\ ~SlideRefused(slides[i])
                      /\ SlideBack(codec, slides[i]) = slides[i]
  BY <1>1, <1>4, SlideSettles
<1>6. IsList(slides) /\ Len(slides) = n
  BY <1>1, <1>4, ListBuilt
<1>7. ToSet(slides) = {slides[i] : i \in 1..n}
  BY <1>6, ListIs
<1>8. IsDeck(r)
  BY <1>1, <1>2, <1>3, <1>5, <1>6, <1>7 DEF IsDeck
<1>9. ~DeckRefused(r)
  BY <1>1, <1>2, <1>3, <1>5, <1>6, TextAssumption DEF DeckRefused
<1>10. DeckBack(codec, r) = r
  <2>1. [i \in 1..Len(slides) |-> SlideBack(codec, slides[i])] = slides
    BY <1>4, <1>5, <1>6
  <2> QED
    BY <1>2, <1>3, <2>1 DEF DeckBack
<1> QED
  BY <1>2, <1>4, <1>6, <1>8, <1>9, <1>10 DEF r, n, title

AreSlidesOf(codec, slides, deck) ==
    /\ Len(slides) = Len(deck.slides) /\ slides = [i \in 1..Len(deck.slides) |-> slides[i]]
    /\ \A i \in 1..Len(deck.slides) :
          slides[i] = IF SlideRefused(deck.slides[i]) THEN NoSlide ELSE SlideBack(codec, deck.slides[i])

LEMMA DecodedDeckIs ==
    ASSUME NEW codec \in {"pptx", "odp"}, NEW deck, IsDeck(deck), NEW scheme, NEW slides, AreSlidesOf(codec, slides, deck)
    PROVE  DecodedDeck(scheme, deck.title, slides) =
              IF DeckRefused(deck) THEN NoDoc ELSE DeckDoc(scheme, DeckBack(codec, deck))
<1>. DEFINE n == Len(deck.slides)
            title == InAttribute[deck.title]
<1>1. /\ n \in Nat /\ deck.title # None /\ \A i \in 1..n : IsSlide(deck.slides[i])
      /\ Len(slides) = n /\ slides = [i \in 1..n |-> slides[i]]
      /\ \A i \in 1..n :
            slides[i] = IF SlideRefused(deck.slides[i]) THEN NoSlide ELSE SlideBack(codec, deck.slides[i])
  BY DeckSlides DEF AreSlidesOf
<1>2. (IF deck.title = None THEN Presentation ELSE InAttribute[deck.title]) = title
  BY <1>1
<1>. HIDE DEF n, title
<1>3. ToSet(slides) = {slides[i] : i \in 1..n}
  <2>1. IsList(slides) /\ Len(slides) = n
    BY <1>1, ListBuilt
  <2> QED
    BY <2>1, ListIs
<1>4. DecodedDeck(scheme, deck.title, slides) =
         IF title = None \/ NoSlide \in ToSet(slides) THEN NoDoc
         ELSE DeckToDoc([scheme |-> scheme, name |-> title], [title |-> title, slides |-> slides])
  BY <1>2, Zenon DEF DecodedDeck
<1>5. CASE DeckRefused(deck)
  <2>1. title = None \/ NoSlide \in ToSet(slides)
    <3>1. CASE title = None
      BY <3>1
    <3>2. CASE \E i \in 1..n : SlideRefused(deck.slides[i])
      BY <1>1, <1>3, <3>2
    <3> QED
      BY <1>5, <3>1, <3>2 DEF DeckRefused, n, title
  <2> QED
    BY <1>4, <1>5, <2>1, Zenon
<1>6. CASE ~DeckRefused(deck)
  <2>1. IsDeck(DeckBack(codec, deck)) /\ DeckBack(codec, deck).title = title
        /\ \A i \in 1..n : ~SlideRefused(deck.slides[i])
    BY <1>6, DeckSettles DEF title, DeckRefused, n
  <2>2. title # None /\ title \notin Blanks
    BY <1>6, <2>1 DEF DeckRefused, IsDeck, title
  <2>3. \A i \in 1..n : /\ slides[i] = SlideBack(codec, deck.slides[i]) /\ slides[i] # NoSlide
                        /\ slides[i].id \notin Blanks
    <3> SUFFICES ASSUME NEW i \in 1..n
                 PROVE  /\ slides[i] = SlideBack(codec, deck.slides[i]) /\ slides[i] # NoSlide
                        /\ slides[i].id \notin Blanks
      OBVIOUS
    <3>1. slides[i] = SlideBack(codec, deck.slides[i])
      BY <1>1, <2>1
    <3>2. IsSlide(SlideBack(codec, deck.slides[i])) /\ SlideBack(codec, deck.slides[i]) # NoSlide
      BY <1>1, <2>1, SlideSettles
    <3> QED
      BY <3>1, <3>2 DEF IsSlide
  <2>4. [title |-> title, slides |-> slides] = DeckBack(codec, deck)
    <3>1. slides = [i \in 1..n |-> SlideBack(codec, deck.slides[i])]
      BY <1>1, <2>3
    <3> QED
      BY <3>1 DEF DeckBack, n, title
  <2>5. NoSlide \notin ToSet(slides)
    BY <1>3, <2>3
  <2>6. DecodedDeck(scheme, deck.title, slides) =
           DeckToDoc([scheme |-> scheme, name |-> title], DeckBack(codec, deck))
    BY <1>4, <2>2, <2>4, <2>5, Zenon
  <2>7. \A i \in 1..Len(DeckBack(codec, deck).slides) : DeckBack(codec, deck).slides[i].id \notin Blanks
    <3>1. DeckBack(codec, deck).slides = slides /\ Len(slides) = n
      BY <1>1, <2>4
    <3> QED
      BY <2>3, <3>1
  <2>. DEFINE back == DeckBack(codec, deck)
  <2>. HIDE DEF back
  <2>8. DeckToDoc([scheme |-> scheme, name |-> title], back)
        = [kind |-> "deck", id |-> [scheme |-> scheme, name |-> title], body |-> back]
    BY <2>1, <2>2, <2>7 DEF DeckToDoc, back
  <2> QED
    BY <1>6, <2>1, <2>6, <2>8 DEF DeckDoc, back
<1> QED
  BY <1>5, <1>6

IsReadSlide(s) ==
    /\ s = Slide(s.id, s.title, s.blocks) /\ s.id \in Texts /\ s.title \in Texts
    /\ IsList(s.blocks) /\ \A b \in ToSet(s.blocks) : IsBlock(b)
AreReadSlides(slides, n) ==
    /\ slides = [i \in 1..n |-> slides[i]]
    /\ \A i \in 1..n : slides[i] = NoSlide \/ IsReadSlide(slides[i])

\* What is read of slides that some program wrote.
LEMMA DecodedDeckTyped ==
    ASSUME NEW scheme, NEW title \in TextsAndNone, NEW n, Numbered(n),
           NEW slides, AreReadSlides(slides, n),
           DecodedDeck(scheme, title, slides) # NoDoc
    PROVE  LET d == DecodedDeck(scheme, title, slides)
           IN /\ IsDeckDoc(d) /\ d.body.slides = slides /\ Len(slides) = n
              /\ \A i \in 1..n : slides[i] # NoSlide
<1>. DEFINE read == IF title = None THEN Presentation ELSE InAttribute[title]
            deck == [title |-> read, slides |-> slides]
            d == DecodedDeck(scheme, title, slides)
<1>1. n \in Nat /\ IsList(slides) /\ Len(slides) = n
  BY ListBuilt DEF Numbered, AreReadSlides
<1>2. ToSet(slides) = {slides[i] : i \in 1..n}
  BY <1>1, ListIs
<1>. HIDE DEF read
<1>3. /\ read # None /\ NoSlide \notin ToSet(slides)
      /\ d = DeckToDoc([scheme |-> scheme, name |-> read], deck) /\ d # NoDoc
  BY DEF DecodedDeck, read
<1>4. deck.title = read /\ deck.slides = slides /\ deck = [title |-> deck.title, slides |-> deck.slides]
  OBVIOUS
<1>. HIDE DEF deck, d
<1>5. /\ read \notin Blanks /\ \A i \in 1..n : slides[i].id \notin Blanks
      /\ d = [kind |-> "deck", id |-> [scheme |-> scheme, name |-> read], body |-> deck]
  BY <1>1, <1>3, <1>4 DEF DeckToDoc
<1>6. read \in Texts
  <2>1. CASE title = None
    BY <2>1, SlideNameAssumption DEF read
  <2>2. CASE title # None
    BY <1>3, <2>2, Parsed DEF read, TextsAndNone
  <2> QED
    BY <2>1, <2>2
<1>7. \A i \in 1..n : slides[i] # NoSlide /\ IsSlide(slides[i])
  BY <1>2, <1>3, <1>5 DEF IsSlide, AreReadSlides, IsReadSlide
<1>8. IsDeck(deck)
  BY <1>1, <1>2, <1>4, <1>5, <1>6, <1>7 DEF IsDeck
<1>9. IsDeckDoc(d) /\ d.body = deck
  BY <1>5, <1>8 DEF IsDeckDoc
<1> QED
  BY <1>1, <1>4, <1>7, <1>9 DEF d

LEMMA PptxRead ==
    ASSUME NEW f, PptxDecode(f).ok
    PROVE  LET content == f.content
               paths == SlidePaths(content)
               slides == [i \in 1..Len(paths) |-> DecodeSlide(i, content.slides[paths[i]])]
           IN /\ ToSet(paths) \subseteq DOMAIN content.slides
              /\ PptxDecode(f).value = DecodedDeck("pptx", content.title, slides)
              /\ DecodedDeck("pptx", content.title, slides) # NoDoc
              /\ PptxDecode(f).report = Orphans(content)
                    \cup UNION {SlideLosses(path, content.slides[path]) : path \in ToSet(paths)}
BY DEF PptxDecode, Refused, Answered

\* The slide parts in the order of the presentation.
LEMMA PathsList ==
    ASSUME NEW content, IsList(content.order)
    PROVE  LET paths == SlidePaths(content)
           IN /\ Len(paths) = Len(content.order) /\ Len(content.order) \in Nat
              /\ paths = [i \in 1..Len(content.order) |-> paths[i]] /\ IsList(paths)
              /\ ToSet(paths) = {paths[i] : i \in 1..Len(content.order)}
<1>1. Len(content.order) \in Nat
  BY ListIs
<1>. DEFINE paths == SlidePaths(content)
            n == Len(content.order)
<1>2. paths = [i \in 1..n |-> paths[i]]
  BY DEF SlidePaths
<1>. HIDE DEF paths
<1>3. IsList(paths) /\ Len(paths) = n
  BY <1>1, <1>2, ListBuilt
<1>4. ToSet(paths) = {paths[i] : i \in 1..n}
  BY <1>3, ListIs
<1> QED
  BY <1>1, <1>2, <1>3, <1>4 DEF paths

LEMMA PptxReadTyped ==
    ASSUME NEW f, IsPresentation(f.content), PptxDecode(f).ok
    PROVE  LET content == f.content
               paths == SlidePaths(content)
               d == PptxDecode(f).value
           IN /\ IsDeckDoc(d) /\ Len(d.body.slides) = Len(paths)
              /\ \A i \in 1..Len(paths) :
                    SameSlide("pptx", content.slides[paths[i]], d.body.slides[i])
<1>. DEFINE content == f.content
            paths == SlidePaths(content)
            n == Len(paths)
            slides == [i \in 1..n |-> DecodeSlide(i, content.slides[paths[i]])]
            d == DecodedDeck("pptx", content.title, slides)
<1>1. /\ ToSet(paths) \subseteq DOMAIN content.slides
      /\ PptxDecode(f).value = d /\ d # NoDoc
  BY PptxRead
<1>2. /\ content.title \in TextsAndNone /\ IsList(content.order) /\ Numbered(Len(content.order))
      /\ \A path \in DOMAIN content.slides : IsSlideXml(content.slides[path])
  BY DEF IsPresentation
<1>. HIDE DEF content
<1>3. n = Len(content.order) /\ n \in Nat /\ \A i \in 1..n : paths[i] \in ToSet(paths)
  BY <1>2, PathsList
<1>. HIDE DEF paths
<1>4. \A i \in 1..n : IsSlideXml(content.slides[paths[i]])
  BY <1>1, <1>2, <1>3
<1>. HIDE DEF n
<1>5. /\ slides = [i \in 1..n |-> slides[i]]
      /\ \A i \in 1..n : slides[i] = SlideAt("pptx", i, content.slides[paths[i]], <<content.slides[paths[i]].id>>)
  BY DEF DecodeSlide
<1>6. Numbered(n)
  BY <1>2, <1>3
<1>. HIDE DEF slides
<1>7. ASSUME NEW i \in 1..n, slides[i] # NoSlide
      PROVE  /\ IsReadSlide(slides[i])
             /\ SameSlide("pptx", content.slides[paths[i]], slides[i])
  <2>. DEFINE xml == content.slides[paths[i]]
              ids == <<xml.id>>
  <2>1. slides[i] = SlideAt("pptx", i, xml, ids) /\ IsSlideXml(xml) /\ ids \in {<<xml.id>>, <<xml.id, xml.name>>}
    BY <1>4, <1>5, <1>7
  <2>. HIDE DEF xml, ids
  <2>2. /\ IsReadSlide(SlideAt("pptx", i, xml, ids))
        /\ SameSlide("pptx", xml, SlideAt("pptx", i, xml, ids))
    <3>1. SlideAt("pptx", i, xml, ids) # NoSlide
      BY <1>7, <2>1
    <3>2. Numbered(n) /\ i \in 1..n /\ IsSlideXml(xml) /\ ids \in {<<xml.id>>, <<xml.id, xml.name>>}
      BY <1>6, <2>1
    <3> QED
      BY <3>1, <3>2, SlideRead, ZenonT(40) DEF IsReadSlide
  <2> QED
    BY <2>1, <2>2 DEF xml
<1>8. IsDeckDoc(d) /\ d.body.slides = slides /\ Len(slides) = n /\ \A i \in 1..n : slides[i] # NoSlide
  <2>1. AreReadSlides(slides, n)
    BY <1>5, <1>7 DEF AreReadSlides
  <2> QED
    BY <1>1, <1>2, <1>6, <2>1, DecodedDeckTyped
<1>. HIDE DEF d
<1>9. \A i \in 1..n : SameSlide("pptx", content.slides[paths[i]], d.body.slides[i])
  BY <1>7, <1>8
<1> QED
  BY <1>1, <1>8, <1>9, Zenon DEF n, paths, content

LEMMA OdpRead ==
    ASSUME NEW f, OdpDecode(f).ok
    PROVE  LET pages == f.content.pages
               slides == [i \in 1..Len(pages) |-> DecodePage(i, pages[i])]
           IN /\ OdpDecode(f).value = DecodedDeck("odp", f.content.title, slides)
              /\ DecodedDeck("odp", f.content.title, slides) # NoDoc
BY DEF OdpDecode, Refused, Answered

LEMMA OdpReadTyped ==
    ASSUME NEW f, IsPages(f.content), OdpDecode(f).ok
    PROVE  IsDeckDoc(OdpDecode(f).value)
<1>. DEFINE content == f.content
            pages == content.pages
            n == Len(pages)
            slides == [i \in 1..n |-> DecodePage(i, pages[i])]
            d == DecodedDeck("odp", content.title, slides)
<1>1. OdpDecode(f).value = d /\ d # NoDoc
  BY OdpRead
<1>2. /\ content.title \in TextsAndNone /\ IsList(pages) /\ Numbered(n)
      /\ \A xml \in ToSet(pages) : IsSlideXml(xml)
  BY DEF IsPages
<1>. HIDE DEF content, pages
<1>3. \A i \in 1..n : IsSlideXml(pages[i])
  BY <1>2, ListIs
<1>4. /\ slides = [i \in 1..n |-> slides[i]]
      /\ \A i \in 1..n : slides[i] = SlideAt("odp", i, pages[i], <<pages[i].id, pages[i].name>>)
  BY DEF DecodePage
<1>. HIDE DEF n, slides
<1>5. ASSUME NEW i \in 1..n, slides[i] # NoSlide
      PROVE  IsReadSlide(slides[i])
  <2>. DEFINE xml == pages[i]
              ids == <<xml.id, xml.name>>
  <2>1. slides[i] = SlideAt("odp", i, xml, ids) /\ IsSlideXml(xml) /\ ids \in {<<xml.id>>, <<xml.id, xml.name>>}
    BY <1>3, <1>4, <1>5
  <2>. HIDE DEF xml, ids
  <2>2. SlideAt("odp", i, xml, ids) # NoSlide
    BY <1>5, <2>1
  <2>3. Numbered(n) /\ i \in 1..n /\ IsSlideXml(xml) /\ ids \in {<<xml.id>>, <<xml.id, xml.name>>}
    BY <1>2, <1>5, <2>1
  <2>4. IsReadSlide(SlideAt("odp", i, xml, ids))
    BY <2>2, <2>3, SlideRead, Zenon DEF IsReadSlide
  <2> QED
    BY <2>1, <2>4
<1>6. AreReadSlides(slides, n)
  BY <1>4, <1>5 DEF AreReadSlides
<1>7. IsDeckDoc(d)
  BY <1>1, <1>2, <1>6, DecodedDeckTyped
<1> QED
  BY <1>1, <1>7

(***************************************************************************)
(* Decks through files                                                     *)
(***************************************************************************)
LEMMA SlidePathsDiffer ==
    ASSUME NEW i, NEW j, SlidePath(i) = SlidePath(j)
    PROVE  i = j
BY DEF SlidePath

LEMMA RelIdsDiffer ==
    ASSUME NEW i, NEW j, RelId(i) = RelId(j)
    PROVE  i = j
BY DEF RelId

LEMMA DeckDocs ==
    ASSUME NEW d, IsDeckDoc(d)
    PROVE  d.kind = "deck" /\ DocToDeck(d) = d.body /\ IsDeck(d.body) /\ d.body # NoDeck
<1>1. d = [kind |-> "deck", id |-> d.id, body |-> d.body] /\ IsDeck(d.body)
  BY DEF IsDeckDoc
<1>2. d.kind = "deck"
  BY <1>1
<1>3. d.body # NoDeck
  BY <1>1, TextAssumption DEF NoDeck, IsDeck
<1> QED
  BY <1>1, <1>2, <1>3 DEF DocToDeck

LEMMA RelationshipsWritten ==
    ASSUME NEW n \in Nat
    PROVE  LET rels == PresentationRels(n)
           IN /\ IsList(rels) /\ Len(rels) = n + 1
              /\ rels[1] = [id |-> RelId(1), slide |-> FALSE,
                            target |-> <<"ppt/slideMasters/slideMaster1.xml">>]
              /\ \A i \in 1..n : rels[i + 1] = [id |-> RelId(i + 1), slide |-> TRUE, target |-> SlidePath(i)]
<1>. DEFINE master == [id |-> RelId(1), slide |-> FALSE,
                       target |-> <<"ppt/slideMasters/slideMaster1.xml">>]
            slides == [i \in 1..n |-> [id |-> RelId(i + 1), slide |-> TRUE, target |-> SlidePath(i)]]
            S == {master} \cup {slides[i] : i \in 1..n}
<1>1. PresentationRels(n) = <<master>> \o slides
  BY DEF PresentationRels
<1>2. \A i \in 1..n : slides[i] = [id |-> RelId(i + 1), slide |-> TRUE, target |-> SlidePath(i)]
  OBVIOUS
<1>. HIDE DEF master
<1>3. master \in S /\ (\A i \in 1..n : slides[i] \in S) /\ slides = [i \in 1..n |-> slides[i]]
  OBVIOUS
<1>. HIDE DEF slides, S
<1>6. slides \in Seq(S) /\ Len(slides) = n /\ <<master>> \in Seq(S) /\ Len(<<master>>) = 1
      /\ <<master>>[1] = master
  BY <1>3
<1>4. /\ <<master>> \o slides \in Seq(S)
      /\ Len(<<master>> \o slides) = n + 1
      /\ (<<master>> \o slides)[1] = master
      /\ \A i \in 1..n : (<<master>> \o slides)[i + 1] = slides[i]
  BY <1>6
<1>5. IsList(<<master>> \o slides)
  BY <1>4, Listed
<1> QED
  BY <1>1, <1>2, <1>4, <1>5 DEF master

\* The presentation lists its slides where they are.
LEMMA PathsWritten ==
    ASSUME NEW n \in Nat, NEW content, content.rels = PresentationRels(n),
           content.order = [i \in 1..n |-> RelId(i + 1)]
    PROVE  /\ IsList(content.order) /\ Len(content.order) = n
           /\ SlidePaths(content) = [i \in 1..n |-> SlidePath(i)]
<1>. DEFINE rels == content.rels
            order == content.order
<1>1. /\ Len(rels) = n + 1 /\ rels[1].slide = FALSE
      /\ \A i \in 1..n : rels[i + 1].id = RelId(i + 1) /\ rels[i + 1].slide = TRUE
                         /\ rels[i + 1].target = SlidePath(i)
  <2>1. /\ Len(rels) = n + 1
        /\ rels[1] = [id |-> RelId(1), slide |-> FALSE,
                      target |-> <<"ppt/slideMasters/slideMaster1.xml">>]
        /\ \A i \in 1..n : rels[i + 1] = [id |-> RelId(i + 1), slide |-> TRUE, target |-> SlidePath(i)]
    BY RelationshipsWritten, ZenonT(40)
  <2>. HIDE DEF rels
  <2>2. rels[1].slide = FALSE
    BY <2>1
  <2>3. ASSUME NEW i \in 1..n
        PROVE  rels[i + 1].id = RelId(i + 1) /\ rels[i + 1].slide = TRUE
               /\ rels[i + 1].target = SlidePath(i)
    <3>1. rels[i + 1] = [id |-> RelId(i + 1), slide |-> TRUE, target |-> SlidePath(i)]
      BY <2>1, <2>3
    <3> QED
      BY <3>1
  <2> QED
    BY <2>1, <2>2, <2>3
<1>2. order = [i \in 1..n |-> order[i]] /\ \A i \in 1..n : order[i] = RelId(i + 1)
  OBVIOUS
<1>. HIDE DEF rels, order
<1>3. IsList(order) /\ Len(order) = n
  BY <1>2, ListBuilt
<1>4. ASSUME NEW i \in 1..n
      PROVE  LET j == SelectLastInSeq(rels, LAMBDA r : r.slide /\ r.id = order[i])
             IN j = i + 1
  <2>. DEFINE I == {j \in 1..Len(rels) : rels[j].slide /\ rels[j].id = order[i]}
  <2>1. I = {i + 1}
    <3>1. i + 1 \in I
      BY <1>1, <1>2
    <3>2. ASSUME NEW j \in I PROVE j = i + 1
      <4>1. j \in 1..(n + 1) /\ rels[j].slide /\ rels[j].id = RelId(i + 1)
        BY <1>1, <1>2
      <4>2. j # 1
        BY <1>1, <4>1
      <4>3. PICK k \in 1..n : j = k + 1
        <5>1. j - 1 \in 1..n /\ j = (j - 1) + 1
          BY <4>1, <4>2
        <5> QED
          BY <5>1
      <4>4. RelId(k + 1) = RelId(i + 1)
        BY <1>1, <4>1, <4>3
      <4> QED
        BY <4>3, <4>4, RelIdsDiffer
    <3>. HIDE DEF I
    <3> QED
      BY <3>1, <3>2
  <2>2. Max({i + 1}) = i + 1
    BY DEF Max
  <2>. HIDE DEF I
  <2> QED
    BY <2>1, <2>2 DEF SelectLastInSeq, I
<1>5. \A i \in 1..n : SlidePaths(content)[i] = SlidePath(i)
  <2> SUFFICES ASSUME NEW i \in 1..n
               PROVE  SlidePaths(content)[i] = SlidePath(i)
    OBVIOUS
  <2>. DEFINE j == SelectLastInSeq(rels, LAMBDA r : r.slide /\ r.id = order[i])
  <2>1. j = i + 1
    BY <1>4
  <2>2. SlidePaths(content)[i] = IF j = 0 THEN None ELSE rels[j].target
    BY <1>3 DEF SlidePaths, rels, order
  <2>. HIDE DEF j
  <2> QED
    BY <1>1, <2>1, <2>2
<1>6. SlidePaths(content) = [i \in 1..n |-> SlidePaths(content)[i]]
  BY <1>3, PathsList DEF order
<1> QED
  BY <1>3, <1>5, <1>6 DEF order

PartsOfSlides(n) == {SlidePath(i) : i \in 1..n}

LEMMA PptxEncoded ==
    ASSUME NEW d, IsDeckDoc(d)
    PROVE  LET deck == DocToDeck(d)
               n == Len(deck.slides)
               f == PptxEncode(d).value
           IN /\ PptxEncode(d).ok /\ f.format = "pptx"
              /\ f.container = WriteOoxml(PresentationParts \cup FixedParts \cup PartsOfSlides(n))
              /\ f.content.title = deck.title
              /\ f.content.order = [i \in 1..n |-> RelId(i + 1)]
              /\ f.content.rels = PresentationRels(n)
              /\ f.content.overrides = FixedParts \cup Named({"ppt/presentation.xml"}) \cup PartsOfSlides(n)
              /\ DOMAIN f.content.slides = PartsOfSlides(n)
              /\ \A i \in 1..n : f.content.slides[SlidePath(i)] = SlideXml(deck.slides[i], None)
<1>. DEFINE deck == DocToDeck(d)
            n == Len(deck.slides)
            f == PptxEncode(d).value
            chosen(path) == CHOOSE i \in 1..n : SlidePath(i) = path
            slides == [path \in PartsOfSlides(n) |-> SlideXml(deck.slides[chosen(path)], None)]
            content == [title |-> deck.title, order |-> [i \in 1..n |-> RelId(i + 1)],
                        rels |-> PresentationRels(n),
                        overrides |-> FixedParts \cup Named({"ppt/presentation.xml"}) \cup PartsOfSlides(n),
                        slides |-> slides]
            container == WriteOoxml(PresentationParts \cup FixedParts \cup PartsOfSlides(n))
<1>1. deck # NoDeck
  BY DeckDocs
<1>2. PptxEncode(d) = Answered([format |-> "pptx", container |-> container, content |-> content], {})
  BY <1>1, Zenon DEF PptxEncode, PartsOfSlides
<1>. HIDE DEF deck
<1>3. PptxEncode(d).ok /\ f = [format |-> "pptx", container |-> container, content |-> content]
  <2>. HIDE DEF content, container
  <2> QED
    BY <1>2 DEF Answered
<1>4. f.format = "pptx" /\ f.container = container /\ f.content = content
  <2>. HIDE DEF content, container, f
  <2> QED
    BY <1>3
<1>5. \A i \in 1..n : slides[SlidePath(i)] = SlideXml(deck.slides[i], None)
  <2> SUFFICES ASSUME NEW i \in 1..n
               PROVE  slides[SlidePath(i)] = SlideXml(deck.slides[i], None)
    OBVIOUS
  <2>1. chosen(SlidePath(i)) \in 1..n /\ SlidePath(chosen(SlidePath(i))) = SlidePath(i)
    BY Zenon
  <2>2. chosen(SlidePath(i)) = i
    <3>. HIDE DEF chosen
    <3> QED
      BY <2>1, SlidePathsDiffer
  <2>3. SlidePath(i) \in PartsOfSlides(n)
    BY DEF PartsOfSlides
  <2>. HIDE DEF chosen
  <2> QED
    BY <2>2, <2>3
<1>6. DOMAIN slides = PartsOfSlides(n)
  OBVIOUS
<1>. HIDE DEF slides, container
<1>7. /\ content.title = deck.title /\ content.order = [i \in 1..n |-> RelId(i + 1)]
      /\ content.rels = PresentationRels(n) /\ content.slides = slides
      /\ content.overrides = FixedParts \cup Named({"ppt/presentation.xml"}) \cup PartsOfSlides(n)
  OBVIOUS
<1>. HIDE DEF content, f
<1>8. /\ f.content.title = deck.title /\ f.content.order = [i \in 1..n |-> RelId(i + 1)]
      /\ f.content.rels = PresentationRels(n) /\ DOMAIN f.content.slides = PartsOfSlides(n)
      /\ f.content.overrides = FixedParts \cup Named({"ppt/presentation.xml"}) \cup PartsOfSlides(n)
      /\ \A i \in 1..n : f.content.slides[SlidePath(i)] = SlideXml(deck.slides[i], None)
  BY <1>4, <1>5, <1>6, <1>7, Zenon
<1> QED
  BY <1>3, <1>4, <1>8, Zenon DEF deck, container, f

LEMMA PptxFile ==
    ASSUME NEW d, IsDeckDoc(d)
    PROVE  IsFile(PptxEncode(d).value)
<1>. DEFINE deck == DocToDeck(d)
            n == Len(deck.slides)
            f == PptxEncode(d).value
            content == f.content
<1>1. /\ f.format = "pptx" /\ content.title = deck.title /\ content.rels = PresentationRels(n)
      /\ content.order = [i \in 1..n |-> RelId(i + 1)] /\ DOMAIN content.slides = PartsOfSlides(n)
      /\ \A i \in 1..n : content.slides[SlidePath(i)] = SlideXml(deck.slides[i], None)
  BY PptxEncoded
<1>2. IsDeck(deck) /\ deck = d.body
  BY DeckDocs
<1>. HIDE DEF deck, f
<1>3. /\ n \in Nat /\ Numbered(n) /\ deck.title \in Texts /\ \A i \in 1..n : IsSlide(deck.slides[i])
  BY <1>2, DeckSlides
<1>. HIDE DEF n, content
<1>4. IsList(content.order) /\ Len(content.order) = n
  BY <1>1, <1>3, PathsWritten
<1>5. IsList(content.rels)
  BY <1>1, <1>3, RelationshipsWritten
<1>6. \A path \in DOMAIN content.slides : IsSlideXml(content.slides[path])
  <2> SUFFICES ASSUME NEW i \in 1..n
               PROVE  IsSlideXml(content.slides[SlidePath(i)])
    BY <1>1 DEF PartsOfSlides
  <2> QED
    BY <1>1, <1>3, SlideWritten DEF TextsAndNone
<1>7. None \notin DOMAIN content.slides
  BY <1>1, PathAssumption DEF PartsOfSlides, SlidePath
<1>8. IsPresentation(content)
  BY <1>1, <1>3, <1>4, <1>5, <1>6, <1>7 DEF IsPresentation, TextsAndNone
<1> QED
  BY <1>1, <1>8 DEF IsFile, f, content

LEMMA OoxmlWritten ==
    ASSUME NEW parts
    PROVE  /\ OoxmlReadable(WriteOoxml(parts)) /\ WriteOoxml(parts).ole = FALSE
           /\ WriteOoxml(parts).parts = OoxmlParts \cup parts
BY DEF OoxmlReadable, WriteOoxml, Container

LEMMA PptxTrip ==
    ASSUME NEW d, IsDeckDoc(d)
    PROVE  LET answer == PptxDecode(PptxEncode(d).value)
           IN /\ answer.ok <=> ~DeckRefused(d.body)
              /\ answer.ok => answer.value = DeckDoc("pptx", DeckBack("pptx", d.body))
<1>. DEFINE deck == DocToDeck(d)
            n == Len(deck.slides)
            f == PptxEncode(d).value
            content == f.content
            paths == SlidePaths(content)
            slides == [i \in 1..Len(paths) |-> DecodeSlide(i, content.slides[paths[i]])]
            doc1 == DecodedDeck("pptx", content.title, slides)
<1>1. /\ f.format = "pptx" /\ content.title = deck.title /\ content.rels = PresentationRels(n)
      /\ f.container = WriteOoxml(PresentationParts \cup FixedParts \cup PartsOfSlides(n))
      /\ content.order = [i \in 1..n |-> RelId(i + 1)] /\ DOMAIN content.slides = PartsOfSlides(n)
      /\ \A i \in 1..n : content.slides[SlidePath(i)] = SlideXml(deck.slides[i], None)
  BY PptxEncoded
<1>2. IsDeck(deck) /\ deck = d.body
  BY DeckDocs
<1>. HIDE DEF deck, f
<1>3. /\ n \in Nat /\ \A i \in 1..n : IsSlide(deck.slides[i])
  BY <1>2, DeckSlides
<1>. HIDE DEF content
<1>4. paths = [i \in 1..n |-> SlidePath(i)]
  <2>. HIDE DEF n
  <2> QED
    BY <1>1, <1>3, PathsWritten
<1>. HIDE DEF paths
<1>5. Len(paths) = n /\ \A i \in 1..n : paths[i] = SlidePath(i)
  <2>. HIDE DEF n
  <2> QED
    BY <1>3, <1>4
<1>6. ToSet(paths) \subseteq DOMAIN content.slides
  <2>1. ToSet(paths) = {paths[i] : i \in 1..n}
    BY <1>4, <1>5 DEF ToSet
  <2> QED
    BY <1>1, <1>5, <2>1 DEF PartsOfSlides
<1>7. \A i \in 1..n : slides[i] = IF SlideRefused(deck.slides[i]) THEN NoSlide ELSE SlideBack("pptx", deck.slides[i])
  <2> SUFFICES ASSUME NEW i \in 1..n
               PROVE  slides[i] = IF SlideRefused(deck.slides[i]) THEN NoSlide ELSE SlideBack("pptx", deck.slides[i])
    OBVIOUS
  <2>. DEFINE slide == deck.slides[i]
  <2>1. slides[i] = SlideAt("pptx", i, SlideXml(slide, None), <<SlideXml(slide, None).id>>)
    BY <1>1, <1>5 DEF DecodeSlide
  <2>2. SlideXml(slide, None).id = slide.id
    BY DEF SlideXml
  <2>. DEFINE ids == <<slide.id>>
  <2>3. ids \in {<<slide.id>>, <<slide.id, None>>} /\ None \in TextsAndNone /\ IsSlide(slide)
    BY <1>3 DEF TextsAndNone
  <2>. HIDE DEF ids, slide, slides
  <2>4. SlideAt("pptx", i, SlideXml(slide, None), ids) = IF SlideRefused(slide) THEN NoSlide ELSE SlideBack("pptx", slide)
    BY <2>3, SlideTrip
  <2> QED
    BY <2>1, <2>2, <2>4 DEF ids, slide
<1>8. slides = [i \in 1..n |-> slides[i]] /\ Len(slides) = n
  BY <1>3, <1>5
<1>. HIDE DEF slides
<1>9. doc1 = IF DeckRefused(deck) THEN NoDoc ELSE DeckDoc("pptx", DeckBack("pptx", deck))
  <2>1. AreSlidesOf("pptx", slides, deck)
    BY <1>7, <1>8 DEF AreSlidesOf
  <2>2. DecodedDeck("pptx", deck.title, slides)
        = IF DeckRefused(deck) THEN NoDoc ELSE DeckDoc("pptx", DeckBack("pptx", deck))
    BY <1>2, <2>1, DecodedDeckIs
  <2> QED
    BY <1>1, <2>2
<1>10. /\ OoxmlReadable(f.container) /\ PresentationParts \subseteq f.container.parts
  BY <1>1, OoxmlWritten
<1>11. DeckDoc("pptx", DeckBack("pptx", deck)) # NoDoc
  BY DEF DeckDoc, NoDoc
<1>. DEFINE report == Orphans(content) \cup UNION {SlideLosses(path, content.slides[path]) : path \in ToSet(paths)}
<1>12. PptxDecode(f) = IF doc1 = NoDoc THEN Refused ELSE Answered(doc1, report)
  <2>1. /\ f.format = "pptx" /\ OoxmlReadable(f.container) /\ PresentationParts \subseteq f.container.parts
        /\ ToSet(SlidePaths(f.content)) \subseteq DOMAIN f.content.slides
    BY <1>1, <1>6, <1>10 DEF content, paths
  <2>2. PptxDecode(f) =
          LET doc2 == DecodedDeck("pptx", f.content.title,
                         [i \in 1..Len(SlidePaths(f.content)) |->
                              DecodeSlide(i, f.content.slides[SlidePaths(f.content)[i]])])
          IN IF doc2 = NoDoc THEN Refused
             ELSE Answered(doc2, Orphans(f.content)
                     \cup UNION {SlideLosses(path, f.content.slides[path])
                                 : path \in ToSet(SlidePaths(f.content))})
    BY <2>1, Zenon DEF PptxDecode
  <2> QED
    BY <2>2, Zenon DEF content, paths, slides
<1>. HIDE DEF doc1, report
<1>13. PptxDecode(f).ok <=> ~DeckRefused(deck)
  BY <1>9, <1>11, <1>12 DEF Refused, Answered
<1>14. PptxDecode(f).ok => PptxDecode(f).value = DeckDoc("pptx", DeckBack("pptx", deck))
  BY <1>9, <1>11, <1>12, <1>13 DEF Answered
<1> QED
  BY <1>2, <1>13, <1>14, Zenon DEF f

LEMMA OdpEncoded ==
    ASSUME NEW d, IsDeckDoc(d)
    PROVE  LET deck == DocToDeck(d)
               n == Len(deck.slides)
               f == OdpEncode(d).value
           IN /\ OdpEncode(d).ok /\ f.format = "odp" /\ f.container = WriteOdf("presentation")
              /\ f.content.title = deck.title
              /\ f.content.pages = [i \in 1..n |-> PageXml(deck, i)]
<1>. DEFINE deck == DocToDeck(d)
            n == Len(deck.slides)
            f == OdpEncode(d).value
            pages == [i \in 1..n |-> PageXml(deck, i)]
            content == [title |-> deck.title, styled |-> FALSE, pages |-> pages]
            container == WriteOdf("presentation")
<1>1. deck # NoDeck
  BY DeckDocs
<1>2. OdpEncode(d) = Answered([format |-> "odp", container |-> container, content |-> content], {})
  BY <1>1, Zenon DEF OdpEncode
<1>. HIDE DEF deck
<1>3. OdpEncode(d).ok /\ f = [format |-> "odp", container |-> container, content |-> content]
  <2>. HIDE DEF content, container
  <2> QED
    BY <1>2 DEF Answered
<1>4. f.format = "odp" /\ f.container = container /\ f.content = content
  <2>. HIDE DEF content, container, f
  <2> QED
    BY <1>3
<1>. HIDE DEF pages, container
<1>5. content.title = deck.title /\ content.pages = pages
  OBVIOUS
<1>. HIDE DEF content, f
<1>6. f.content.title = deck.title /\ f.content.pages = pages
  BY <1>4, <1>5
<1> QED
  BY <1>3, <1>4, <1>6, Zenon DEF deck, container, f, pages

LEMMA OdpFile ==
    ASSUME NEW d, IsDeckDoc(d)
    PROVE  IsFile(OdpEncode(d).value)
<1>. DEFINE deck == DocToDeck(d)
            n == Len(deck.slides)
            f == OdpEncode(d).value
            content == f.content
            pages == [i \in 1..n |-> PageXml(deck, i)]
<1>1. f.format = "odp" /\ content.title = deck.title /\ content.pages = pages
  BY OdpEncoded
<1>2. IsDeck(deck)
  BY DeckDocs
<1>. HIDE DEF deck, f
<1>3. n \in Nat /\ Numbered(n) /\ deck.title \in Texts /\ \A i \in 1..n : IsSlide(deck.slides[i])
  BY <1>2, DeckSlides
<1>. HIDE DEF n, content
<1>4. \A i \in 1..n : IsSlideXml(pages[i])
  <2> SUFFICES ASSUME NEW i \in 1..n
               PROVE  IsSlideXml(SlideXml(deck.slides[i], SlideName[i]))
    BY DEF PageXml
  <2>1. SlideName[i] \in TextsAndNone
    BY <1>3, SlideNames DEF TextsAndNone
  <2> QED
    BY <1>3, <2>1, SlideWritten
<1>5. pages = [i \in 1..n |-> pages[i]]
  OBVIOUS
<1>. HIDE DEF pages
<1>6. IsList(pages) /\ Len(pages) = n
  BY <1>3, <1>5, ListBuilt
<1>7. \A xml \in ToSet(pages) : IsSlideXml(xml)
  BY <1>4, <1>6, ListIs
<1>8. IsPages(content)
  BY <1>1, <1>3, <1>6, <1>7 DEF IsPages, TextsAndNone
<1> QED
  BY <1>1, <1>8 DEF IsFile, f, content

LEMMA OdpTrip ==
    ASSUME NEW d, IsDeckDoc(d)
    PROVE  LET answer == OdpDecode(OdpEncode(d).value)
           IN /\ answer.ok <=> ~DeckRefused(d.body)
              /\ answer.ok => answer.value = DeckDoc("odp", DeckBack("odp", d.body))
<1>. DEFINE deck == DocToDeck(d)
            n == Len(deck.slides)
            f == OdpEncode(d).value
            content == f.content
            pages == content.pages
            slides == [i \in 1..Len(pages) |-> DecodePage(i, pages[i])]
            doc1 == DecodedDeck("odp", content.title, slides)
<1>1. /\ f.format = "odp" /\ content.title = deck.title /\ f.container = WriteOdf("presentation")
      /\ pages = [i \in 1..n |-> PageXml(deck, i)]
  BY OdpEncoded
<1>2. IsDeck(deck) /\ deck = d.body
  BY DeckDocs
<1>. HIDE DEF deck, f
<1>3. /\ n \in Nat /\ Numbered(n) /\ \A i \in 1..n : IsSlide(deck.slides[i])
  BY <1>2, DeckSlides
<1>. HIDE DEF content
<1>4. Len(pages) = n /\ \A i \in 1..n : pages[i] = SlideXml(deck.slides[i], SlideName[i])
  <2>. HIDE DEF n, pages
  <2> QED
    BY <1>1, <1>3 DEF PageXml
<1>. HIDE DEF pages
<1>5. \A i \in 1..n : slides[i] = IF SlideRefused(deck.slides[i]) THEN NoSlide ELSE SlideBack("odp", deck.slides[i])
  <2> SUFFICES ASSUME NEW i \in 1..n
               PROVE  slides[i] = IF SlideRefused(deck.slides[i]) THEN NoSlide ELSE SlideBack("odp", deck.slides[i])
    OBVIOUS
  <2>. DEFINE slide == deck.slides[i]
              name == SlideName[i]
              xml == SlideXml(slide, name)
  <2>1. slides[i] = SlideAt("odp", i, xml, <<xml.id, xml.name>>)
    BY <1>4 DEF DecodePage
  <2>2. xml.id = slide.id /\ xml.name = name
    BY DEF SlideXml
  <2>. DEFINE ids == <<slide.id, name>>
  <2>3. IsSlide(slide) /\ ids \in {<<slide.id>>, <<slide.id, name>>}
    BY <1>3
  <2>4. name \in TextsAndNone /\ InAttribute[name] # None
    <3>1. name \in Texts \ Blanks /\ InAttribute[name] = name
      <4>. HIDE DEF n
      <4> QED
        BY <1>3, SlideNames
    <3> QED
      BY <3>1, TextAssumption DEF TextsAndNone
  <2>. HIDE DEF ids, slide, slides, name
  <2>5. SlideAt("odp", i, xml, ids) = IF SlideRefused(slide) THEN NoSlide ELSE SlideBack("odp", slide)
    BY <2>3, <2>4, SlideTrip
  <2>. HIDE DEF xml
  <2>6. slides[i] = SlideAt("odp", i, xml, ids)
    BY <2>1, <2>2 DEF ids
  <2> QED
    BY <2>5, <2>6 DEF slide
<1>6. slides = [i \in 1..n |-> slides[i]] /\ Len(slides) = n
  BY <1>3, <1>4
<1>. HIDE DEF slides
<1>7. doc1 = IF DeckRefused(deck) THEN NoDoc ELSE DeckDoc("odp", DeckBack("odp", deck))
  <2>1. AreSlidesOf("odp", slides, deck)
    BY <1>5, <1>6 DEF AreSlidesOf
  <2>2. DecodedDeck("odp", deck.title, slides)
        = IF DeckRefused(deck) THEN NoDoc ELSE DeckDoc("odp", DeckBack("odp", deck))
    BY <1>2, <2>1, DecodedDeckIs
  <2> QED
    BY <1>1, <2>2
<1>8. OdfReadable(f.container) /\ f.container.mimetype = "presentation"
  BY <1>1, OdfWritten
<1>9. DeckDoc("odp", DeckBack("odp", deck)) # NoDoc
  BY DEF DeckDoc, NoDoc
<1>. DEFINE report == DeckStyles(content) \cup UNION {PageLosses(i, pages[i]) : i \in 1..Len(pages)}
<1>10. OdpDecode(f) = IF doc1 = NoDoc THEN Refused ELSE Answered(doc1, report)
  BY <1>1, <1>8, Zenon DEF OdpDecode, content, pages, slides
<1>. HIDE DEF doc1, report
<1>11. OdpDecode(f).ok <=> ~DeckRefused(deck)
  BY <1>7, <1>9, <1>10 DEF Refused, Answered
<1>12. OdpDecode(f).ok => OdpDecode(f).value = DeckDoc("odp", DeckBack("odp", deck))
  BY <1>7, <1>9, <1>10, <1>11 DEF Answered
<1> QED
  BY <1>2, <1>11, <1>12, Zenon DEF f

\* A deck that cannot be read back has a text that cannot stand in XML.
LEMMA DeckUnwritable ==
    ASSUME NEW d, IsDeckDoc(d), DeckRefused(d.body)
    PROVE  Unwritable(d)
<1>. DEFINE deck == d.body
            n == Len(deck.slides)
            S == {deck.title}
                 \cup (UNION {{deck.slides[i].id, deck.slides[i].title} : i \in 1..n})
                 \cup (UNION {UNION {ToSet(b.items) \cup UNION {ToSet(b.rows[r]) : r \in 1..Len(b.rows)}
                                     : b \in ToSet(deck.slides[i].blocks)} : i \in 1..n})
<1>1. d.kind = "deck" /\ IsDeck(deck)
  BY DeckDocs
<1>2. /\ deck.title # None
      /\ \A i \in 1..n : IsSlide(deck.slides[i])
  BY <1>1, DeckSlides
<1>3. TextsOf(d) = S
  BY <1>1 DEF TextsOf
<1>4. \E t \in S : t # None /\ (InElement[t] = None \/ InAttribute[t] = None)
  <2>1. CASE InAttribute[deck.title] = None
    BY <1>2, <2>1
  <2>2. CASE \E i \in 1..n : SlideRefused(deck.slides[i])
    <3>1. PICK i \in 1..n : SlideRefused(deck.slides[i])
      BY <2>2
    <3>. DEFINE slide == deck.slides[i]
    <3>2. /\ slide.id \in Texts /\ slide.title \in Texts /\ IsList(slide.blocks)
          /\ \A b \in ToSet(slide.blocks) : IsBlockXml(b) /\ b.kind \in BlockKinds
      BY <1>2 DEF IsSlide, IsBlock
    <3>3. slide.id # None /\ slide.title # None /\ slide.id \in S /\ slide.title \in S
      BY <3>2, TextAssumption
    <3>4. CASE InAttribute[slide.id] = None \/ InAttribute[slide.title] = None
      BY <3>3, <3>4
    <3>5. CASE \E j \in 1..Len(slide.blocks) : BlockUnreadable(slide.blocks[j])
      <4>1. PICK j \in 1..Len(slide.blocks) : BlockUnreadable(slide.blocks[j])
        BY <3>5
      <4>. DEFINE b == slide.blocks[j]
                  B == ToSet(b.items) \cup UNION {ToSet(b.rows[r]) : r \in 1..Len(b.rows)}
      <4>2. b \in ToSet(slide.blocks)
        BY <3>2, ListIs
      <4>3. \E t \in B : t # None /\ (InElement[t] = None \/ InAttribute[t] = None)
        BY <3>2, <4>1, <4>2, BlockRefused
      <4>4. B \subseteq S
        <5>. DEFINE BlockTexts(k) == {ToSet(c.items) \cup UNION {ToSet(c.rows[r]) : r \in 1..Len(c.rows)}
                                  : c \in ToSet(deck.slides[k].blocks)}
                    rest == {deck.title}
                            \cup (UNION {{deck.slides[k].id, deck.slides[k].title} : k \in 1..n})
        <5>1. B \in BlockTexts(i)
          BY <4>2
        <5>2. S = rest \cup (UNION {UNION BlockTexts(k) : k \in 1..n})
          OBVIOUS
        <5>. HIDE DEF B, S, BlockTexts, rest
        <5>3. B \subseteq UNION BlockTexts(i)
          BY <5>1
        <5>4. UNION BlockTexts(i) \subseteq UNION {UNION BlockTexts(k) : k \in 1..n}
          OBVIOUS
        <5> QED
          BY <5>2, <5>3, <5>4
      <4>. HIDE DEF B, S
      <4> QED
        BY <4>3, <4>4
    <3> QED
      BY <3>1, <3>4, <3>5 DEF SlideRefused
  <2> QED
    BY <2>1, <2>2 DEF DeckRefused
<1>. HIDE DEF S
<1> QED
  BY <1>3, <1>4 DEF Unwritable

LEMMA DeckDocIs ==
    ASSUME NEW deck, IsDeck(deck), NEW scheme
    PROVE  IsDeckDoc(DeckDoc(scheme, deck)) /\ DeckDoc(scheme, deck).body = deck
BY DEF DeckDoc, IsDeckDoc

\* Slides come back in order, each with its blocks and all they hold.
LEMMA SlidesSurvive ==
    ASSUME NEW codec \in {"pptx", "odp"}, NEW deck, IsDeck(deck), ~DeckRefused(deck)
    PROVE  SameSlides(codec, deck, DeckBack(codec, deck))
<1>. DEFINE r == DeckBack(codec, deck)
            n == Len(deck.slides)
<1>1. n \in Nat /\ \A i \in 1..n : IsSlide(deck.slides[i]) /\ ~SlideRefused(deck.slides[i])
  BY DeckSlides DEF DeckRefused
<1>2. /\ Len(r.slides) = n /\ r.title = InAttribute[deck.title]
      /\ \A i \in 1..n : r.slides[i] = SlideBack(codec, deck.slides[i])
  BY DeckSettles
<1>. HIDE DEF r, n
<1>3. \A i \in 1..n : SameSlide(codec, deck.slides[i], r.slides[i])
  BY <1>1, <1>2, SlideSettles
<1> QED
  BY <1>2, <1>3 DEF SameSlides, r, n

\* A package with a deck is closed.
IsClosed(f) ==
    /\ ValidatePptxPackage(f.container)
    /\ PartsReferred(f.content.rels) \cup f.content.overrides \subseteq f.container.parts
    /\ DOMAIN f.content.slides \subseteq f.content.overrides
    /\ IsInjective([i \in 1..Len(f.content.rels) |-> f.content.rels[i].id])
    /\ IsInjective(SlidePaths(f.content))
    /\ ToSet(SlidePaths(f.content)) = DOMAIN f.content.slides

LEMMA PptxClosed ==
    ASSUME NEW d, IsDeckDoc(d)
    PROVE  IsClosed(PptxEncode(d).value)
<1>. DEFINE deck == DocToDeck(d)
            n == Len(deck.slides)
            f == PptxEncode(d).value
            content == f.content
            rels == content.rels
            paths == SlidePaths(content)
            parts == f.container.parts
            own == PartsOfSlides(n)
<1>1. /\ content.rels = PresentationRels(n)
      /\ f.container = WriteOoxml(PresentationParts \cup FixedParts \cup own)
      /\ content.order = [i \in 1..n |-> RelId(i + 1)] /\ DOMAIN content.slides = own
      /\ content.overrides = FixedParts \cup Named({"ppt/presentation.xml"}) \cup own
  BY PptxEncoded
<1>2. n \in Nat
  BY DeckDocs, DeckSlides
<1>. HIDE DEF f, deck
<1>3. f.container.ole = FALSE /\ parts = OoxmlParts \cup (PresentationParts \cup FixedParts \cup own)
  BY <1>1, OoxmlWritten
<1>. HIDE DEF parts, content, n
<1>4. ValidatePptxPackage(f.container)
  BY <1>3 DEF ValidatePptxPackage, parts
<1>5. paths = [i \in 1..n |-> SlidePath(i)]
  BY <1>1, <1>2, PathsWritten
<1>6. /\ Len(rels) = n + 1
      /\ rels[1] = [id |-> RelId(1), slide |-> FALSE,
                    target |-> <<"ppt/slideMasters/slideMaster1.xml">>]
      /\ \A i \in 1..n : rels[i + 1] = [id |-> RelId(i + 1), slide |-> TRUE, target |-> SlidePath(i)]
  BY <1>1, <1>2, RelationshipsWritten
<1>. HIDE DEF paths, rels
<1>7. ASSUME NEW i \in 1..Len(rels)
      PROVE  /\ rels[i].id = RelId(i)
             /\ rels[i].target \in {<<"ppt/slideMasters/slideMaster1.xml">>} \cup own
  <2>1. CASE i = 1
    BY <1>6, <2>1
  <2>2. CASE i # 1
    <3>. DEFINE k == i - 1
    <3>1. k \in 1..n /\ i = k + 1
      BY <1>2, <1>6, <2>2
    <3>. HIDE DEF k
    <3>2. rels[i] = [id |-> RelId(k + 1), slide |-> TRUE, target |-> SlidePath(k)]
      BY <1>6, <3>1
    <3>3. SlidePath(k) \in own
      BY <3>1 DEF PartsOfSlides
    <3> QED
      BY <3>1, <3>2, <3>3
  <2> QED
    BY <2>1, <2>2
<1>8. /\ {<<"ppt/slideMasters/slideMaster1.xml">>} \subseteq FixedParts
      /\ Named({"ppt/presentation.xml", "ppt/slideMasters/slideMaster1.xml",
                "ppt/slideLayouts/slideLayout1.xml", "ppt/theme/theme1.xml"})
           \subseteq PresentationParts \cup FixedParts
      /\ Named({"ppt/presentation.xml"}) \subseteq PresentationParts
  BY DEF FixedParts, PresentationParts, Named
<1>9. PartsReferred(rels) \cup content.overrides \subseteq parts
  <2>1. {rels[i].target : i \in 1..Len(rels)} \subseteq parts
    BY <1>3, <1>7, <1>8
  <2>2. PartsReferred(rels) \subseteq parts
    BY <1>3, <1>8, <2>1 DEF PartsReferred
  <2> QED
    BY <1>1, <1>3, <1>8, <2>2
<1>10. DOMAIN content.slides \subseteq content.overrides
  BY <1>1
<1>11. IsInjective([i \in 1..Len(rels) |-> rels[i].id])
  BY <1>7, RelIdsDiffer DEF IsInjective
<1>12. IsInjective(paths)
  BY <1>5, SlidePathsDiffer DEF IsInjective
<1>13. ToSet(paths) = DOMAIN content.slides
  BY <1>1, <1>5 DEF ToSet, PartsOfSlides
<1> QED
  BY <1>4, <1>9, <1>10, <1>11, <1>12, <1>13 DEF IsClosed, content, rels, paths, parts, f

(***************************************************************************)
(* What an import names as lost                                            *)
(***************************************************************************)
PptxNamed(f, d) ==
    LET content == f.content
    IN /\ Len(d.body.slides) = Len(content.order)
       /\ \A i \in 1..Len(content.order) : \E path \in DOMAIN content.slides :
             /\ IsSlidePart(content, i, path)
             /\ SameSlide("pptx", content.slides[path], d.body.slides[i])
       /\ \A path \in DOMAIN content.slides :
             /\ \E i \in 1..Len(content.order) : IsSlidePart(content, i, path)
             /\ ~content.slides[path].transition /\ ~content.slides[path].media
             /\ content.slides[path].shapes => content.slides[path].blocks # <<>>

\* A slide that has a path has its part.
LEMMA SlidePartFound ==
    ASSUME NEW content, IsList(content.order), IsList(content.rels), NEW i \in 1..Len(content.order),
           SlidePaths(content)[i] # None
    PROVE  IsSlidePart(content, i, SlidePaths(content)[i])
<1>. DEFINE rels == content.rels
            id == content.order[i]
            I == {k \in 1..Len(rels) : rels[k].slide /\ rels[k].id = id}
            j == SelectLastInSeq(rels, LAMBDA r : r.slide /\ r.id = id)
<1>1. Len(rels) \in Nat
  BY ListIs
<1>2. SlidePaths(content)[i] = IF j = 0 THEN None ELSE rels[j].target
  BY DEF SlidePaths
<1>. HIDE DEF rels, id
<1>3. j = IF I # {} THEN Max(I) ELSE 0
  BY DEF SelectLastInSeq
<1>. HIDE DEF I, j
<1>4. j # 0 /\ I # {} /\ j = Max(I)
  BY <1>2, <1>3
<1>5. j \in I /\ \A k \in I : k <= j
  <2>1. I \in SUBSET (1..Len(rels))
    BY DEF I
  <2> QED
    BY <1>1, <1>4, <2>1, LargestIndex
<1>6. j \in 1..Len(rels) /\ rels[j].slide /\ rels[j].id = id
  BY <1>5 DEF I
<1>7. \A k \in (j + 1)..Len(rels) : ~(rels[k].slide /\ rels[k].id = id)
  <2> SUFFICES ASSUME NEW k \in (j + 1)..Len(rels), rels[k].slide, rels[k].id = id
               PROVE  FALSE
    OBVIOUS
  <2>1. k \in 1..Len(rels) /\ ~(k <= j)
    BY <1>1, <1>6
  <2>2. k \in I
    BY <2>1 DEF I
  <2> QED
    BY <1>5, <2>1, <2>2
<1>8. rels[j].target = SlidePaths(content)[i]
  BY <1>2, <1>4
<1> QED
  BY <1>6, <1>7, <1>8 DEF IsSlidePart, rels, id

LEMMA PptxLossesNamed ==
    ASSUME NEW f, IsPresentation(f.content), PptxDecode(f).ok, IsLossless(PptxDecode(f).report)
    PROVE  PptxNamed(f, PptxDecode(f).value)
<1>. DEFINE content == f.content
            paths == SlidePaths(content)
            d == PptxDecode(f).value
            n == Len(content.order)
<1>1. /\ Orphans(content) = {}
      /\ \A path \in ToSet(paths) : SlideLosses(path, content.slides[path]) = {}
  BY PptxRead, ZenonT(40) DEF IsLossless
<1>2. /\ Len(d.body.slides) = Len(paths) /\ ToSet(paths) \subseteq DOMAIN content.slides
      /\ \A i \in 1..Len(paths) : SameSlide("pptx", content.slides[paths[i]], d.body.slides[i])
  BY PptxReadTyped, PptxRead
<1>3. /\ IsList(content.order) /\ IsList(content.rels) /\ None \notin DOMAIN content.slides
      /\ \A path \in DOMAIN content.slides : IsSlideXml(content.slides[path])
  BY DEF IsPresentation
<1>. HIDE DEF content, d
<1>4. Len(paths) = n /\ ToSet(paths) = {paths[i] : i \in 1..n}
  BY <1>3, PathsList
<1>5. \A i \in 1..n : paths[i] \in DOMAIN content.slides /\ IsSlidePart(content, i, paths[i])
  <2> SUFFICES ASSUME NEW i \in 1..n
               PROVE  paths[i] \in DOMAIN content.slides /\ IsSlidePart(content, i, paths[i])
    OBVIOUS
  <2>1. paths[i] \in DOMAIN content.slides
    <3>. HIDE DEF paths
    <3> QED
      BY <1>2, <1>4
  <2>2. paths[i] # None
    BY <1>3, <2>1
  <2> QED
    BY <1>3, <2>1, <2>2, SlidePartFound
<1>. HIDE DEF n, paths
<1>6. \A i \in 1..n : \E path \in DOMAIN content.slides :
         IsSlidePart(content, i, path) /\ SameSlide("pptx", content.slides[path], d.body.slides[i])
  BY <1>2, <1>4, <1>5
<1>7. ASSUME NEW path \in DOMAIN content.slides
      PROVE  /\ \E i \in 1..n : IsSlidePart(content, i, path)
             /\ ~content.slides[path].transition /\ ~content.slides[path].media
             /\ content.slides[path].shapes => content.slides[path].blocks # <<>>
  <2>. DEFINE xml == content.slides[path]
  <2>1. path \in ToSet(paths)
    BY <1>1 DEF Orphans, paths
  <2>2. \E i \in 1..n : IsSlidePart(content, i, path)
    BY <1>4, <1>5, <2>1
  <2>3. /\ {Dropped("transition", path) : b \in {TRUE} \cap {xml.transition}} = {}
        /\ {Dropped("shapes", path) : b \in {TRUE} \cap {xml.shapes /\ xml.blocks = <<>>}} = {}
        /\ {Dropped("media", path) : b \in {TRUE} \cap {xml.media}} = {}
    BY <1>1, <2>1 DEF SlideLosses, ShownLosses
  <2>4. xml.transition \in BOOLEAN /\ xml.media \in BOOLEAN /\ xml.shapes \in BOOLEAN
    BY <1>3 DEF IsSlideXml
  <2>. HIDE DEF xml
  <2>5. ~xml.transition /\ ~xml.media /\ ~(xml.shapes /\ xml.blocks = <<>>)
    <3>1. xml.transition # TRUE /\ xml.media # TRUE /\ (xml.shapes /\ xml.blocks = <<>>) # TRUE
      BY <2>3
    <3> QED
      BY <2>4, <3>1
  <2> QED
    BY <2>2, <2>5 DEF xml
<1>8. Len(d.body.slides) = n
  BY <1>2, <1>4
<1> QED
  BY <1>6, <1>7, <1>8 DEF PptxNamed, content, n, d

XlsxNamed(f, d) ==
    LET content == f.content
    IN /\ Len(content.sheets) = 1 /\ ~content.worksheet.merged
       /\ <<"xl/styles.xml">> \notin f.container.parts
       /\ \A c \in ToSet(content.worksheet.cells) :
             /\ ~c.style
             /\ ~({c.f, c.v, c.is} \subseteq Blanks) => ParseCell(c.at) \in DOMAIN DocToSheet(d).cells

LEMMA XlsxLossesNamed ==
    ASSUME NEW f, IsWorkbook(f.content), XlsxDecode(f).ok, IsLossless(XlsxDecode(f).report)
    PROVE  XlsxNamed(f, XlsxDecode(f).value)
<1>. DEFINE content == f.content
            cells == content.worksheet.cells
            n == Len(cells)
            strings == SharedStrings(content)
            name == InAttribute[content.sheets[1].name]
            writes == XlsxWrites(content)
            sheet == SheetOf(name, writes)
            d == XlsxDecode(f).value
            parts == f.container.parts
<1>1. /\ content.sheets # <<>> /\ sheet # NoSheet
      /\ XlsxLosses(content, parts) = {}
  BY XlsxRead DEF IsLossless
<1>2. DocToSheet(d) = sheet
  BY XlsxReadTyped
<1>3. /\ IsList(content.sheets) /\ IsList(content.strings) /\ ToSet(content.strings) \subseteq Texts
      /\ content.worksheet.merged \in BOOLEAN /\ IsList(cells)
      /\ \A c \in ToSet(cells) : IsXlsxCell(c)
      /\ \A c, e \in ToSet(cells) : ParseCell(c.at) = ParseCell(e.at) => c = e
  BY DEF IsWorkbook
<1>. HIDE DEF content, d, parts
<1>4. n \in Nat /\ \A i \in 1..n : cells[i] \in ToSet(cells)
  BY <1>3, ListIs
<1>5. /\ {Dropped("sheets", Nowhere) : s \in {i \in 2..Len(content.sheets) : TRUE}} = {}
      /\ {Dropped("styles", Nowhere) : p \in parts \cap Named({"xl/styles.xml"})} = {}
      /\ {Dropped("mergeCells", Nowhere) : b \in {TRUE} \cap {content.worksheet.merged}} = {}
      /\ {Dropped("style", ParseCell(cells[i].at)) : i \in {j \in 1..n : cells[j].style}} = {}
  BY <1>1 DEF XlsxLosses
<1>6. Len(content.sheets) = 1
  <2>1. Len(content.sheets) \in Nat \ {0}
    BY <1>1, <1>3, ListFront
  <2>2. 2 \notin 2..Len(content.sheets)
    BY <1>5
  <2>. DEFINE m == Len(content.sheets)
  <2>. HIDE DEF m
  <2>3. m \in Nat \ {0} /\ 2 \notin 2..m
    BY <2>1, <2>2 DEF m
  <2>4. m = 1
    BY <2>3
  <2> QED
    BY <2>4 DEF m
<1>7. ~content.worksheet.merged /\ <<"xl/styles.xml">> \notin parts
  <2>1. content.worksheet.merged # TRUE
    BY <1>5
  <2>2. <<"xl/styles.xml">> \in Named({"xl/styles.xml"})
    BY DEF Named
  <2> QED
    BY <1>3, <1>5, <2>1, <2>2
<1>8. \A i \in 1..n : ~cells[i].style
  BY <1>5
<1>9. /\ Len(strings) \in Nat
      /\ \A i \in 1..Len(strings) : strings[i] = None \/ strings[i] \in Texts
  BY <1>3, SharedStringsRead
<1>10. /\ Len(writes) = n
       /\ \A i \in 1..n : writes[i] = [at |-> cells[i].at, value |-> XlsxDecodeCell(cells[i], strings)]
  BY <1>4, XlsxWritesList
<1>. HIDE DEF strings, writes, name
<1>11. \A i \in 1..n : writes[i].at = cells[i].at /\ writes[i].value = XlsxDecodeCell(cells[i], strings)
  <2> SUFFICES ASSUME NEW i \in 1..n
               PROVE  writes[i].at = cells[i].at /\ writes[i].value = XlsxDecodeCell(cells[i], strings)
    OBVIOUS
  <2>. DEFINE a == cells[i].at
              v == XlsxDecodeCell(cells[i], strings)
  <2>1. writes[i] = [at |-> a, value |-> v]
    BY <1>10
  <2>. HIDE DEF a, v
  <2>2. writes[i].at = a /\ writes[i].value = v
    BY <2>1
  <2> QED
    BY <2>2 DEF a, v
<1>. DEFINE cell == [i \in 1..Len(writes) |-> ParseCell(writes[i].at)]
            last(c) == writes[LastAt(cell, Len(writes), c)].value
<1>12. /\ sheet.cells = [c \in {e \in {cell[i] : i \in 1..Len(writes)} : last(e) # Blank} |-> last(c)]
  <2>1. sheet = IF \E i \in 1..Len(writes) : cell[i] = None \/ writes[i].value = None
                THEN NoSheet
                ELSE [name |-> name,
                      cells |-> [c \in {e \in {cell[i] : i \in 1..Len(writes)} : last(e) # Blank}
                                    |-> last(c)]]
    BY <1>4, <1>10, SheetOfUnfolds
  <2>. HIDE DEF cell, last, sheet
  <2> QED
    BY <1>1, <2>1
<1>13. \A i \in 1..n : cell[i] = ParseCell(cells[i].at)
  BY <1>10, <1>11
<1>. HIDE DEF cell, sheet
<1>14. ASSUME NEW i \in 1..n, ~({cells[i].f, cells[i].v, cells[i].is} \subseteq Blanks)
       PROVE  ParseCell(cells[i].at) \in DOMAIN sheet.cells
  <2>. DEFINE p == cell[i]
              k == LastAt(cell, Len(writes), p)
  <2>1. k \in 1..n /\ cell[k] = p
    BY <1>4, <1>10, <1>14, LastIsThere
  <2>2. cells[k] = cells[i]
    <3>. HIDE DEF k
    <3>1. ParseCell(cells[k].at) = ParseCell(cells[i].at)
      BY <1>13, <2>1
    <3> QED
      BY <1>3, <1>4, <2>1, <3>1
  <2>3. last(p) = XlsxDecodeCell(cells[i], strings)
    <3>. HIDE DEF k
    <3>1. writes[k].value = XlsxDecodeCell(cells[i], strings)
      BY <1>11, <2>1, <2>2
    <3> QED
      BY <3>1 DEF k
  <2>4. XlsxDecodeCell(cells[i], strings) # Blank
    BY <1>3, <1>4, <1>9, <1>14, XlsxCellRead
  <2>5. p \in {cell[j] : j \in 1..Len(writes)}
    BY <1>10
  <2>. HIDE DEF last, k
  <2>6. p \in DOMAIN sheet.cells
    BY <1>12, <2>3, <2>4, <2>5
  <2> QED
    BY <1>13, <2>6
<1>15. \A c \in ToSet(cells) :
          /\ ~c.style
          /\ ~({c.f, c.v, c.is} \subseteq Blanks) => ParseCell(c.at) \in DOMAIN DocToSheet(d).cells
  <2>1. \A c \in ToSet(cells) : \E i \in 1..n : c = cells[i]
    BY <1>3, ListIs
  <2> QED
    BY <1>2, <1>8, <1>14, <2>1
<1> QED
  BY <1>6, <1>7, <1>15 DEF XlsxNamed, content, cells, parts, d

(***************************************************************************)
(* What survives of a sheet                                                *)
(***************************************************************************)
\* A sheet is refused for one of its texts.
LEMMA SheetUnwritable ==
    ASSUME NEW d, IsSheetDoc(d), NEW read,
           \/ InAttribute[DocToSheet(d).name] = None
           \/ \E c \in DOMAIN DocToSheet(d).cells : Kept(read, DocToSheet(d).cells[c], None)
    PROVE  Unwritable(d)
<1>. DEFINE s == DocToSheet(d)
<1>1. IsSheet(s) /\ s.name \in Texts
  BY DEF IsSheetDoc, IsSheet
<1>2. TextsOf(d) = {d.body.name} \cup {d.body.cells[i].value.literal : i \in 1..Len(d.body.cells)}
      /\ d.body.name = s.name
  <2>1. d = SheetToDoc(d.id, s) /\ d.kind = "sheet"
    BY DEF IsSheetDoc
  <2>2. SheetToDoc(d.id, s).body.name = s.name
    BY <1>1, SheetDocs
  <2>. HIDE DEF s
  <2>3. d.body.name = s.name
    BY <2>1, <2>2
  <2> QED
    BY <2>1, <2>3 DEF TextsOf
<1>3. CASE InAttribute[s.name] = None
  BY <1>1, <1>2, <1>3, TextAssumption DEF Unwritable
<1>4. CASE \E c \in DOMAIN s.cells : Kept(read, s.cells[c], None)
  <2>1. PICK c \in DOMAIN s.cells : Kept(read, s.cells[c], None)
    BY <1>4
  <2>. DEFINE v == s.cells[c]
  <2>2. /\ v.kind \in {"text", "formula"} /\ (InElement[v.text] = None \/ InAttribute[v.text] = None)
    BY <2>1 DEF Kept
  <2>3. IsValue(v) /\ v # Blank
    BY <1>1, <2>1 DEF IsSheet
  <2>4. v.text \in Texts
    BY <2>2, <2>3, ValueKinds
  <2>5. ValueToExpr(v).literal = v.text
    BY <2>2 DEF ValueToExpr
  <2>6. ValueToExpr(v).literal \in TextsOf(d)
    BY <2>1, LiteralsAreTexts
  <2>. HIDE DEF v
  <2> QED
    BY <2>2, <2>4, <2>5, <2>6, TextAssumption DEF Unwritable
<1> QED
  BY <1>3, <1>4

LEMMA KeptCells ==
    ASSUME NEW s, NEW name, NEW back,
           NEW read, name = InAttribute[s.name],
           \A c \in DOMAIN s.cells : Kept(read, s.cells[c], back[c]) /\ back[c] # None
    PROVE  SameExactValues(read, s, [name |-> name, cells |-> [c \in DOMAIN s.cells |-> back[c]]])
BY DEF SameExactValues, Kept

XlsxSame(d) ==
    LET answer == XlsxDecode(XlsxEncode(d).value)
    IN IF answer.ok THEN SameExactValues(InElement, DocToSheet(d), DocToSheet(answer.value)) ELSE Unwritable(d)
LEMMA XlsxSurvives ==
    ASSUME NEW d, IsSheetDoc(d)
    PROVE  XlsxSame(d)
<1>. DEFINE s == DocToSheet(d)
            answer == XlsxDecode(XlsxEncode(d).value)
<1>1. IsSheet(s) /\ \A c \in DOMAIN s.cells : IsValue(s.cells[c]) /\ s.cells[c] # Blank
  BY DEF IsSheetDoc, IsSheet
<1>2. /\ answer.ok <=> ~XlsxRefuses(s)
      /\ answer.ok => /\ IsSheet(XlsxBackSheet(s))
                      /\ answer.value = SheetToDoc(ImportedId("xlsx", InAttribute[s.name]), XlsxBackSheet(s))
  BY XlsxTrip
<1>3. \A c \in DOMAIN s.cells : Kept(InElement, s.cells[c], XlsxBack(s.cells[c]))
  BY <1>1, XlsxKept
<1>. HIDE DEF answer
<1>4. CASE answer.ok
  <2>1. DocToSheet(answer.value) = XlsxBackSheet(s)
    BY <1>2, <1>4, SheetDocs
  <2>. DEFINE back == [c \in DOMAIN s.cells |-> XlsxBack(s.cells[c])]
  <2>2. \A c \in DOMAIN s.cells : Kept(InElement, s.cells[c], back[c]) /\ back[c] # None
    BY <1>2, <1>3, <1>4 DEF XlsxRefuses
  <2>3. XlsxBackSheet(s) = [name |-> InAttribute[s.name], cells |-> [c \in DOMAIN s.cells |-> back[c]]]
    BY DEF XlsxBackSheet
  <2>4. SameExactValues(InElement, s, XlsxBackSheet(s))
    <3>. DEFINE name == InAttribute[s.name]
    <3>. HIDE DEF back, s, name
    <3>1. SameExactValues(InElement, s, [name |-> name, cells |-> [c \in DOMAIN s.cells |-> back[c]]])
      BY <2>2, KeptCells DEF name
    <3> QED
      BY <2>3, <3>1 DEF name
  <2> QED
    BY <1>4, <2>1, <2>4 DEF XlsxSame, answer
<1>5. CASE ~answer.ok
  <2>1. \/ InAttribute[s.name] = None
        \/ \E c \in DOMAIN s.cells : Kept(InElement, s.cells[c], None)
    BY <1>2, <1>3, <1>5 DEF XlsxRefuses
  <2>2. Unwritable(d)
    BY <2>1, SheetUnwritable
  <2> QED
    BY <1>5, <2>2 DEF XlsxSame, answer
<1> QED
  BY <1>4, <1>5

OdsSame(d) ==
    LET answer == OdsDecode(OdsEncode(d).value)
    IN IF answer.ok THEN SameExactValues(InAttribute, DocToSheet(d), DocToSheet(answer.value)) ELSE Unwritable(d)
LEMMA OdsSurvives ==
    ASSUME NEW d, IsSheetDoc(d)
    PROVE  OdsSame(d)
<1>. DEFINE s == DocToSheet(d)
            answer == OdsDecode(OdsEncode(d).value)
<1>1. IsSheet(s) /\ \A c \in DOMAIN s.cells : IsValue(s.cells[c]) /\ s.cells[c] # Blank
  BY DEF IsSheetDoc, IsSheet
<1>2. /\ answer.ok <=> ~OdsRefuses(s)
      /\ answer.ok => /\ IsSheet(OdsBackSheet(s))
                      /\ answer.value = SheetToDoc(ImportedId("ods", InAttribute[s.name]), OdsBackSheet(s))
  BY OdsTrip
<1>3. \A c \in DOMAIN s.cells : Kept(InAttribute, s.cells[c], OdsBack(s.cells[c]))
  BY <1>1, OdsKept
<1>. HIDE DEF answer
<1>4. CASE answer.ok
  <2>1. DocToSheet(answer.value) = OdsBackSheet(s)
    BY <1>2, <1>4, SheetDocs
  <2>. DEFINE back == [c \in DOMAIN s.cells |-> OdsBack(s.cells[c])]
  <2>2. \A c \in DOMAIN s.cells : Kept(InAttribute, s.cells[c], back[c]) /\ back[c] # None
    BY <1>2, <1>3, <1>4 DEF OdsRefuses
  <2>3. OdsBackSheet(s) = [name |-> InAttribute[s.name], cells |-> [c \in DOMAIN s.cells |-> back[c]]]
    BY DEF OdsBackSheet
  <2>4. SameExactValues(InAttribute, s, OdsBackSheet(s))
    <3>. DEFINE name == InAttribute[s.name]
    <3>. HIDE DEF back, s, name
    <3>1. SameExactValues(InAttribute, s, [name |-> name, cells |-> [c \in DOMAIN s.cells |-> back[c]]])
      BY <2>2, KeptCells DEF name
    <3> QED
      BY <2>3, <3>1 DEF name
  <2> QED
    BY <1>4, <2>1, <2>4 DEF OdsSame, answer
<1>5. CASE ~answer.ok
  <2>1. \/ InAttribute[s.name] = None
        \/ \E c \in DOMAIN s.cells : Kept(InAttribute, s.cells[c], None)
    BY <1>2, <1>3, <1>5 DEF OdsRefuses
  <2>2. Unwritable(d)
    BY <2>1, SheetUnwritable
  <2> QED
    BY <1>5, <2>2 DEF OdsSame, answer
<1> QED
  BY <1>4, <1>5

RangeSurvived(d, f) ==
    SameRange(DocToSheet(d), DocToSheet(RangeDecode(f).value), RangeBounds(f.content.address))

LEMMA RangeSurvives ==
    ASSUME NEW d, IsSheetDoc(d), NEW target, target.worksheet \in Texts, RangeEncode(d, target).ok
    PROVE  RangeSurvived(d, RangeEncode(d, target).value)
<1>. DEFINE s == DocToSheet(d)
            r == target.range
            f == RangeEncode(d, target).value
            b == RangeBackSheet(target.worksheet, s, r)
            first == RangeBounds(r)[1]
            last == RangeBounds(r)[2]
<1>1. /\ IsRange(r) /\ f.format = "range" /\ f.target = target
      /\ f.content.address = r /\ f.content.width = RangeWidth(r)
      /\ f.content.values = [k \in 1..(RangeWidth(r) * RangeHeight(r)) |->
                                BridgeValue(CellOf(s, RangeAt(r, k)))]
  BY RangeEncoded
<1>2. IsSheet(s)
  BY DEF IsSheetDoc
<1>3. DocToSheet(RangeDecode(f).value) = b
  <2>1. IsSheet(b) /\ RangeDecode(f).value = SheetToDoc(ImportedId("range", target.worksheet), b)
    BY RangeTrip
  <2>. HIDE DEF b, f
  <2> QED
    BY <2>1, SheetDocs
<1>4. RangeCells(r) = {Cell(x, y) : x \in first.column..last.column, y \in first.row..last.row}
  BY <1>1, RangeAddressed
<1>5. ASSUME NEW c \in RangeCells(r)
      PROVE  SameInRange(CellOf(s, c), CellOf(b, c))
  <2>1. CellOf(b, c) = RangeBack(CellOf(s, c))
    BY RangeBackCell
  <2>2. IsValue(CellOf(s, c))
    BY <1>2, CellOfValue
  <2> QED
    BY <2>1, <2>2, RangeKept
<1>6. DOMAIN b.cells \subseteq RangeCells(r)
  BY DEF RangeBackSheet
<1>. HIDE DEF b, s
<1>7. SameRange(s, b, RangeBounds(r))
  <2>. DEFINE addressed == {Cell(column, row) :
                               column \in RangeBounds(r)[1].column..RangeBounds(r)[2].column,
                               row \in RangeBounds(r)[1].row..RangeBounds(r)[2].row}
  <2>1. addressed = RangeCells(r)
    BY <1>4
  <2>. HIDE DEF addressed
  <2>2. /\ DOMAIN b.cells \subseteq addressed
        /\ \A c \in addressed : SameInRange(CellOf(s, c), CellOf(b, c))
    BY <1>5, <1>6, <2>1
  <2> QED
    BY <2>2 DEF SameRange, addressed
<1> QED
  BY <1>1, <1>3, <1>7 DEF RangeSurvived, s

(***************************************************************************)
(* Trips                                                                   *)
(***************************************************************************)
\* What Encode(format, d) is for the range of a given target.
EncodeFor(format, d, target) ==
    CASE format = "xlsx" -> XlsxEncode(d)
      [] format = "range" -> RangeEncode(d, target)
      [] format = "pptx" -> PptxEncode(d)
      [] format = "odf" -> IF d.kind = "sheet" THEN OdsEncode(d) ELSE OdpEncode(d)

\* f is what an export made of d.
IsRangeExport(f, d, target) ==
    IsSheetDoc(d) /\ RangeEncode(d, target).ok /\ f = RangeEncode(d, target).value
IsExport(f, d, target) ==
    \/ IsSheetDoc(d) /\ f = XlsxEncode(d).value
    \/ IsRangeExport(f, d, target)
    \/ IsSheetDoc(d) /\ f = OdsEncode(d).value
    \/ IsDeckDoc(d) /\ f = PptxEncode(d).value
    \/ IsDeckDoc(d) /\ f = OdpEncode(d).value

\* Only a sheet is written to a workbook or a range, only a deck to a
\* presentation.
LEMMA KindsWritten ==
    ASSUME NEW d, IsDoc(d), NEW target
    PROVE  /\ XlsxEncode(d).ok \/ RangeEncode(d, target).ok \/ d.kind = "sheet" => IsSheetDoc(d)
           /\ PptxEncode(d).ok \/ d.kind # "sheet" => IsDeckDoc(d)
<1>1. CASE IsSheetDoc(d)
  <2>1. d.kind = "sheet"
    BY <1>1 DEF IsSheetDoc
  <2>2. DocToDeck(d) = NoDeck
    BY <2>1 DEF DocToDeck
  <2>3. ~PptxEncode(d).ok
    BY <2>2 DEF PptxEncode, Refused
  <2> QED
    BY <1>1, <2>1, <2>3
<1>2. CASE IsDeckDoc(d)
  <2>1. d.kind = "deck"
    BY <1>2, DeckDocs
  <2>2. DocToSheet(d) = NoSheet
    BY <2>1 DEF DocToSheet
  <2>3. ~XlsxEncode(d).ok
    BY <2>2 DEF XlsxEncode, Refused
  <2>4. ~RangeEncode(d, target).ok
    BY <2>2, RangeEncoded
  <2> QED
    BY <1>2, <2>1, <2>3, <2>4
<1> QED
  BY <1>1, <1>2 DEF IsDoc

LEMMA EncodedForIsExport ==
    ASSUME NEW d, IsDoc(d), NEW target, NEW format \in Formats, EncodeFor(format, d, target).ok
    PROVE  IsExport(EncodeFor(format, d, target).value, d, target)
<1>1. CASE format = "xlsx"
  <2>1. EncodeFor(format, d, target) = XlsxEncode(d)
    BY <1>1 DEF EncodeFor
  <2> QED
    BY <2>1, KindsWritten DEF IsExport
<1>2. CASE format = "range"
  <2>1. EncodeFor(format, d, target) = RangeEncode(d, target)
    BY <1>2 DEF EncodeFor
  <2> QED
    BY <2>1, KindsWritten DEF IsExport, IsRangeExport
<1>3. CASE format = "pptx"
  <2>1. EncodeFor(format, d, target) = PptxEncode(d)
    BY <1>3 DEF EncodeFor
  <2> QED
    BY <2>1, KindsWritten DEF IsExport
<1>4. CASE format = "odf"
  <2>1. EncodeFor(format, d, target) = IF d.kind = "sheet" THEN OdsEncode(d) ELSE OdpEncode(d)
    BY <1>4 DEF EncodeFor
  <2>2. CASE d.kind = "sheet"
    BY <2>1, <2>2, KindsWritten DEF IsExport
  <2>3. CASE d.kind # "sheet"
    BY <2>1, <2>3, KindsWritten DEF IsExport
  <2> QED
    BY <2>2, <2>3
<1> QED
  BY <1>1, <1>2, <1>3, <1>4 DEF Formats

\* The codec that an export is read with is the one that wrote it.
LEMMA ExportsRead ==
    ASSUME NEW d
    PROVE  /\ IsSheetDoc(d) => /\ XlsxEncode(d).value.format = "xlsx"
                               /\ Decode(XlsxEncode(d).value) = XlsxDecode(XlsxEncode(d).value)
                               /\ OdsEncode(d).value.format = "ods"
                               /\ Decode(OdsEncode(d).value) = OdsDecode(OdsEncode(d).value)
           /\ IsDeckDoc(d) => /\ PptxEncode(d).value.format = "pptx"
                              /\ Decode(PptxEncode(d).value) = PptxDecode(PptxEncode(d).value)
                              /\ OdpEncode(d).value.format = "odp"
                              /\ Decode(OdpEncode(d).value) = OdpDecode(OdpEncode(d).value)
<1>1. ASSUME NEW f, f.format = "xlsx"
      PROVE  Decode(f) = XlsxDecode(f)
  BY <1>1 DEF Decode
<1>2. ASSUME NEW f, f.format = "pptx"
      PROVE  Decode(f) = PptxDecode(f)
  BY <1>2 DEF Decode
<1>3. ASSUME NEW f, f.format = "ods", f.container.mimetype = "spreadsheet"
      PROVE  Decode(f) = OdsDecode(f)
  BY <1>3 DEF Decode
<1>4. ASSUME NEW f, f.format = "odp", f.container.mimetype = "presentation"
      PROVE  Decode(f) = OdpDecode(f)
  BY <1>4 DEF Decode
<1>5. WriteOdf("spreadsheet").mimetype = "spreadsheet" /\ WriteOdf("presentation").mimetype = "presentation"
  BY OdfWritten
<1>6. ASSUME IsSheetDoc(d)
      PROVE  XlsxEncode(d).value.format = "xlsx" /\ OdsEncode(d).value.format = "ods"
             /\ OdsEncode(d).value.container.mimetype = "spreadsheet"
  BY <1>5, <1>6, XlsxEncoded, OdsEncoded
<1>7. ASSUME IsDeckDoc(d)
      PROVE  PptxEncode(d).value.format = "pptx" /\ OdpEncode(d).value.format = "odp"
             /\ OdpEncode(d).value.container.mimetype = "presentation"
  BY <1>5, <1>7, PptxEncoded, OdpEncoded
<1>8. IsSheetDoc(d) => /\ Decode(XlsxEncode(d).value) = XlsxDecode(XlsxEncode(d).value)
                       /\ Decode(OdsEncode(d).value) = OdsDecode(OdsEncode(d).value)
  BY <1>1, <1>3, <1>6
<1>9. IsDeckDoc(d) => /\ Decode(PptxEncode(d).value) = PptxDecode(PptxEncode(d).value)
                      /\ Decode(OdpEncode(d).value) = OdpDecode(OdpEncode(d).value)
  BY <1>2, <1>4, <1>7
<1> QED
  BY <1>6, <1>7, <1>8, <1>9, Zenon

LEMMA RangeExportRead ==
    ASSUME NEW f, NEW d, NEW target, IsRangeExport(f, d, target)
    PROVE  f.format = "range" /\ f.target = target /\ Decode(f) = RangeDecode(f)
<1>. DEFINE e == RangeEncode(d, target).value
            s == DocToSheet(d)
            r == target.range
<1>1. f = e /\ RangeEncode(d, target).ok
  BY DEF IsRangeExport
<1>2. /\ IsRange(r) /\ e.format = "range" /\ e.target = target
      /\ e.content.address = r /\ e.content.width = RangeWidth(r)
      /\ e.content.values = [k \in 1..(RangeWidth(r) * RangeHeight(r)) |->
                                BridgeValue(CellOf(s, RangeAt(r, k)))]
  BY <1>1, RangeEncoded
<1>3. f.format = "range" /\ f.target = target
  <2>. HIDE DEF e
  <2> QED
    BY <1>1, <1>2
<1> QED
  BY <1>3 DEF Decode

LEMMA ExportIsFile ==
    ASSUME NEW f, NEW d, NEW target, target.worksheet \in Texts, IsExport(f, d, target)
    PROVE  IsFile(f) /\ IsDoc(d)
<1>1. CASE IsRangeExport(f, d, target)
  BY <1>1, RangeFile DEF IsRangeExport, IsDoc
<1>2. CASE IsSheetDoc(d) /\ f \in {XlsxEncode(d).value, OdsEncode(d).value}
  BY <1>2, XlsxFile, OdsFile DEF IsDoc
<1>3. CASE IsDeckDoc(d) /\ f \in {PptxEncode(d).value, OdpEncode(d).value}
  BY <1>3, PptxFile, OdpFile DEF IsDoc
<1> QED
  BY <1>1, <1>2, <1>3, Zenon DEF IsExport

\* Whatever is read of a file is a document.
LEMMA DecodedIsDoc ==
    ASSUME NEW f, IsFile(f), Decode(f).ok
    PROVE  IsDoc(Decode(f).value)
<1>1. CASE f.format = "xlsx" /\ IsWorkbook(f.content)
  <2>1. Decode(f) = XlsxDecode(f)
    BY <1>1 DEF Decode
  <2> QED
    BY <1>1, <2>1, XlsxReadTyped DEF IsDoc
<1>2. CASE f.format = "ods" /\ IsSpreadsheet(f.content)
  <2>1. Decode(f) \in {OdsDecode(f), OdpDecode(f), Refused}
    BY <1>2 DEF Decode
  <2>2. ~OdpDecode(f).ok /\ ~Refused.ok
    BY <1>2 DEF OdpDecode, Refused
  <2>3. Decode(f) = OdsDecode(f)
    BY <2>1, <2>2
  <2> QED
    BY <1>2, <2>3, OdsReadTyped DEF IsDoc
<1>3. CASE f.format = "range" /\ f.target.worksheet \in Texts /\ IsScalars(f.content.values)
  <2>1. Decode(f) = RangeDecode(f)
    BY <1>3 DEF Decode
  <2> QED
    BY <1>3, <2>1, RangeReadTyped DEF IsDoc
<1>4. CASE f.format = "pptx" /\ IsPresentation(f.content)
  <2>1. Decode(f) = PptxDecode(f)
    BY <1>4 DEF Decode
  <2> QED
    BY <1>4, <2>1, PptxReadTyped DEF IsDoc
<1>5. CASE f.format = "odp" /\ IsPages(f.content)
  <2>1. Decode(f) \in {OdsDecode(f), OdpDecode(f), Refused}
    BY <1>5 DEF Decode
  <2>2. ~OdsDecode(f).ok /\ ~Refused.ok
    BY <1>5 DEF OdsDecode, Refused
  <2>3. Decode(f) = OdpDecode(f)
    BY <2>1, <2>2
  <2> QED
    BY <1>5, <2>3, OdpReadTyped DEF IsDoc
<1> QED
  BY <1>1, <1>2, <1>3, <1>4, <1>5 DEF IsFile

LEMMA ExportByFormat ==
    ASSUME NEW f, NEW d, NEW target, IsExport(f, d, target)
    PROVE  \/ f.format = "xlsx" /\ IsSheetDoc(d) /\ f = XlsxEncode(d).value
           \/ f.format = "range" /\ IsRangeExport(f, d, target)
           \/ f.format = "ods" /\ IsSheetDoc(d) /\ f = OdsEncode(d).value
           \/ f.format = "pptx" /\ IsDeckDoc(d) /\ f = PptxEncode(d).value
           \/ f.format = "odp" /\ IsDeckDoc(d) /\ f = OdpEncode(d).value
BY ExportsRead, RangeExportRead, ZenonT(40) DEF IsExport

\* What ExactValuesSurvive says of one trip.
Survived(f, d) ==
    LET answer == Decode(f)
    IN IF answer.ok
       THEN CASE f.format = "range" ->
                   SameRange(DocToSheet(d), DocToSheet(answer.value), RangeBounds(f.content.address))
              [] f.format = "xlsx" ->
                   SameExactValues(InElement, DocToSheet(d), DocToSheet(answer.value))
              [] f.format = "ods" ->
                   SameExactValues(InAttribute, DocToSheet(d), DocToSheet(answer.value))
              [] OTHER -> SameSlides(f.format, d.body, answer.value.body)
       ELSE Unwritable(d)

LEMMA ExportSurvives ==
    ASSUME NEW f, NEW d, NEW target, target.worksheet \in Texts, IsExport(f, d, target)
    PROVE  Survived(f, d)
<1>1. CASE f.format = "xlsx" /\ IsSheetDoc(d) /\ f = XlsxEncode(d).value
  <2>1. Decode(f) = XlsxDecode(f) /\ XlsxSame(d)
    BY <1>1, ExportsRead, XlsxSurvives
  <2> QED
    BY <1>1, <2>1, Zenon DEF Survived, XlsxSame
<1>2. CASE f.format = "ods" /\ IsSheetDoc(d) /\ f = OdsEncode(d).value
  <2>1. Decode(f) = OdsDecode(f) /\ OdsSame(d)
    BY <1>2, ExportsRead, OdsSurvives
  <2> QED
    BY <1>2, <2>1, Zenon DEF Survived, OdsSame
<1>3. CASE f.format = "range" /\ IsRangeExport(f, d, target)
  <2>1. Decode(f) = RangeDecode(f)
    BY <1>3, RangeExportRead
  <2>2. RangeDecode(f).ok
    <3>. DEFINE b == RangeBackSheet(target.worksheet, DocToSheet(d), target.range)
                answer == RangeDecode(RangeEncode(d, target).value)
    <3>1. /\ answer.ok /\ IsSheet(b)
          /\ answer.value = SheetToDoc(ImportedId("range", target.worksheet), b)
      BY <1>3, RangeTrip DEF IsRangeExport
    <3>. HIDE DEF b
    <3> QED
      BY <1>3, <3>1 DEF IsRangeExport
  <2>3. RangeSurvived(d, f)
    <3>1. RangeSurvived(d, RangeEncode(d, target).value)
      BY <1>3, RangeSurvives DEF IsRangeExport
    <3> QED
      BY <1>3, <3>1, Zenon DEF IsRangeExport
  <2> QED
    BY <1>3, <2>1, <2>2, <2>3, Zenon DEF Survived, RangeSurvived
<1>4. ASSUME IsDeckDoc(d), ~Decode(f).ok => DeckRefused(d.body), f.format \in {"pptx", "odp"},
             Decode(f).ok => /\ ~DeckRefused(d.body)
                             /\ Decode(f).value.body = DeckBack(f.format, d.body)
      PROVE  Survived(f, d)
  <2>1. IsDeck(d.body)
    BY <1>4, DeckDocs
  <2>2. CASE Decode(f).ok
    <3>1. SameSlides(f.format, d.body, Decode(f).value.body)
      BY <1>4, <2>1, <2>2, SlidesSurvive
    <3>2. f.format # "range" /\ f.format # "xlsx" /\ f.format # "ods"
      BY <1>4
    <3> QED
      BY <2>2, <3>1, <3>2, Zenon DEF Survived
  <2>3. CASE ~Decode(f).ok
    BY <1>4, <2>3, DeckUnwritable, Zenon DEF Survived
  <2> QED
    BY <2>2, <2>3
<1>5. ASSUME NEW codec, IsDeckDoc(d)
      PROVE  DeckDoc(codec, DeckBack(codec, d.body)).body = DeckBack(codec, d.body)
  BY DEF DeckDoc
<1>6. CASE f.format = "pptx" /\ IsDeckDoc(d) /\ f = PptxEncode(d).value
  <2>. DEFINE answer == PptxDecode(PptxEncode(d).value)
  <2>1. /\ answer.ok <=> ~DeckRefused(d.body)
        /\ answer.ok => answer.value = DeckDoc("pptx", DeckBack("pptx", d.body))
    BY <1>6, PptxTrip
  <2>2. Decode(f) = answer
    BY <1>6, ExportsRead
  <2>. HIDE DEF answer
  <2> QED
    BY <1>4, <1>5, <1>6, <2>1, <2>2
<1>7. CASE f.format = "odp" /\ IsDeckDoc(d) /\ f = OdpEncode(d).value
  <2>. DEFINE answer == OdpDecode(OdpEncode(d).value)
  <2>1. /\ answer.ok <=> ~DeckRefused(d.body)
        /\ answer.ok => answer.value = DeckDoc("odp", DeckBack("odp", d.body))
    BY <1>7, OdpTrip
  <2>2. Decode(f) = answer
    BY <1>7, ExportsRead
  <2>. HIDE DEF answer
  <2> QED
    BY <1>4, <1>5, <1>7, <2>1, <2>2
<1> QED
  BY <1>1, <1>2, <1>3, <1>6, <1>7, ExportByFormat, Zenon

\* d has been through a format and is as it came back from there.
Settled(d, format, target) ==
    \E d0, f0 : /\ IsExport(f0, d0, target) /\ f0.format = format
                /\ Decode(f0).ok /\ d = Decode(f0).value

\* The sheets that come back from a workbook or an OpenDocument spreadsheet
\* are written and read without another loss.
LEMMA XlsxSettled ==
    ASSUME NEW s, IsSheet(s), ~XlsxRefuses(s)
    PROVE  LET b == XlsxBackSheet(s)
           IN ~XlsxRefuses(b) /\ XlsxBackSheet(b) = b /\ InAttribute[b.name] = b.name
              /\ b.name = InAttribute[s.name]
<1>. DEFINE b == XlsxBackSheet(s)
<1>1. /\ s.name \in Texts /\ InAttribute[s.name] # None
      /\ \A c \in DOMAIN s.cells : /\ IsValue(s.cells[c]) /\ s.cells[c] # Blank
                                   /\ XlsxBack(s.cells[c]) # None
  BY DEF IsSheet, XlsxRefuses
<1>2. b.name = InAttribute[s.name] /\ InAttribute[b.name] = b.name /\ b.name # None
  BY <1>1, Parsed DEF XlsxBackSheet
<1>3. /\ DOMAIN b.cells = DOMAIN s.cells
      /\ \A c \in DOMAIN s.cells : b.cells[c] = XlsxBack(s.cells[c])
  BY DEF XlsxBackSheet
<1>4. \A c \in DOMAIN s.cells : XlsxBack(b.cells[c]) = b.cells[c] /\ b.cells[c] # None
  BY <1>1, <1>3, XlsxKept
<1>5. ~XlsxRefuses(b)
  BY <1>2, <1>3, <1>4 DEF XlsxRefuses
<1>6. b.cells = [c \in DOMAIN s.cells |-> b.cells[c]] /\ b = [name |-> b.name, cells |-> b.cells]
  BY DEF XlsxBackSheet
<1>. HIDE DEF b
<1>7. XlsxBackSheet(b) = b
  <2>1. [c \in DOMAIN b.cells |-> XlsxBack(b.cells[c])] = b.cells
    <3>1. [c \in DOMAIN b.cells |-> XlsxBack(b.cells[c])] = [c \in DOMAIN s.cells |-> b.cells[c]]
      BY <1>3, <1>4
    <3> QED
      BY <1>6, <3>1
  <2> QED
    BY <1>2, <1>6, <2>1, Zenon DEF XlsxBackSheet
<1> QED
  BY <1>2, <1>5, <1>7 DEF b

LEMMA OdsSettled ==
    ASSUME NEW s, IsSheet(s), ~OdsRefuses(s)
    PROVE  LET b == OdsBackSheet(s)
           IN ~OdsRefuses(b) /\ OdsBackSheet(b) = b /\ InAttribute[b.name] = b.name
              /\ b.name = InAttribute[s.name]
<1>. DEFINE b == OdsBackSheet(s)
<1>1. /\ s.name \in Texts /\ InAttribute[s.name] # None
      /\ \A c \in DOMAIN s.cells : /\ IsValue(s.cells[c]) /\ s.cells[c] # Blank
                                   /\ OdsBack(s.cells[c]) # None
  BY DEF IsSheet, OdsRefuses
<1>2. b.name = InAttribute[s.name] /\ InAttribute[b.name] = b.name /\ b.name # None
  BY <1>1, Parsed DEF OdsBackSheet
<1>3. /\ DOMAIN b.cells = DOMAIN s.cells
      /\ \A c \in DOMAIN s.cells : b.cells[c] = OdsBack(s.cells[c])
  BY DEF OdsBackSheet
<1>4. \A c \in DOMAIN s.cells : OdsBack(b.cells[c]) = b.cells[c] /\ b.cells[c] # None
  BY <1>1, <1>3, OdsKept
<1>5. ~OdsRefuses(b)
  BY <1>2, <1>3, <1>4 DEF OdsRefuses
<1>6. b.cells = [c \in DOMAIN s.cells |-> b.cells[c]] /\ b = [name |-> b.name, cells |-> b.cells]
  BY DEF OdsBackSheet
<1>. HIDE DEF b
<1>7. OdsBackSheet(b) = b
  <2>1. [c \in DOMAIN b.cells |-> OdsBack(b.cells[c])] = b.cells
    <3>1. [c \in DOMAIN b.cells |-> OdsBack(b.cells[c])] = [c \in DOMAIN s.cells |-> b.cells[c]]
      BY <1>3, <1>4
    <3> QED
      BY <1>6, <3>1
  <2> QED
    BY <1>2, <1>6, <2>1, Zenon DEF OdsBackSheet
<1> QED
  BY <1>2, <1>5, <1>7 DEF b

\* What comes back settled is exported to the same format and read from there
\* as it is.
Unchanged(f, d) == Decode(f).ok /\ Decode(f).value = d

LEMMA XlsxUnchanged ==
    ASSUME NEW d0, IsSheetDoc(d0), XlsxDecode(XlsxEncode(d0).value).ok,
           NEW d, d = XlsxDecode(XlsxEncode(d0).value).value
    PROVE  LET answer == XlsxDecode(XlsxEncode(d).value) IN answer.ok /\ answer.value = d
<1>. DEFINE s == DocToSheet(d0)
            b == XlsxBackSheet(s)
            once == XlsxDecode(XlsxEncode(d0).value)
            answer == XlsxDecode(XlsxEncode(d).value)
<1>1. /\ once.ok <=> ~XlsxRefuses(s)
      /\ once.ok => /\ IsSheet(XlsxBackSheet(s))
                    /\ once.value = SheetToDoc(ImportedId("xlsx", InAttribute[s.name]), XlsxBackSheet(s))
  BY XlsxTrip
<1>2. IsSheet(s)
  BY DEF IsSheetDoc
<1>3. ~XlsxRefuses(b) /\ XlsxBackSheet(b) = b /\ InAttribute[b.name] = b.name
      /\ b.name = InAttribute[s.name]
  BY <1>1, <1>2, XlsxSettled
<1>4. d = SheetToDoc(ImportedId("xlsx", b.name), b) /\ IsSheet(b)
  <2>. HIDE DEF s
  <2> QED
    BY <1>1, <1>3
<1>. HIDE DEF b
<1>5. DocToSheet(d) = b /\ IsSheetDoc(d)
  BY <1>4, SheetDocs
<1>6. LET t == DocToSheet(d)
      IN /\ answer.ok <=> ~XlsxRefuses(t)
         /\ answer.ok => /\ IsSheet(XlsxBackSheet(t))
                         /\ answer.value = SheetToDoc(ImportedId("xlsx", InAttribute[t.name]), XlsxBackSheet(t))
  BY <1>5, XlsxTrip
<1>. HIDE DEF answer
<1>7. answer.ok /\ answer.value = d
  BY <1>3, <1>4, <1>5, <1>6
<1> QED
  BY <1>7 DEF answer

LEMMA OdsUnchanged ==
    ASSUME NEW d0, IsSheetDoc(d0), OdsDecode(OdsEncode(d0).value).ok,
           NEW d, d = OdsDecode(OdsEncode(d0).value).value
    PROVE  LET answer == OdsDecode(OdsEncode(d).value) IN answer.ok /\ answer.value = d
<1>. DEFINE s == DocToSheet(d0)
            b == OdsBackSheet(s)
            once == OdsDecode(OdsEncode(d0).value)
            answer == OdsDecode(OdsEncode(d).value)
<1>1. /\ once.ok <=> ~OdsRefuses(s)
      /\ once.ok => /\ IsSheet(OdsBackSheet(s))
                    /\ once.value = SheetToDoc(ImportedId("ods", InAttribute[s.name]), OdsBackSheet(s))
  BY OdsTrip
<1>2. IsSheet(s)
  BY DEF IsSheetDoc
<1>3. ~OdsRefuses(b) /\ OdsBackSheet(b) = b /\ InAttribute[b.name] = b.name
      /\ b.name = InAttribute[s.name]
  BY <1>1, <1>2, OdsSettled
<1>4. d = SheetToDoc(ImportedId("ods", b.name), b) /\ IsSheet(b)
  <2>. HIDE DEF s
  <2> QED
    BY <1>1, <1>3
<1>. HIDE DEF b
<1>5. DocToSheet(d) = b /\ IsSheetDoc(d)
  BY <1>4, SheetDocs
<1>6. LET t == DocToSheet(d)
      IN /\ answer.ok <=> ~OdsRefuses(t)
         /\ answer.ok => /\ IsSheet(OdsBackSheet(t))
                         /\ answer.value = SheetToDoc(ImportedId("ods", InAttribute[t.name]), OdsBackSheet(t))
  BY <1>5, OdsTrip
<1>. HIDE DEF answer
<1>7. answer.ok /\ answer.value = d
  BY <1>3, <1>4, <1>5, <1>6
<1> QED
  BY <1>7 DEF answer

LEMMA RangeUnchanged ==
    ASSUME NEW target, target.worksheet \in Texts,
           NEW d0, IsSheetDoc(d0), RangeEncode(d0, target).ok,
           NEW d, d = RangeDecode(RangeEncode(d0, target).value).value,
           RangeEncode(d, target).ok
    PROVE  LET answer == RangeDecode(RangeEncode(d, target).value) IN answer.ok /\ answer.value = d
<1>. DEFINE s == DocToSheet(d0)
            name == target.worksheet
            b == RangeBackSheet(name, s, target.range)
            once == RangeDecode(RangeEncode(d0, target).value)
            answer == RangeDecode(RangeEncode(d, target).value)
<1>1. /\ once.ok /\ IsSheet(b)
      /\ once.value = SheetToDoc(ImportedId("range", name), b)
  BY RangeTrip
<1>2. IsSheet(s)
  BY DEF IsSheetDoc
<1>3. RangeBackSheet(name, b, target.range) = b
  <2>. HIDE DEF s
  <2> QED
    BY <1>2, RangeSettled
<1>. HIDE DEF b
<1>4. DocToSheet(d) = b /\ IsSheetDoc(d)
  BY <1>1, SheetDocs
<1>5. LET c == RangeBackSheet(name, DocToSheet(d), target.range)
      IN /\ answer.ok /\ IsSheet(c)
         /\ answer.value = SheetToDoc(ImportedId("range", name), c)
  BY <1>4, RangeTrip
<1>. HIDE DEF answer
<1>6. answer.ok /\ answer.value = d
  BY <1>1, <1>3, <1>4, <1>5
<1> QED
  BY <1>6 DEF answer

LEMMA PptxUnchanged ==
    ASSUME NEW d0, IsDeckDoc(d0), PptxDecode(PptxEncode(d0).value).ok,
           NEW d, d = PptxDecode(PptxEncode(d0).value).value
    PROVE  LET answer == PptxDecode(PptxEncode(d).value) IN answer.ok /\ answer.value = d
<1>. DEFINE r == DeckBack("pptx", d0.body)
            once == PptxDecode(PptxEncode(d0).value)
            answer == PptxDecode(PptxEncode(d).value)
<1>1. /\ once.ok <=> ~DeckRefused(d0.body)
      /\ once.ok => once.value = DeckDoc("pptx", DeckBack("pptx", d0.body))
  BY PptxTrip
<1>2. IsDeck(d0.body)
  BY DeckDocs
<1>3. IsDeck(r) /\ ~DeckRefused(r) /\ DeckBack("pptx", r) = r
  BY <1>1, <1>2, DeckSettles
<1>4. d = DeckDoc("pptx", r)
  BY <1>1
<1>. HIDE DEF r
<1>5. IsDeckDoc(d) /\ d.body = r
  BY <1>3, <1>4, DeckDocIs
<1>6. /\ answer.ok <=> ~DeckRefused(d.body)
      /\ answer.ok => answer.value = DeckDoc("pptx", DeckBack("pptx", d.body))
  BY <1>5, PptxTrip
<1>. HIDE DEF answer
<1>7. answer.ok /\ answer.value = d
  BY <1>3, <1>4, <1>5, <1>6
<1> QED
  BY <1>7 DEF answer

LEMMA OdpUnchanged ==
    ASSUME NEW d0, IsDeckDoc(d0), OdpDecode(OdpEncode(d0).value).ok,
           NEW d, d = OdpDecode(OdpEncode(d0).value).value
    PROVE  LET answer == OdpDecode(OdpEncode(d).value) IN answer.ok /\ answer.value = d
<1>. DEFINE r == DeckBack("odp", d0.body)
            once == OdpDecode(OdpEncode(d0).value)
            answer == OdpDecode(OdpEncode(d).value)
<1>1. /\ once.ok <=> ~DeckRefused(d0.body)
      /\ once.ok => once.value = DeckDoc("odp", DeckBack("odp", d0.body))
  BY OdpTrip
<1>2. IsDeck(d0.body)
  BY DeckDocs
<1>3. IsDeck(r) /\ ~DeckRefused(r) /\ DeckBack("odp", r) = r
  BY <1>1, <1>2, DeckSettles
<1>4. d = DeckDoc("odp", r)
  BY <1>1
<1>. HIDE DEF r
<1>5. IsDeckDoc(d) /\ d.body = r
  BY <1>3, <1>4, DeckDocIs
<1>6. /\ answer.ok <=> ~DeckRefused(d.body)
      /\ answer.ok => answer.value = DeckDoc("odp", DeckBack("odp", d.body))
  BY <1>5, OdpTrip
<1>. HIDE DEF answer
<1>7. answer.ok /\ answer.value = d
  BY <1>3, <1>4, <1>5, <1>6
<1> QED
  BY <1>7 DEF answer

LEMMA SettledUnchanged ==
    ASSUME NEW f, NEW d, NEW target, target.worksheet \in Texts,
           IsExport(f, d, target), Settled(d, f.format, target)
    PROVE  Unchanged(f, d)
<1>1. PICK d0, f0 : /\ IsExport(f0, d0, target) /\ f0.format = f.format
                    /\ Decode(f0).ok /\ d = Decode(f0).value
  BY DEF Settled
<1>2. CASE f.format = "xlsx"
  <2>1. f = XlsxEncode(d).value /\ IsSheetDoc(d) /\ IsSheetDoc(d0) /\ f0 = XlsxEncode(d0).value
    BY <1>1, <1>2, ExportByFormat
  <2>2. Decode(f) = XlsxDecode(XlsxEncode(d).value) /\ Decode(f0) = XlsxDecode(XlsxEncode(d0).value)
    BY <2>1, ExportsRead
  <2> QED
    BY <1>1, <2>1, <2>2, XlsxUnchanged DEF Unchanged
<1>3. CASE f.format = "ods"
  <2>1. f = OdsEncode(d).value /\ IsSheetDoc(d) /\ IsSheetDoc(d0) /\ f0 = OdsEncode(d0).value
    BY <1>1, <1>3, ExportByFormat
  <2>2. Decode(f) = OdsDecode(OdsEncode(d).value) /\ Decode(f0) = OdsDecode(OdsEncode(d0).value)
    BY <2>1, ExportsRead
  <2> QED
    BY <1>1, <2>1, <2>2, OdsUnchanged DEF Unchanged
<1>4. CASE f.format = "range"
  <2>1. IsRangeExport(f, d, target) /\ IsRangeExport(f0, d0, target)
    BY <1>1, <1>4, ExportByFormat
  <2>2. Decode(f) = RangeDecode(f) /\ Decode(f0) = RangeDecode(f0)
    BY <2>1, RangeExportRead
  <2>3. /\ RangeEncode(d, target).ok /\ f = RangeEncode(d, target).value
        /\ IsSheetDoc(d0) /\ RangeEncode(d0, target).ok /\ f0 = RangeEncode(d0, target).value
    BY <2>1 DEF IsRangeExport
  <2>4. d = RangeDecode(RangeEncode(d0, target).value).value
    BY <1>1, <2>2, <2>3, Zenon
  <2>. DEFINE answer == RangeDecode(RangeEncode(d, target).value)
  <2>5. answer.ok /\ answer.value = d
    BY <2>3, <2>4, RangeUnchanged
  <2>6. Decode(f) = answer
    BY <2>2, <2>3, Zenon
  <2>. HIDE DEF answer
  <2> QED
    BY <2>5, <2>6 DEF Unchanged
<1>5. CASE f.format = "pptx"
  <2>1. f = PptxEncode(d).value /\ IsDeckDoc(d) /\ IsDeckDoc(d0) /\ f0 = PptxEncode(d0).value
    BY <1>1, <1>5, ExportByFormat
  <2>2. Decode(f) = PptxDecode(PptxEncode(d).value) /\ Decode(f0) = PptxDecode(PptxEncode(d0).value)
    BY <2>1, ExportsRead
  <2> QED
    BY <1>1, <2>1, <2>2, PptxUnchanged DEF Unchanged
<1>6. CASE f.format = "odp"
  <2>1. f = OdpEncode(d).value /\ IsDeckDoc(d) /\ IsDeckDoc(d0) /\ f0 = OdpEncode(d0).value
    BY <1>1, <1>6, ExportByFormat
  <2>2. Decode(f) = OdpDecode(OdpEncode(d).value) /\ Decode(f0) = OdpDecode(OdpEncode(d0).value)
    BY <2>1, ExportsRead
  <2> QED
    BY <1>1, <2>1, <2>2, OdpUnchanged DEF Unchanged
<1> QED
  BY <1>2, <1>3, <1>4, <1>5, <1>6, ExportByFormat

\* An exported presentation is closed.
LEMMA ExportClosed ==
    ASSUME NEW f, NEW d, NEW target, IsExport(f, d, target), f.format = "pptx"
    PROVE  IsClosed(f)
BY ExportByFormat, PptxClosed

\* What LossesNamed says of one import.
NamedLosses(f) ==
    LET d == Decode(f).value
    IN Decode(f).ok /\ IsLossless(Decode(f).report) =>
         CASE f.format = "xlsx" -> XlsxNamed(f, d)
           [] f.format = "pptx" -> PptxNamed(f, d)
           [] f.format = "range" -> RangeNamed(f, d)
           [] OTHER -> TRUE

LEMMA FileLosses ==
    ASSUME NEW f, IsFile(f)
    PROVE  NamedLosses(f)
<1>1. CASE f.format = "xlsx" /\ IsWorkbook(f.content)
  <2>1. Decode(f) = XlsxDecode(f)
    BY <1>1 DEF Decode
  <2>2. XlsxDecode(f).ok /\ IsLossless(XlsxDecode(f).report) => XlsxNamed(f, XlsxDecode(f).value)
    BY <1>1, XlsxLossesNamed
  <2> QED
    BY <1>1, <2>1, <2>2, Zenon DEF NamedLosses
<1>2. CASE f.format = "pptx" /\ IsPresentation(f.content)
  <2>1. Decode(f) = PptxDecode(f)
    BY <1>2 DEF Decode
  <2>2. PptxDecode(f).ok /\ IsLossless(PptxDecode(f).report) => PptxNamed(f, PptxDecode(f).value)
    BY <1>2, PptxLossesNamed
  <2> QED
    BY <1>2, <2>1, <2>2, Zenon DEF NamedLosses
<1>3. CASE /\ f.format = "range" /\ f.target.worksheet \in Texts
           /\ IsScalars(f.content.values) /\ f.content.width \in Nat \ {0}
  <2>1. Decode(f) = RangeDecode(f)
    BY <1>3 DEF Decode
  <2>2. RangeDecode(f).ok => RangeNamed(f, RangeDecode(f).value)
    BY <1>3, RangeLossesNamed
  <2> QED
    BY <1>3, <2>1, <2>2, Zenon DEF NamedLosses
<1>4. CASE f.format \notin {"xlsx", "pptx", "range"}
  BY <1>4, Zenon DEF NamedLosses
<1> QED
  BY <1>1, <1>2, <1>3, <1>4, Zenon DEF IsFile

(***************************************************************************)
(* Edits                                                                   *)
(***************************************************************************)
LEMMA SetCellTyped ==
    ASSUME NEW s, IsSheet(s), NEW c \in Cells, NEW v, IsValue(v)
    PROVE  IsSheet(SetCell(s, c, v))
<1>. DEFINE D == DOMAIN s.cells
            r == SetCell(s, c, v)
<1>1. /\ s.name \in Texts /\ IsFiniteSet(D) /\ D \subseteq Cells
      /\ \A x \in D : IsValue(s.cells[x]) /\ s.cells[x] # Blank
  BY DEF IsSheet
<1>2. CASE v = Blank
  <2>. DEFINE E == D \ {c}
              cells == [x \in E |-> s.cells[x]]
  <2>1. r = [name |-> s.name, cells |-> cells]
    BY <1>2 DEF SetCell
  <2>2. IsFiniteSet(E) /\ E \subseteq Cells
    BY <1>1, FS_Subset
  <2>3. DOMAIN cells = E /\ \A x \in E : IsValue(cells[x]) /\ cells[x] # Blank
    BY <1>1
  <2>4. cells = [x \in DOMAIN cells |-> cells[x]]
    OBVIOUS
  <2>. HIDE DEF E, cells, r
  <2> QED
    BY <1>1, <2>1, <2>2, <2>3, <2>4 DEF IsSheet, r
<1>3. CASE v # Blank
  <2>. DEFINE E == D \cup {c}
              cells == [x \in E |-> IF x = c THEN v ELSE s.cells[x]]
  <2>1. r = [name |-> s.name, cells |-> cells]
    BY <1>3 DEF SetCell, WithCell
  <2>2. IsFiniteSet(E) /\ E \subseteq Cells
    BY <1>1, FS_AddElement
  <2>3. DOMAIN cells = E /\ \A x \in E : IsValue(cells[x]) /\ cells[x] # Blank
    BY <1>1, <1>3
  <2>4. cells = [x \in DOMAIN cells |-> cells[x]]
    OBVIOUS
  <2>. HIDE DEF E, cells, r
  <2> QED
    BY <1>1, <2>1, <2>2, <2>3, <2>4 DEF IsSheet, r
<1> QED
  BY <1>2, <1>3

\* The cell as it was, set again after another value.
LEMMA SetCellUndone ==
    ASSUME NEW s, IsSheet(s), NEW c, NEW v
    PROVE  SetCell(SetCell(s, c, v), c, CellOf(s, c)) = s
<1>. DEFINE D == DOMAIN s.cells
            m == SetCell(s, c, v)
            w == CellOf(s, c)
            b == SetCell(m, c, w)
<1>1. s = [name |-> s.name, cells |-> [x \in D |-> s.cells[x]]]
      /\ \A x \in D : s.cells[x] # Blank
  BY DEF IsSheet
<1>2. /\ m.name = s.name /\ (DOMAIN m.cells) \ {c} = D \ {c}
      /\ \A x \in D \ {c} : m.cells[x] = s.cells[x]
  <2>1. CASE v = Blank
    <3>1. m = [name |-> s.name, cells |-> [x \in D \ {c} |-> s.cells[x]]]
      BY <2>1 DEF SetCell
    <3>. HIDE DEF m, D
    <3> QED
      BY <3>1
  <2>2. CASE v # Blank
    <3>1. m = [name |-> s.name, cells |-> [x \in D \cup {c} |-> IF x = c THEN v ELSE s.cells[x]]]
      BY <2>2 DEF SetCell, WithCell
    <3>. HIDE DEF m, D
    <3> QED
      BY <3>1
  <2> QED
    BY <2>1, <2>2
<1>. HIDE DEF m
<1>3. CASE c \in D
  <2>1. w = s.cells[c] /\ w # Blank
    BY <1>1, <1>3 DEF CellOf
  <2>2. b = [name |-> m.name, cells |-> [x \in (DOMAIN m.cells) \cup {c} |-> IF x = c THEN w ELSE m.cells[x]]]
    BY <2>1 DEF SetCell, WithCell
  <2>3. (DOMAIN m.cells) \cup {c} = D
    BY <1>2, <1>3
  <2>4. [x \in D |-> IF x = c THEN w ELSE m.cells[x]] = [x \in D |-> s.cells[x]]
    BY <1>2, <2>1
  <2>5. b = [name |-> s.name, cells |-> [x \in D |-> s.cells[x]]]
    BY <1>2, <2>2, <2>3, <2>4
  <2> QED
    BY <1>1, <2>5 DEF m
<1>4. CASE c \notin D
  <2>1. w = Blank
    BY <1>4 DEF CellOf
  <2>2. b = [name |-> m.name, cells |-> [x \in (DOMAIN m.cells) \ {c} |-> m.cells[x]]]
    BY <2>1 DEF SetCell
  <2>3. (DOMAIN m.cells) \ {c} = D /\ D \ {c} = D
    BY <1>2, <1>4
  <2>4. [x \in D |-> m.cells[x]] = [x \in D |-> s.cells[x]]
    BY <1>2, <2>3
  <2>5. b = [name |-> s.name, cells |-> [x \in D |-> s.cells[x]]]
    BY <1>2, <2>2, <2>3, <2>4
  <2> QED
    BY <1>1, <2>5 DEF m
<1> QED
  BY <1>3, <1>4

IsSetCell(edit, on) ==
    IsSheetDoc(on) /\ \E c \in Cells : \E v : IsValue(v) /\ edit = SetCellEdit(on, c, v)
IsDraft(draft) == IsSetCell(draft.edit, draft.on) \/ draft.edit.domain = "office/cell"
IsApplied(a) ==
    /\ IsSetCell(a.edit, a.on) /\ IsSheetDoc(a.before)
    /\ a.after = ApplySheetEdit(a.before, a.edit) /\ a.after # NoDoc

\* What an edit that sets a cell does, where it is applied at all.
LEMMA EditApplied ==
    ASSUME NEW d, IsDoc(d), NEW c \in Cells, NEW v, IsValue(v),
           NEW edit, edit.op = SetCellExpr(c, v)
    PROVE  LET result == ApplySheetEdit(d, edit)
               s == SetCell(DocToSheet(d), c, v)
           IN /\ ParseCell(edit.op.at) = c
              /\ result # NoDoc <=> /\ IsSheetDoc(d) /\ edit.domain = "office/sheet"
                                    /\ edit.doc = d.id
              /\ result # NoDoc => /\ result = SheetToDoc(d.id, s) /\ IsSheet(s)
                                   /\ IsSheetDoc(result) /\ result.id = d.id
                                   /\ DocToSheet(result) = s
<1>. DEFINE result == ApplySheetEdit(d, edit)
            s == SetCell(DocToSheet(d), c, v)
<1>1. /\ edit.op.kind = "set-cell" /\ edit.op.at = Display(c) /\ edit.op.value = ValueToExpr(v)
  BY DEF SetCellExpr
<1>2. ParseCell(edit.op.at) = c /\ c # None
  BY <1>1, CellsReadBack, CellsAreSome
<1>3. ValueFromExpr(edit.op.value) = v /\ v # None
  BY <1>1, ValuesReadBack
<1>4. CASE ~(edit.domain = "office/sheet" /\ edit.doc = d.id)
  <2>1. result = NoDoc
    BY <1>4 DEF ApplySheetEdit
  <2> QED
    BY <1>2, <1>4, <2>1
<1>5. CASE IsDeckDoc(d)
  <2>1. d.kind = "deck"
    BY <1>5, DeckDocs
  <2>2. result = NoDoc /\ ~IsSheetDoc(d)
    BY <2>1 DEF ApplySheetEdit, IsSheetDoc
  <2> QED
    BY <1>2, <2>2
<1>6. CASE IsSheetDoc(d) /\ edit.domain = "office/sheet" /\ edit.doc = d.id
  <2>1. d.kind = "sheet" /\ IsSheet(DocToSheet(d))
    BY <1>6 DEF IsSheetDoc
  <2>2. DocToSheet(d) # NoSheet
    BY <2>1, TextAssumption DEF IsSheet, NoSheet
  <2>3. result = SheetToDoc(d.id, s)
    BY <1>1, <1>2, <1>3, <1>6, <2>1, <2>2 DEF ApplySheetEdit
  <2>4. IsSheet(s)
    BY <2>1, SetCellTyped
  <2>. HIDE DEF s, result
  <2>5. IsSheetDoc(result) /\ DocToSheet(result) = s /\ result # NoDoc /\ result.id = d.id
    BY <2>3, <2>4, SheetDocs
  <2> QED
    BY <1>2, <1>6, <2>3, <2>4, <2>5 DEF s, result
<1> QED
  BY <1>4, <1>5, <1>6 DEF IsDoc

LEMMA SetCellEdits ==
    ASSUME NEW edit, NEW on, IsSetCell(edit, on)
    PROVE  /\ edit.domain = "office/sheet" /\ edit.doc = on.id
           /\ InvertEdit(edit).domain = "office/sheet" /\ InvertEdit(edit).doc = edit.doc
           /\ \E c \in Cells : \E v :
                 /\ IsValue(v) /\ edit.op = SetCellExpr(c, v)
                 /\ IsValue(CellOf(DocToSheet(on), c))
                 /\ InvertEdit(edit).op = SetCellExpr(c, CellOf(DocToSheet(on), c))
<1>1. PICK c \in Cells : \E v : IsValue(v) /\ edit = SetCellEdit(on, c, v)
  BY DEF IsSetCell
<1>2. PICK v : IsValue(v) /\ edit = SetCellEdit(on, c, v)
  BY <1>1
<1>. DEFINE w == CellOf(DocToSheet(on), c)
<1>3. edit = [doc |-> on.id, domain |-> "office/sheet", op |-> SetCellExpr(c, v),
              inverse |-> SetCellExpr(c, w)]
  BY <1>2 DEF SetCellEdit
<1>4. IsValue(w)
  BY CellOfValue DEF IsSetCell, IsSheetDoc
<1>. HIDE DEF w
<1>5. InvertEdit(edit) = [doc |-> on.id, domain |-> "office/sheet", op |-> SetCellExpr(c, w),
                          inverse |-> SetCellExpr(c, v)]
  <2>. DEFINE op == SetCellExpr(c, v)
              inverse == SetCellExpr(c, w)
              id == on.id
  <2>. HIDE DEF op, inverse, id
  <2>1. edit = [doc |-> id, domain |-> "office/sheet", op |-> op, inverse |-> inverse]
    BY <1>3 DEF op, inverse, id
  <2>2. edit.op = op /\ edit.inverse = inverse
    BY <2>1
  <2>3. InvertEdit(edit) = [edit EXCEPT !.op = inverse, !.inverse = op]
    BY <2>2, Zenon DEF InvertEdit
  <2>4. InvertEdit(edit) = [doc |-> id, domain |-> "office/sheet", op |-> inverse, inverse |-> op]
    BY <2>1, <2>3
  <2> QED
    BY <2>4 DEF op, inverse, id
<1>6. /\ edit.domain = "office/sheet" /\ edit.doc = on.id /\ edit.op = SetCellExpr(c, v)
      /\ InvertEdit(edit).domain = "office/sheet" /\ InvertEdit(edit).doc = on.id
      /\ InvertEdit(edit).op = SetCellExpr(c, w)
  BY <1>3, <1>5
<1> QED
  BY <1>2, <1>4, <1>6 DEF w

\* The document after an edit, and after its inverse.
LEMMA DocApplied ==
    ASSUME NEW d, IsDoc(d), NEW draft, IsDraft(draft)
    PROVE  LET result == ApplySheetEdit(d, draft.edit)
           IN result # NoDoc =>
                 /\ IsSheetDoc(result)
                 /\ IsApplied([edit |-> draft.edit, on |-> draft.on, before |-> d, after |-> result])
<1>. DEFINE result == ApplySheetEdit(d, draft.edit)
            a == [edit |-> draft.edit, on |-> draft.on, before |-> d, after |-> result]
<1>1. CASE draft.edit.domain = "office/cell"
  BY <1>1 DEF ApplySheetEdit
<1>2. CASE IsSetCell(draft.edit, draft.on)
  <2>1. PICK c \in Cells : \E v : IsValue(v) /\ draft.edit.op = SetCellExpr(c, v)
    BY <1>2, SetCellEdits
  <2>2. PICK v : IsValue(v) /\ draft.edit.op = SetCellExpr(c, v)
    BY <2>1
  <2>3. result # NoDoc => IsSheetDoc(d) /\ IsSheetDoc(result)
    BY <2>2, EditApplied
  <2>. HIDE DEF result
  <2>4. a.edit = draft.edit /\ a.on = draft.on /\ a.before = d /\ a.after = result
    OBVIOUS
  <2>. HIDE DEF a
  <2>5. result # NoDoc => IsApplied(a)
    BY <1>2, <2>3, <2>4 DEF IsApplied, result
  <2> QED
    BY <2>3, <2>5 DEF result, a
<1> QED
  BY <1>1, <1>2 DEF IsDraft

Undone(d, a) == ApplySheetEdit(d, InvertEdit(a.edit))

LEMMA DocUndone ==
    ASSUME NEW d, IsDoc(d), NEW a, IsApplied(a)
    PROVE  /\ Undone(d, a) # NoDoc => IsSheetDoc(Undone(d, a))
           /\ LET cell == ParseCell(a.edit.op.at)
              IN /\ d = a.after
                    /\ CellOf(DocToSheet(a.on), cell) = CellOf(DocToSheet(a.before), cell)
                    => Undone(d, a) # NoDoc /\ Undone(d, a) = a.before
                 /\ d.id # a.edit.doc => Undone(d, a) = NoDoc
<1>. DEFINE inverse == InvertEdit(a.edit)
            s == DocToSheet(a.before)
<1>1. PICK c \in Cells : \E v :
         /\ IsValue(v) /\ a.edit.op = SetCellExpr(c, v) /\ IsValue(CellOf(DocToSheet(a.on), c))
         /\ inverse.op = SetCellExpr(c, CellOf(DocToSheet(a.on), c))
  BY SetCellEdits DEF IsApplied
<1>2. PICK v :
         /\ IsValue(v) /\ a.edit.op = SetCellExpr(c, v) /\ IsValue(CellOf(DocToSheet(a.on), c))
         /\ inverse.op = SetCellExpr(c, CellOf(DocToSheet(a.on), c))
  BY <1>1
<1>3. /\ inverse.domain = "office/sheet" /\ inverse.doc = a.edit.doc
  BY SetCellEdits DEF IsApplied
<1>. DEFINE w == CellOf(DocToSheet(a.on), c)
<1>. HIDE DEF inverse
<1>4. Undone(d, a) = ApplySheetEdit(d, inverse)
  BY DEF Undone, inverse
<1>5. /\ Undone(d, a) # NoDoc <=> IsSheetDoc(d) /\ inverse.domain = "office/sheet" /\ inverse.doc = d.id
      /\ Undone(d, a) # NoDoc => /\ IsSheetDoc(Undone(d, a))
                                 /\ Undone(d, a) = SheetToDoc(d.id, SetCell(DocToSheet(d), c, w))
  <2>. HIDE DEF w
  <2>1. IsValue(w) /\ inverse.op = SetCellExpr(c, w)
    BY <1>2 DEF w
  <2> QED
    BY <1>4, <2>1, EditApplied
<1>6. IsSheetDoc(a.before) /\ a.after = ApplySheetEdit(a.before, a.edit) /\ a.after # NoDoc
      /\ IsDoc(a.before) /\ IsSheet(s) /\ a.before = SheetToDoc(a.before.id, s)
  BY DEF IsApplied, IsDoc, IsSheetDoc
<1>7. /\ ParseCell(a.edit.op.at) = c /\ a.edit.doc = a.before.id
      /\ IsSheetDoc(a.after) /\ a.after.id = a.before.id
      /\ DocToSheet(a.after) = SetCell(s, c, v)
  BY <1>2, <1>6, EditApplied
<1>8. ASSUME d = a.after, w = CellOf(s, c)
      PROVE  Undone(d, a) # NoDoc /\ Undone(d, a) = a.before
  <2>1. Undone(d, a) # NoDoc
    BY <1>3, <1>5, <1>7, <1>8
  <2>2. SetCell(DocToSheet(d), c, w) = s
    BY <1>6, <1>7, <1>8, SetCellUndone
  <2> QED
    BY <1>5, <1>6, <1>7, <1>8, <2>1, <2>2
<1>9. ASSUME d.id # a.edit.doc
      PROVE  Undone(d, a) = NoDoc
  BY <1>3, <1>5, <1>9
<1> QED
  BY <1>5, <1>7, <1>8, <1>9

(***************************************************************************)
(* The host: what its documents, edits and files always are                *)
(***************************************************************************)
AreDrafts(s) == IsList(s) /\ \A i \in 1..Len(s) : IsDraft(s[i])
AreApplied(s) == IsList(s) /\ \A i \in 1..Len(s) : IsApplied(s[i])

LEMMA DraftsChange ==
    ASSUME NEW s, AreDrafts(s)
    PROVE  /\ \A x : IsDraft(x) => AreDrafts(Append(s, x))
           /\ \A i \in 1..Len(s) : AreDrafts(RemoveAt(s, i))
<1>1. Len(s) \in Nat
  BY ListIs DEF AreDrafts
<1>2. ASSUME NEW x, IsDraft(x) PROVE AreDrafts(Append(s, x))
  <2>1. /\ IsList(Append(s, x)) /\ Len(Append(s, x)) = Len(s) + 1
        /\ \A i \in 1..Len(s) : Append(s, x)[i] = s[i]
        /\ Append(s, x)[Len(s) + 1] = x
    BY ListAppended DEF AreDrafts
  <2>2. \A i \in 1..(Len(s) + 1) : i \in 1..Len(s) \/ i = Len(s) + 1
    BY <1>1
  <2> QED
    BY <1>2, <2>1, <2>2 DEF AreDrafts
<1>3. ASSUME NEW i \in 1..Len(s) PROVE AreDrafts(RemoveAt(s, i))
  <2>1. /\ IsList(RemoveAt(s, i))
        /\ \A j \in 1..Len(RemoveAt(s, i)) : \E k \in 1..Len(s) : RemoveAt(s, i)[j] = s[k]
    BY ListWithout DEF AreDrafts
  <2> QED
    BY <2>1 DEF AreDrafts
<1> QED
  BY <1>2, <1>3

LEMMA AppliedChange ==
    ASSUME NEW s, AreApplied(s)
    PROVE  /\ Len(s) \in Nat
           /\ \A x : IsApplied(x) => AreApplied(Append(s, x)) /\ Len(Append(s, x)) = Len(s) + 1
           /\ s # <<>> => IsApplied(Last(s)) /\ AreApplied(Front(s))
<1>1. Len(s) \in Nat
  BY ListIs DEF AreApplied
<1>2. ASSUME NEW x, IsApplied(x) PROVE AreApplied(Append(s, x)) /\ Len(Append(s, x)) = Len(s) + 1
  <2>1. /\ IsList(Append(s, x)) /\ Len(Append(s, x)) = Len(s) + 1
        /\ \A i \in 1..Len(s) : Append(s, x)[i] = s[i]
        /\ Append(s, x)[Len(s) + 1] = x
    BY ListAppended DEF AreApplied
  <2>2. \A i \in 1..(Len(s) + 1) : i \in 1..Len(s) \/ i = Len(s) + 1
    BY <1>1
  <2> QED
    BY <1>2, <2>1, <2>2 DEF AreApplied
<1>3. ASSUME s # <<>> PROVE IsApplied(Last(s)) /\ AreApplied(Front(s))
  <2>1. /\ IsList(Front(s)) /\ Len(Front(s)) = Len(s) - 1 /\ Len(s) \in Nat \ {0}
        /\ \A i \in 1..Len(Front(s)) : Front(s)[i] = s[i]
    BY <1>3, ListFront DEF AreApplied
  <2>2. \A i \in 1..(Len(s) - 1) : i \in 1..Len(s)
    BY <1>1
  <2>3. Last(s) = s[Len(s)] /\ Len(s) \in 1..Len(s)
    BY <2>1 DEF Last
  <2> QED
    BY <2>1, <2>2, <2>3 DEF AreApplied
<1> QED
  BY <1>1, <1>2, <1>3

\* A file in the hands of the host is one that some program wrote, and a file
\* it exported is the encoding of the document it came from.
FileTyped ==
    /\ file # None => IsFile(file)
    /\ sent # None => IsExport(file, sent, Scenario[scenario].target)

\* A document that nobody edited since it came back is as some trip left it.
DocSettled == unedited # "none" => Settled(doc, unedited, Scenario[scenario].target)

HostTyped ==
    /\ scenario \in DOMAIN Scenario
    /\ IsDoc(doc)
    /\ AreDrafts(drafts)
    /\ AreApplied(applied)
HostInv == HostTyped /\ FileTyped /\ DocSettled
ReturnsOK == ExactValuesSurvive /\ TripsSettle /\ LossesNamed

LEMMA ScenarioTyped ==
    ASSUME HostTyped
    PROVE  /\ Scenario[scenario].cells \subseteq Cells
           /\ \A v \in Scenario[scenario].values : IsValue(v)
           /\ \A f \in Scenario[scenario].foreign : IsFile(f)
           /\ Scenario[scenario].target.worksheet \in Texts
           /\ Scenario[scenario].formats \subseteq Formats
  BY HostAssumption, ScenarioAssumption DEF HostTyped

LEMMA HostInitially == Init => HostInv /\ ReturnsOK
<1> SUFFICES ASSUME Init PROVE HostInv /\ ReturnsOK
  OBVIOUS
<1>1. /\ scenario \in DOMAIN Scenario /\ IsDoc(doc)
      /\ drafts = <<>> /\ applied = <<>> /\ file = None /\ sent = None /\ unedited = "none"
      /\ returned = NoReturn
  BY HostAssumption DEF Init
<1>2. IsList(<<>>) /\ Len(<<>>) = 0
  BY DEF IsList, ToSet
<1>3. HostInv
  BY <1>1, <1>2 DEF HostInv, HostTyped, FileTyped, DocSettled, AreDrafts, AreApplied
<1>4. returned.from = None /\ returned.settled = FALSE /\ returned.answer.ok = FALSE
  BY <1>1 DEF NoReturn, Refused
<1>5. ReturnsOK
  BY <1>4, Zenon DEF ReturnsOK, ExactValuesSurvive, TripsSettle, LossesNamed
<1> QED
  BY <1>3, <1>5

LEMMA ReturnsStay == ASSUME ReturnsOK, UNCHANGED returned PROVE ReturnsOK'
<1>1. ExactValuesSurvive => ExactValuesSurvive'
  BY Zenon DEF ExactValuesSurvive
<1>2. TripsSettle => TripsSettle'
  BY Zenon DEF TripsSettle
<1>3. LossesNamed => LossesNamed'
  BY Zenon DEF LossesNamed
<1> QED
  BY <1>1, <1>2, <1>3, Zenon DEF ReturnsOK

LEMMA FilesStay == ASSUME FileTyped, UNCHANGED <<scenario, file, sent>> PROVE FileTyped'
  BY DEF FileTyped

LEMMA DraftOK ==
    ASSUME HostInv, NEW cell \in Scenario[scenario].cells, NEW value \in Scenario[scenario].values,
           Draft(cell, value)
    PROVE  HostInv'
<1>. DEFINE x == [edit |-> SetCellEdit(doc, cell, value), on |-> doc]
<1>1. IsSheetDoc(doc)
  BY KindsWritten DEF HostInv, HostTyped, Draft
<1>2. cell \in Cells /\ IsValue(value)
  BY ScenarioTyped DEF HostInv
<1>3. IsDraft(x)
  BY <1>1, <1>2 DEF IsDraft, IsSetCell
<1>4. drafts' = Append(drafts, x) /\ UNCHANGED <<scenario, doc, applied, unedited, file, sent>>
  BY DEF Draft
<1>. HIDE DEF x
<1>5. AreDrafts(drafts')
  BY <1>3, <1>4, DraftsChange DEF HostInv, HostTyped
<1> QED
  BY <1>4, <1>5, FilesStay DEF HostInv, HostTyped, DocSettled

LEMMA IntendOK ==
    ASSUME HostInv, NEW intent, Intend(intent)
    PROVE  HostInv'
<1>. DEFINE edit == DecodeSuiteIntent({doc}, intent)
            x == [edit |-> edit, on |-> doc]
<1>1. /\ edit # None /\ drafts' = Append(drafts, x)
      /\ UNCHANGED <<scenario, doc, applied, unedited, file, sent>>
  BY DEF Intend
<1>2. edit.domain = "office/cell"
  BY <1>1 DEF DecodeSuiteIntent
<1>. HIDE DEF edit
<1>3. IsDraft(x)
  BY <1>2 DEF IsDraft
<1>. HIDE DEF x
<1>4. AreDrafts(drafts')
  BY <1>1, <1>3, DraftsChange DEF HostInv, HostTyped
<1> QED
  BY <1>1, <1>4, FilesStay DEF HostInv, HostTyped, DocSettled

LEMMA ApplyOK ==
    ASSUME HostInv, NEW i \in 1..Len(drafts), Apply(i)
    PROVE  HostInv' /\ ~(Len(applied') < Len(applied))
<1>. DEFINE draft == drafts[i]
            result == ApplySheetEdit(doc, draft.edit)
            x == [edit |-> draft.edit, on |-> draft.on, before |-> doc, after |-> result]
<1>1. /\ drafts' = RemoveAt(drafts, i) /\ UNCHANGED <<scenario, file, sent>>
      /\ \/ result # NoDoc /\ doc' = result /\ applied' = Append(applied, x) /\ unedited' = "none"
         \/ UNCHANGED <<doc, applied, unedited>>
  BY DEF Apply
<1>2. IsDoc(doc) /\ IsDraft(draft) /\ AreDrafts(drafts')
  BY <1>1, DraftsChange DEF HostInv, HostTyped, AreDrafts
<1>3. result # NoDoc => IsSheetDoc(result) /\ IsApplied(x)
  <2>. HIDE DEF draft
  <2> QED
    BY <1>2, DocApplied
<1>. HIDE DEF draft, result, x
<1>4. /\ AreApplied(applied) /\ Len(applied) \in Nat
      /\ \A y : IsApplied(y) => /\ AreApplied(Append(applied, y))
                                /\ Len(Append(applied, y)) = Len(applied) + 1
  BY AppliedChange DEF HostInv, HostTyped
<1>5. FileTyped'
  BY <1>1, FilesStay DEF HostInv
<1>6. CASE result # NoDoc /\ doc' = result /\ applied' = Append(applied, x) /\ unedited' = "none"
  <2>1. IsDoc(doc')
    BY <1>3, <1>6 DEF IsDoc
  <2>2. AreApplied(applied') /\ Len(applied') = Len(applied) + 1
    BY <1>3, <1>4, <1>6
  <2>3. HostInv'
    BY <1>1, <1>2, <1>5, <1>6, <2>1, <2>2 DEF HostInv, HostTyped, DocSettled
  <2> QED
    BY <1>4, <2>2, <2>3
<1>7. CASE UNCHANGED <<doc, applied, unedited>>
  BY <1>1, <1>2, <1>4, <1>5, <1>7 DEF HostInv, HostTyped, DocSettled
<1> QED
  BY <1>1, <1>6, <1>7

LEMMA UndoOK ==
    ASSUME HostInv, Undo
    PROVE  /\ HostInv'
           /\ LET last == Last(applied)
                  cell == ParseCell(last.edit.op.at)
              IN /\ doc = last.after
                    /\ CellOf(DocToSheet(last.on), cell) = CellOf(DocToSheet(last.before), cell)
                    => doc' = last.before
                 /\ doc.id # last.edit.doc => doc' = doc
<1>. DEFINE last == Last(applied)
            cell == ParseCell(last.edit.op.at)
<1>1. /\ applied # <<>> /\ applied' = Front(applied)
      /\ UNCHANGED <<scenario, drafts, file, sent>>
      /\ \/ Undone(doc, last) # NoDoc /\ doc' = Undone(doc, last) /\ unedited' = "none"
         \/ Undone(doc, last) = NoDoc /\ UNCHANGED <<doc, unedited>>
  BY DEF Undo, Undone
<1>2. IsDoc(doc) /\ IsApplied(last) /\ AreApplied(applied')
  BY <1>1, AppliedChange DEF HostInv, HostTyped
<1>. HIDE DEF last
<1>3. /\ Undone(doc, last) # NoDoc => IsSheetDoc(Undone(doc, last))
      /\ doc = last.after
         /\ CellOf(DocToSheet(last.on), cell) = CellOf(DocToSheet(last.before), cell)
         => Undone(doc, last) # NoDoc /\ Undone(doc, last) = last.before
      /\ doc.id # last.edit.doc => Undone(doc, last) = NoDoc
  BY <1>2, DocUndone
<1>4. FileTyped'
  BY <1>1, FilesStay DEF HostInv
<1>5. HostInv'
  BY <1>1, <1>2, <1>3, <1>4 DEF HostInv, HostTyped, DocSettled, IsDoc
<1> QED
  BY <1>1, <1>3, <1>5, Zenon DEF last

LEMMA ExportOK ==
    ASSUME HostInv, NEW format \in Scenario[scenario].formats, Export(format)
    PROVE  HostInv'
<1>. DEFINE target == Scenario[scenario].target
            answer == EncodeFor(format, doc, target)
<1>1. Encode(format, doc) = answer
  BY DEF Encode, EncodeFor
<1>2. /\ answer.ok /\ file' = answer.value /\ sent' = doc
      /\ UNCHANGED <<scenario, doc, drafts, applied, unedited>>
  BY <1>1 DEF Export, documents
<1>3. IsDoc(doc) /\ format \in Formats /\ target.worksheet \in Texts
  BY ScenarioTyped DEF HostInv, HostTyped
<1>4. IsExport(file', doc, target)
  <2>. HIDE DEF target
  <2> QED
    BY <1>2, <1>3, EncodedForIsExport
<1>5. IsFile(file')
  <2>. HIDE DEF target
  <2> QED
    BY <1>3, <1>4, ExportIsFile
<1>6. FileTyped'
  BY <1>2, <1>4, <1>5 DEF FileTyped
<1> QED
  BY <1>2, <1>6 DEF HostInv, HostTyped, DocSettled

LEMMA ReceiveOK ==
    ASSUME HostInv, NEW f \in Scenario[scenario].foreign, Receive(f) \/ Download(f)
    PROVE  HostInv'
<1>1. /\ file' = f /\ sent' = None
      /\ UNCHANGED <<scenario, doc, drafts, applied, unedited>>
  BY DEF Receive, Download, documents
<1>2. IsFile(f)
  BY ScenarioTyped DEF HostInv
<1> QED
  BY <1>1, <1>2 DEF HostInv, HostTyped, FileTyped, DocSettled

\* What comes back of an export survives, settles and names its losses.
LEMMA ImportOK ==
    ASSUME HostInv, Import
    PROVE  HostInv' /\ ReturnsOK'
<1>. DEFINE target == Scenario[scenario].target
            answer == Decode(file)
            settled == sent # None /\ sent = doc /\ unedited = file.format
<1>1. /\ file # None
      /\ returned' = [format |-> file.format, from |-> sent, settled |-> settled,
                      file |-> file, answer |-> answer]
      /\ \/ answer.ok /\ doc' = answer.value
            /\ unedited' = (IF sent = None THEN "none" ELSE file.format)
         \/ ~answer.ok /\ UNCHANGED <<doc, unedited>>
      /\ UNCHANGED <<scenario, drafts, applied, file, sent>>
  BY DEF Import
<1>2. /\ IsFile(file) /\ target.worksheet \in Texts
      /\ sent # None => IsExport(file, sent, target)
  BY <1>1, ScenarioTyped DEF HostInv, FileTyped
<1>3. answer.ok => IsDoc(answer.value)
  BY <1>2, DecodedIsDoc
<1>4. answer.ok /\ sent # None => Settled(answer.value, file.format, target)
  <2>. HIDE DEF target
  <2> QED
    BY <1>2 DEF Settled
<1>5. HostInv'
  <2>. HIDE DEF answer
  <2>1. IsDoc(doc')
    BY <1>1, <1>3 DEF HostInv, HostTyped
  <2>2. FileTyped'
    BY <1>1, FilesStay DEF HostInv
  <2>3. DocSettled'
    BY <1>1, <1>4 DEF HostInv, DocSettled
  <2> QED
    BY <1>1, <2>1, <2>2, <2>3 DEF HostInv, HostTyped
<1>6. /\ returned'.format = file.format /\ returned'.from = sent /\ returned'.settled = settled
      /\ returned'.file = file /\ returned'.answer = answer
  <2>. HIDE DEF answer, settled
  <2> QED
    BY <1>1
<1>7. ExactValuesSurvive'
  <2>1. sent # None => Survived(file, sent)
    <3>. HIDE DEF target
    <3> QED
      BY <1>2, ExportSurvives
  <2> QED
    BY <1>6, <2>1, Zenon DEF ExactValuesSurvive, Survived
<1>8. TripsSettle'
  <2>1. ASSUME settled PROVE answer.ok /\ answer.value = sent
    <3>1. IsExport(file, doc, target) /\ unedited = file.format
      BY <1>2, <2>1
    <3>2. file.format \in {"xlsx", "range", "ods", "pptx", "odp"}
      BY <3>1, ExportByFormat
    <3>3. Settled(doc, file.format, target)
      BY <3>1, <3>2 DEF HostInv, DocSettled
    <3>. HIDE DEF target
    <3>4. Unchanged(file, doc)
      BY <1>2, <3>1, <3>3, SettledUnchanged
    <3> QED
      BY <2>1, <3>4 DEF Unchanged
  <2> QED
    BY <1>6, <2>1, Zenon DEF TripsSettle
<1>9. LossesNamed'
  <2>1. NamedLosses(file)
    BY <1>2, FileLosses
  <2>2. ASSUME answer.ok, IsLossless(answer.report)
        PROVE  /\ file.format = "xlsx" => XlsxNamed(file, answer.value)
               /\ file.format = "pptx" => PptxNamed(file, answer.value)
               /\ file.format = "range" => RangeNamed(file, answer.value)
    BY <2>1, <2>2, Zenon DEF NamedLosses
  <2>. HIDE DEF answer
  <2>3. CASE ~answer.ok \/ ~IsLossless(answer.report)
    BY <1>6, <2>3, Zenon DEF LossesNamed
  <2>4. CASE answer.ok /\ IsLossless(answer.report) /\ file.format = "xlsx"
    BY <1>6, <2>2, <2>4, Zenon DEF LossesNamed, XlsxNamed
  <2>5. CASE answer.ok /\ IsLossless(answer.report) /\ file.format = "pptx"
    BY <1>6, <2>2, <2>5, Zenon DEF LossesNamed, PptxNamed
  <2>6. CASE answer.ok /\ IsLossless(answer.report) /\ file.format = "range"
    BY <1>6, <2>2, <2>6, Zenon DEF LossesNamed, RangeNamed
  <2>7. CASE file.format \notin {"xlsx", "pptx", "range"}
    BY <1>6, <2>7, Zenon DEF LossesNamed
  <2> QED
    BY <2>3, <2>4, <2>5, <2>6, <2>7
<1> QED
  BY <1>5, <1>7, <1>8, <1>9 DEF ReturnsOK

UndoStep ==
    Len(applied') < Len(applied) =>
        LET last == Last(applied)
            cell == ParseCell(last.edit.op.at)
        IN /\ doc = last.after
              /\ CellOf(DocToSheet(last.on), cell) = CellOf(DocToSheet(last.before), cell)
              => doc' = last.before
           /\ doc.id # last.edit.doc => doc' = doc

LEMMA HostStep == HostInv /\ ReturnsOK /\ [Next]_vars => HostInv' /\ ReturnsOK' /\ UndoStep
<1> SUFFICES ASSUME HostInv, ReturnsOK, [Next]_vars PROVE HostInv' /\ ReturnsOK' /\ UndoStep
  OBVIOUS
<1>1. Len(applied) \in Nat
  BY AppliedChange DEF HostInv, HostTyped
<1>2. ASSUME applied' = applied PROVE UndoStep
  BY <1>1, <1>2 DEF UndoStep
<1>3. ASSUME UNCHANGED <<scenario, documents, file, sent>> PROVE HostInv' /\ UndoStep
  BY <1>2, <1>3 DEF documents, HostInv, HostTyped, FileTyped, DocSettled
<1>4. ASSUME NEW cell \in Scenario[scenario].cells, NEW value \in Scenario[scenario].values,
             Draft(cell, value)
      PROVE  HostInv' /\ UndoStep
  <2>1. applied' = applied
    BY <1>4 DEF Draft
  <2> QED
    BY <1>2, <1>4, <2>1, DraftOK
<1>5. ASSUME NEW intent \in Scenario[scenario].intents, Intend(intent)
      PROVE  HostInv' /\ UndoStep
  <2>1. applied' = applied
    BY <1>5 DEF Intend
  <2> QED
    BY <1>2, <1>5, <2>1, IntendOK
<1>6. ASSUME NEW i \in 1..Len(drafts), Apply(i)
      PROVE  HostInv' /\ UndoStep
  BY <1>6, ApplyOK DEF UndoStep
<1>7. ASSUME Undo PROVE HostInv' /\ UndoStep
  BY <1>7, UndoOK, Zenon DEF UndoStep
<1>8. ASSUME NEW format \in Scenario[scenario].formats, Export(format)
      PROVE  HostInv' /\ UndoStep /\ UNCHANGED returned
  <2>1. UNCHANGED <<applied, returned>>
    BY <1>8 DEF Export, documents
  <2> QED
    BY <1>2, <1>8, <2>1, ExportOK
<1>9. ASSUME NEW f \in Scenario[scenario].foreign, Receive(f) \/ Download(f)
      PROVE  HostInv' /\ UndoStep /\ UNCHANGED returned
  <2>1. UNCHANGED <<applied, returned>>
    BY <1>9 DEF Receive, Download, documents
  <2> QED
    BY <1>2, <1>9, <2>1, ReceiveOK
<1>10. ASSUME Import PROVE HostInv' /\ ReturnsOK' /\ UndoStep
  <2>1. applied' = applied
    BY <1>10 DEF Import
  <2> QED
    BY <1>2, <1>10, <2>1, ImportOK
<1>11. CASE UNCHANGED vars
  <2>1. UNCHANGED <<scenario, documents, file, sent, returned>>
    BY <1>11 DEF vars
  <2> QED
    BY <1>3, <2>1, ReturnsStay
<1>12. CASE \/ \E cell \in Scenario[scenario].cells, value \in Scenario[scenario].values :
                  Draft(cell, value)
            \/ \E intent \in Scenario[scenario].intents : Intend(intent)
            \/ \E i \in 1..Len(drafts) : Apply(i)
            \/ Undo
  <2>1. UNCHANGED returned
    BY <1>12, EditsFrame
  <2>2. HostInv' /\ UndoStep
    BY <1>4, <1>5, <1>6, <1>7, <1>12, Zenon
  <2> QED
    BY <2>1, <2>2, ReturnsStay
<1>13. CASE \/ \E format \in Scenario[scenario].formats : Export(format)
            \/ \E f \in Scenario[scenario].foreign : Receive(f) \/ Download(f)
  <2>1. HostInv' /\ UndoStep /\ UNCHANGED returned
    BY <1>8, <1>9, <1>13, Zenon
  <2> QED
    BY <2>1, ReturnsStay
<1>14. CASE \/ \E a \in Scenario[scenario].archives, l \in Scenario[scenario].limits : Open(a, l)
            \/ Extract
  <2>1. UNCHANGED <<scenario, documents, file, sent, returned>>
    BY <1>14, ArchivesFrame
  <2> QED
    BY <1>3, <2>1, ReturnsStay
<1> QED
  BY <1>10, <1>11, <1>12, <1>13, <1>14, Zenon DEF Next

LEMMA HostInvariant == Spec => [](HostInv /\ ReturnsOK)
<1>1. HostInv /\ ReturnsOK /\ [Next]_vars => HostInv' /\ ReturnsOK'
  BY HostStep
<1> QED
  BY HostInitially, <1>1, PTL DEF Spec

\* Whatever the codecs and Graph ranges of the code write they also read, or a
\* text of the document cannot stand in XML: numbers and truth values exactly
\* and in their cells, texts and formulas as XML gives them back, a range cell
\* by cell, slides with their ids and titles, in order, each with its blocks
\* and every text, item, row and address in them.
THEOREM EveryTripKeepsExactValues == Spec => []ExactValuesSurvive
<1>1. ReturnsOK => ExactValuesSurvive
  BY DEF ReturnsOK
<1> QED
  BY <1>1, HostInvariant, PTL

\* A document that came back from a format, and that nobody edited, comes back
\* from another trip through that format as it is: a conversion of the code
\* loses what it loses once.
THEOREM EveryTripSettles == Spec => []TripsSettle
<1>1. ReturnsOK => TripsSettle
  BY DEF ReturnsOK
<1> QED
  BY <1>1, HostInvariant, PTL

\* An import that reports no loss has left out nothing of a workbook's filled
\* cells, of the slides of a presentation and the blocks in them, or of the
\* values of a range, and each stands where the file has it, whatever program
\* wrote the file.
THEOREM EveryLossNamed == Spec => []LossesNamed
<1>1. ReturnsOK => LossesNamed
  BY DEF ReturnsOK
<1> QED
  BY <1>1, HostInvariant, PTL

\* Every presentation that pptx.rs writes holds each part it refers to, names
\* each slide once, and passes the check that a drive makes of it.
THEOREM EveryPackageClosed == Spec => []PackagesClosed
<1>1. HostInv => PackagesClosed
  BY ExportClosed DEF HostInv, FileTyped, PackagesClosed, IsClosed
<1> QED
  BY <1>1, HostInvariant, PTL

\* Undoing the edit applied last restores the document before it, however
\* edits were drafted, held back, intended in a pane and applied, unless the
\* cell had changed since the edit was built.
THEOREM EveryUndoRestores == Spec => UndoRestores
<1>1. HostInv /\ ReturnsOK /\ [Next]_vars => [UndoStep]_vars
  BY HostStep
<1> QED
  BY <1>1, HostInvariant, PTL DEF Spec, UndoRestores, UndoStep
===============================================================================
