--------------------------- MODULE SequenceLemmas ---------------------------
(***************************************************************************)
(* Facts about slices and splices of sequences, and about how many entries *)
(* are of one kind, that the proofs about the engine's queues, lists and   *)
(* stacks cite.                                                            *)
(***************************************************************************)
EXTENDS Integers, SequencesExt, SequenceTheorems, FiniteSetTheorems, WellFoundedInduction, TLAPS

\* Induction over the numbers, for a set of them: what is missing from it has a
\* least element.
LEMMA NatInd ==
  ASSUME NEW P, 0 \in P, \A n \in Nat : n \in P => n + 1 \in P
  PROVE  \A n \in Nat : n \in P
<1> DEFINE Less == OpToRel(<, Nat)
           Bad == Nat \ P
<1> SUFFICES ASSUME Bad # {} PROVE FALSE
  OBVIOUS
<1>1. IsWellFoundedOn(Less, Nat)
  BY NatLessThanWellFounded
<1>2. PICK x \in Bad : \A y \in Bad : ~(<<y, x>> \in Less)
  <2> HIDE DEF Less
  <2> QED BY <1>1, WFMin
<1>3. x \in Nat /\ x # 0 /\ x - 1 \in Nat /\ (x - 1) + 1 = x
  OBVIOUS
<1>4. x - 1 \notin P
  BY <1>3
<1>5. <<x - 1, x>> \in Less
  BY <1>3 DEF OpToRel
<1> QED BY <1>2, <1>3, <1>4, <1>5

LEMMA SliceProperties ==
  ASSUME NEW S, NEW s \in Seq(S), NEW m \in Nat \ {0}, NEW n \in Nat,
         m <= n + 1, n <= Len(s)
  PROVE  /\ SubSeq(s, m, n) \in Seq(S)
         /\ Len(SubSeq(s, m, n)) = n - m + 1
         /\ \A i \in 1..(n - m + 1) : SubSeq(s, m, n)[i] = s[m + i - 1]
<1>1. \A i \in m..n : s[i] \in S
  BY ElementOfSeq, LenProperties
<1> QED BY <1>1, SubSeqProperties

\* A front, one element, a rear and one more element, put together.
LEMMA SpliceProperties ==
  ASSUME NEW S, NEW front \in Seq(S), NEW x \in S, NEW rear \in Seq(S), NEW y \in S,
         NEW splice, splice = Append(Append(front, x) \o rear, y)
  PROVE  /\ splice \in Seq(S)
         /\ Len(splice) = Len(front) + Len(rear) + 2
         /\ \A i \in 1..Len(front) : splice[i] = front[i]
         /\ splice[Len(front) + 1] = x
         /\ \A i \in (Len(front) + 2)..(Len(front) + Len(rear) + 1) :
              splice[i] = rear[i - (Len(front) + 1)]
         /\ splice[Len(front) + Len(rear) + 2] = y
<1>1. Len(front) \in Nat /\ Len(rear) \in Nat
  BY LenProperties
<1>2. PICK s1 : s1 = Append(front, x)
  OBVIOUS
<1>3. s1 \in Seq(S)
  BY <1>2, AppendProperties
<1>4. /\ Len(s1) = Len(front) + 1
      /\ \A i \in 1..Len(front) : s1[i] = front[i]
      /\ s1[Len(front) + 1] = x
  BY <1>2, AppendProperties
<1>5. PICK s2 : s2 = s1 \o rear
  OBVIOUS
<1>6. s2 \in Seq(S)
  BY <1>3, <1>5, ConcatProperties
<1>7. /\ Len(s2) = Len(s1) + Len(rear)
      /\ \A i \in 1..(Len(s1) + Len(rear)) :
            s2[i] = IF i <= Len(s1) THEN s1[i] ELSE rear[i - Len(s1)]
  BY <1>3, <1>5, ConcatProperties
<1>8. splice = Append(s2, y)
  BY <1>2, <1>5
<1>9. splice \in Seq(S)
  BY <1>6, <1>8, AppendProperties
<1>10. /\ Len(splice) = Len(s2) + 1
       /\ \A i \in 1..Len(s2) : splice[i] = s2[i]
       /\ splice[Len(s2) + 1] = y
  BY <1>6, <1>8, AppendProperties
<1> QED BY <1>1, <1>4, <1>7, <1>9, <1>10

\* Two sequences that agree from m to n have the same slice there.
LEMMA SliceEqual ==
  ASSUME NEW S, NEW s \in Seq(S), NEW t \in Seq(S),
         NEW m \in Nat \ {0}, NEW n \in Nat,
         m <= n + 1, n <= Len(s), n <= Len(t),
         \A i \in m..n : s[i] = t[i]
  PROVE  SubSeq(s, m, n) = SubSeq(t, m, n)
<1> DEFINE u == SubSeq(s, m, n)
           v == SubSeq(t, m, n)
<1>1. u \in Seq(S) /\ v \in Seq(S)
  BY SliceProperties
<1>2. Len(u) = n - m + 1 /\ \A i \in 1..(n - m + 1) : u[i] = s[m + i - 1]
  BY SliceProperties
<1>3. Len(v) = n - m + 1 /\ \A i \in 1..(n - m + 1) : v[i] = t[m + i - 1]
  BY SliceProperties
<1> HIDE DEF u, v
<1>4. \A i \in 1..Len(u) : u[i] = v[i]
  <2> TAKE i \in 1..Len(u)
  <2>1. m + i - 1 \in m..n /\ i \in 1..(n - m + 1)
    BY <1>2
  <2> QED BY <1>2, <1>3, <2>1
<1>5. u = v
  BY <1>1, <1>2, <1>3, <1>4, SeqEqual
<1> QED BY <1>5 DEF u, v

LEMMA FrontLast ==
  ASSUME NEW S, NEW s \in Seq(S)
  PROVE  /\ Front(s) \in Seq(S)
         /\ s # <<>> =>
              /\ Last(s) \in S
              /\ Len(s) \in Nat \ {0}
              /\ Len(Front(s)) = Len(s) - 1
              /\ \A i \in 1..(Len(s) - 1) : Front(s)[i] = s[i]
<1>1. \A i \in 1..(Len(s) - 1) : s[i] \in S
  BY ElementOfSeq, LenProperties
<1>2. Front(s) \in Seq(S)
  BY <1>1, SubSeqProperties, LenProperties DEF Front
<1>3. s # <<>> => Last(s) \in S /\ Len(s) \in Nat \ {0}
  BY ElementOfSeq, LenProperties, EmptySeq DEF Last
<1>4. ASSUME s # <<>>
      PROVE  /\ Len(Front(s)) = Len(s) - 1
             /\ \A i \in 1..(Len(s) - 1) : Front(s)[i] = s[i]
  <2>1. Len(s) - 1 \in Nat
    BY <1>3, <1>4
  <2>2. /\ Len(SubSeq(s, 1, Len(s) - 1)) = (Len(s) - 1) - 1 + 1
        /\ \A i \in 1..((Len(s) - 1) - 1 + 1) :
             SubSeq(s, 1, Len(s) - 1)[i] = s[1 + i - 1]
    BY <1>3, <1>4, <2>1, SliceProperties
  <2>3. \A i \in 1..(Len(s) - 1) : i \in 1..((Len(s) - 1) - 1 + 1) /\ 1 + i - 1 = i
    BY <2>1
  <2> QED BY <2>1, <2>2, <2>3 DEF Front
<1> QED BY <1>2, <1>3, <1>4

\* What is appended need not be of the sequence's kind.
LEMMA AppendAny ==
  ASSUME NEW S, NEW s \in Seq(S), NEW x
  PROVE  /\ Len(Append(s, x)) = Len(s) + 1 /\ Append(s, x)[Len(s) + 1] = x
         /\ \A i \in 1..Len(s) : Append(s, x)[i] = s[i]
<1>1. S \subseteq S \cup {x} /\ x \in S \cup {x}
  OBVIOUS
<1>2. s \in Seq(S \cup {x})
  BY <1>1, SeqMonotonic
<1> QED BY <1>1, <1>2, AppendProperties

LEMMA FrontOfAppend ==
  ASSUME NEW S, NEW s \in Seq(S), NEW x \in S
  PROVE  /\ Append(s, x) \in Seq(S) /\ Append(s, x) # <<>>
         /\ Front(Append(s, x)) = s /\ Last(Append(s, x)) = x
<1>1. PICK t : t = Append(s, x)
  OBVIOUS
<1>2. t \in Seq(S) /\ Len(t) = Len(s) + 1 /\ Len(s) \in Nat
  BY <1>1, AppendProperties, LenProperties
<1>3. t[Len(s) + 1] = x /\ \A i \in 1..Len(s) : t[i] = s[i]
  BY <1>1, AppendProperties
<1>4. t # <<>>
  BY <1>2, EmptySeq
<1>5. /\ Front(t) \in Seq(S) /\ Len(Front(t)) = Len(s)
      /\ \A i \in 1..Len(s) : Front(t)[i] = t[i]
  <2>1. /\ Front(t) \in Seq(S) /\ Len(Front(t)) = Len(t) - 1
        /\ \A i \in 1..(Len(t) - 1) : Front(t)[i] = t[i]
    BY <1>2, <1>4, FrontLast
  <2>2. Len(t) - 1 = Len(s)
    BY <1>2
  <2> QED BY <2>1, <2>2
<1>6. Front(t) = s
  BY <1>3, <1>5, SeqEqual
<1>7. Last(t) = x
  BY <1>2, <1>3 DEF Last
<1> QED BY <1>1, <1>2, <1>4, <1>6, <1>7

LEMMA AppendFrontLast ==
  ASSUME NEW S, NEW s \in Seq(S), s # <<>>
  PROVE  s = Append(Front(s), Last(s))
<1>1. /\ Front(s) \in Seq(S) /\ Last(s) \in S /\ Len(s) \in Nat \ {0} /\ Len(Front(s)) = Len(s) - 1
      /\ \A i \in 1..(Len(s) - 1) : Front(s)[i] = s[i]
  BY FrontLast
<1>2. PICK t : t = Append(Front(s), Last(s))
  OBVIOUS
<1>3. /\ t \in Seq(S) /\ Len(t) = Len(s) /\ t[Len(s)] = Last(s)
      /\ \A i \in 1..(Len(s) - 1) : t[i] = s[i]
  BY <1>1, <1>2, AppendProperties
<1>4. \A i \in 1..Len(s) : t[i] = s[i]
  BY <1>1, <1>3 DEF Last
<1> QED BY <1>2, <1>3, <1>4, SeqEqual

-----------------------------------------------------------------------------
(* How many entries of a sequence are in a set *)

PlacesOf(s, T) == {i \in 1..Len(s) : s[i] \in T}
Hits(s, T)   == Cardinality(PlacesOf(s, T))

LEMMA HitsType ==
  ASSUME NEW S, NEW s \in Seq(S), NEW T
  PROVE  /\ IsFiniteSet(PlacesOf(s, T))
         /\ Hits(s, T) \in Nat
         /\ Hits(s, T) = 0 <=> \A i \in 1..Len(s) : s[i] \notin T
<1>1. 1 \in Int /\ Len(s) \in Int
  BY LenProperties
<1>2. IsFiniteSet(PlacesOf(s, T))
  BY <1>1, FS_Interval, FS_Subset DEF PlacesOf
<1>3. Hits(s, T) \in Nat
  BY <1>2, FS_CardinalityType DEF Hits
<1>4. Hits(s, T) = 0 <=> PlacesOf(s, T) = {}
  BY <1>2, FS_EmptySet DEF Hits
<1> QED BY <1>2, <1>3, <1>4 DEF PlacesOf

LEMMA HitsNone == \A T : Hits(<<>>, T) = 0
<1> TAKE T
<1>1. PlacesOf(<<>>, T) = {}
  BY DEF PlacesOf
<1> QED BY <1>1, FS_EmptySet DEF Hits

\* Entry by entry alike.
LEMMA HitsAlike ==
  ASSUME NEW s, NEW t, NEW T, NEW U, Len(s) = Len(t),
         \A i \in 1..Len(s) : s[i] \in T <=> t[i] \in U
  PROVE  Hits(s, T) = Hits(t, U)
<1>1. PlacesOf(s, T) = PlacesOf(t, U)
  BY DEF PlacesOf
<1> QED BY <1>1 DEF Hits

LEMMA HitsAppend ==
  ASSUME NEW S, NEW s \in Seq(S), NEW x \in S, NEW T
  PROVE  Hits(Append(s, x), T) = Hits(s, T) + (IF x \in T THEN 1 ELSE 0)
<1>1. PICK t : t = Append(s, x)
  OBVIOUS
<1>2. Len(s) \in Nat
  BY LenProperties
<1>3. Len(t) = Len(s) + 1 /\ t[Len(s) + 1] = x
  BY <1>1, AppendProperties
<1>4. \A i \in 1..Len(s) : t[i] = s[i]
  BY <1>1, AppendProperties
<1>5. IsFiniteSet(PlacesOf(s, T)) /\ Hits(s, T) \in Nat
  BY HitsType
<1>6. CASE x \in T
  <2>1. PlacesOf(t, T) = PlacesOf(s, T) \cup {Len(s) + 1}
    BY <1>2, <1>3, <1>4, <1>6 DEF PlacesOf
  <2>2. Len(s) + 1 \notin PlacesOf(s, T)
    BY <1>2 DEF PlacesOf
  <2> QED BY <1>1, <1>5, <1>6, <2>1, <2>2, FS_AddElement DEF Hits
<1>7. CASE x \notin T
  <2>1. PlacesOf(t, T) = PlacesOf(s, T)
    BY <1>2, <1>3, <1>4, <1>7 DEF PlacesOf
  <2> QED BY <1>1, <1>5, <1>7, <2>1 DEF Hits
<1> QED BY <1>6, <1>7

LEMMA HitsAppendAny ==
  ASSUME NEW S, NEW s \in Seq(S), NEW x, NEW T
  PROVE  Hits(Append(s, x), T) = Hits(s, T) + (IF x \in T THEN 1 ELSE 0)
<1>1. S \subseteq S \cup {x} /\ x \in S \cup {x}
  OBVIOUS
<1>2. s \in Seq(S \cup {x})
  BY <1>1, SeqMonotonic
<1> QED BY <1>1, <1>2, HitsAppend

LEMMA HitsFront ==
  ASSUME NEW S, NEW s \in Seq(S), s # <<>>, NEW T
  PROVE  Hits(s, T) = Hits(Front(s), T) + (IF Last(s) \in T THEN 1 ELSE 0)
<1>1. Front(s) \in Seq(S) /\ Last(s) \in S
  BY FrontLast
<1>2. /\ Len(s) \in Nat \ {0} /\ Len(Front(s)) = Len(s) - 1
      /\ \A i \in 1..(Len(s) - 1) : Front(s)[i] = s[i]
  BY FrontLast
<1>3. PICK t : t = Append(Front(s), Last(s))
  OBVIOUS
<1>4. t \in Seq(S) /\ Len(t) = Len(s)
  BY <1>1, <1>2, <1>3, AppendProperties
<1>5. t[Len(s)] = s[Len(s)]
  BY <1>1, <1>2, <1>3, AppendProperties DEF Last
<1>6. \A i \in 1..(Len(s) - 1) : t[i] = s[i]
  BY <1>1, <1>2, <1>3, AppendProperties
<1>7. t = s
  BY <1>2, <1>4, <1>5, <1>6, SeqEqual
<1>8. Hits(t, T) = Hits(Front(s), T) + (IF Last(s) \in T THEN 1 ELSE 0)
  BY <1>1, <1>3, HitsAppend
<1> QED BY <1>7, <1>8

LEMMA HitsTail ==
  ASSUME NEW S, NEW s \in Seq(S), s # <<>>, NEW T
  PROVE  Hits(s, T) = Hits(Tail(s), T) + (IF Head(s) \in T THEN 1 ELSE 0)
<1>1. PICK t : t = Tail(s)
  OBVIOUS
<1>2. t \in Seq(S) /\ Len(s) \in Nat \ {0} /\ Len(t) = Len(s) - 1
  BY <1>1, HeadTailProperties, EmptySeq
<1>3. \A i \in 1..Len(t) : t[i] = s[i + 1]
  BY <1>1, HeadTailProperties
<1>4. Head(s) = s[1]
  BY <1>2
<1>5. PICK later : later = {i \in 2..Len(s) : s[i] \in T}
  OBVIOUS
<1>6. PICK f : f = [i \in PlacesOf(t, T) |-> i + 1]
  OBVIOUS
<1>7. f \in Bijection(PlacesOf(t, T), later)
  <2>1. f \in [PlacesOf(t, T) -> later]
    BY <1>2, <1>3, <1>5, <1>6 DEF PlacesOf
  <2>2. \A i, j \in PlacesOf(t, T) : f[i] = f[j] => i = j
    BY <1>2, <1>6 DEF PlacesOf
  <2>3. ASSUME NEW j \in later PROVE \E i \in PlacesOf(t, T) : f[i] = j
    <3>1. j - 1 \in PlacesOf(t, T)
      BY <1>2, <1>3, <1>5 DEF PlacesOf
    <3> QED BY <1>2, <1>5, <1>6, <3>1
  <2> QED BY <2>1, <2>2, <2>3 DEF Bijection, Injection, Surjection, IsInjective
<1>8. IsFiniteSet(PlacesOf(t, T)) /\ Hits(t, T) \in Nat
  BY <1>2, HitsType
<1>9. IsFiniteSet(later) /\ Cardinality(later) = Hits(t, T)
  BY <1>7, <1>8, FS_Bijection DEF Hits, ExistsBijection
<1>10. CASE s[1] \in T
  <2>1. PlacesOf(s, T) = later \cup {1} /\ 1 \notin later
    BY <1>2, <1>5, <1>10 DEF PlacesOf
  <2> QED BY <1>1, <1>4, <1>8, <1>9, <1>10, <2>1, FS_AddElement, ZenonT(30) DEF Hits
<1>11. CASE s[1] \notin T
  <2>1. PlacesOf(s, T) = later
    BY <1>2, <1>5, <1>11 DEF PlacesOf
  <2> QED BY <1>1, <1>4, <1>8, <1>9, <1>11, <2>1 DEF Hits
<1> QED BY <1>10, <1>11

LEMMA HitsExcept ==
  ASSUME NEW S, NEW s \in Seq(S), NEW k \in 1..Len(s), NEW x \in S, NEW T
  PROVE  Hits([s EXCEPT ![k] = x], T)
           = Hits(s, T) - (IF s[k] \in T THEN 1 ELSE 0) + (IF x \in T THEN 1 ELSE 0)
<1>1. PICK t : t = [s EXCEPT ![k] = x]
  OBVIOUS
<1>2. Len(s) \in Nat /\ Len(t) = Len(s)
  BY <1>1, ExceptSeq, LenProperties
<1>3. \A i \in 1..Len(s) : t[i] = IF i = k THEN x ELSE s[i]
  BY <1>1, ExceptSeq
<1>4. PICK others : others = PlacesOf(s, T) \ {k}
  OBVIOUS
<1>5. IsFiniteSet(PlacesOf(s, T)) /\ Hits(s, T) \in Nat
  BY HitsType
<1>6. /\ IsFiniteSet(others)
      /\ Cardinality(others) = Hits(s, T) - (IF s[k] \in T THEN 1 ELSE 0)
  <2>1. k \in PlacesOf(s, T) <=> s[k] \in T
    BY DEF PlacesOf
  <2>2. /\ IsFiniteSet(others)
        /\ Cardinality(others) = IF k \in PlacesOf(s, T) THEN Hits(s, T) - 1 ELSE Hits(s, T)
    BY <1>4, <1>5, FS_RemoveElement DEF Hits
  <2> QED BY <1>5, <2>1, <2>2
<1>7. Cardinality(others) \in Nat
  BY <1>6, FS_CardinalityType
<1>8. CASE x \in T
  <2>1. PlacesOf(t, T) = others \cup {k} /\ k \notin others
    BY <1>2, <1>3, <1>4, <1>8 DEF PlacesOf
  <2>2. Hits(t, T) = Cardinality(others) + 1
    BY <1>6, <2>1, FS_AddElement DEF Hits
  <2> QED BY <1>1, <1>6, <1>7, <1>8, <2>2
<1>9. CASE x \notin T
  <2>1. PlacesOf(t, T) = others
    BY <1>2, <1>3, <1>4, <1>9 DEF PlacesOf
  <2> QED BY <1>1, <1>5, <1>6, <1>7, <1>9, <2>1 DEF Hits
<1> QED BY <1>8, <1>9

-----------------------------------------------------------------------------
(* Sums over finite sets *)

\* The fold behind sums over a finite set.
FirstOf(s) == CHOOSE x \in s : TRUE
Sums(f, S, g) ==
  g = [s \in SUBSET S |-> IF s = {} THEN 0 ELSE f[FirstOf(s)] + g[s \ {FirstOf(s)}]]
SumOn(f, S) == FoldFunctionOnSet(+, 0, f, S)

LEMMA FirstIsIn == \A s : s # {} => FirstOf(s) \in s
BY DEF FirstOf

LEMMA SumIsFold ==
  ASSUME NEW f, NEW S
  PROVE  SumOn(f, S) = (CHOOSE g : Sums(f, S, g))[S]
BY DEF SumOn, FoldFunctionOnSet, MapThenFoldSet, Sums, FirstOf

LEMMA SumsExist ==
  ASSUME NEW f, NEW S, IsFiniteSet(S)
  PROVE  \E g : Sums(f, S, g)
<1> DEFINE Upto(n) == {s \in SUBSET S : Cardinality(s) <= n}
           Partial(n, g) == g = [s \in Upto(n) |->
              IF s = {} THEN 0 ELSE f[FirstOf(s)] + g[s \ {FirstOf(s)}]]
           P == {n \in Nat : \E g : Partial(n, g)}
<1>1. \A s \in SUBSET S : IsFiniteSet(s) /\ Cardinality(s) \in Nat /\ (Cardinality(s) = 0 <=> s = {})
  BY FS_Subset, FS_CardinalityType, FS_EmptySet
<1>2. \A s \in SUBSET S : s # {} =>
        /\ FirstOf(s) \in s /\ s \ {FirstOf(s)} \in SUBSET S
        /\ Cardinality(s \ {FirstOf(s)}) = Cardinality(s) - 1
  <2> TAKE s \in SUBSET S
  <2> HAVE s # {}
  <2>1. FirstOf(s) \in s
    BY FirstIsIn
  <2>2. IsFiniteSet(s)
    BY <1>1
  <2>3. Cardinality(s \ {FirstOf(s)}) = Cardinality(s) - 1
    BY <2>1, <2>2, FS_RemoveElement
  <2> QED BY <2>1, <2>3
<1>3. 0 \in P
  <2> DEFINE g == [s \in Upto(0) |-> 0]
  <2>1. \A s \in Upto(0) : s = {}
    BY <1>1
  <2>2. g = [s \in Upto(0) |-> IF s = {} THEN 0 ELSE f[FirstOf(s)] + g[s \ {FirstOf(s)}]]
    BY <2>1, Zenon
  <2>3. Partial(0, g)
    BY <2>2
  <2> QED BY <2>3
<1>4. ASSUME NEW n \in Nat, n \in P PROVE n + 1 \in P
  <2>1. PICK h : Partial(n, h)
    BY <1>4
  <2>2. \A s \in Upto(n) : h[s] = IF s = {} THEN 0 ELSE f[FirstOf(s)] + h[s \ {FirstOf(s)}]
    BY <2>1, Zenon
  <2> DEFINE g == [s \in Upto(n + 1) |->
                     IF s = {} THEN 0 ELSE f[FirstOf(s)] + h[s \ {FirstOf(s)}]]
  <2>3. \A s \in Upto(n) : s \in Upto(n + 1) /\ g[s] = h[s]
    <3>1. \A s \in Upto(n) : s \in Upto(n + 1)
      BY <1>1
    <3> HIDE DEF Upto
    <3> QED BY <2>2, <3>1
  <2>4. \A s \in Upto(n + 1) : s # {} => s \ {FirstOf(s)} \in Upto(n)
    BY <1>1, <1>2
  <2>5. \A s \in Upto(n + 1) :
          g[s] = IF s = {} THEN 0 ELSE f[FirstOf(s)] + g[s \ {FirstOf(s)}]
    <3> HIDE DEF Upto
    <3>1. \A s \in Upto(n + 1) : g[s] = IF s = {} THEN 0 ELSE f[FirstOf(s)] + h[s \ {FirstOf(s)}]
      OBVIOUS
    <3>2. \A s \in Upto(n + 1) : s # {} => g[s \ {FirstOf(s)}] = h[s \ {FirstOf(s)}]
      BY <2>3, <2>4
    <3> HIDE DEF g
    <3> QED BY <3>1, <3>2
  <2>6. g = [s \in Upto(n + 1) |-> g[s]]
    OBVIOUS
  <2>7. Partial(n + 1, g)
    <3> HIDE DEF Upto, g
    <3> QED BY <2>5, <2>6, Zenon
  <2> HIDE DEF Partial, g
  <2>8. \E k : Partial(n + 1, k)
    BY <2>7
  <2> QED BY <2>8
<1>5. Cardinality(S) \in P
  <2>1. Cardinality(S) \in Nat
    BY FS_CardinalityType
  <2> HIDE DEF P
  <2> QED BY <1>3, <1>4, <2>1, NatInd
<1>6. Upto(Cardinality(S)) = SUBSET S
  <2>1. \A s \in SUBSET S : Cardinality(s) <= Cardinality(S)
    BY FS_Subset
  <2> QED BY <2>1
<1>7. PICK g : Partial(Cardinality(S), g)
  BY <1>5
<1>8. Sums(f, S, g)
  <2> HIDE DEF Upto
  <2> QED BY <1>6, <1>7 DEF Sums
<1> QED BY <1>8

Recurs(f, S, g) ==
  /\ g[{}] = 0
  /\ \A s \in SUBSET S : s # {} => g[s] = f[FirstOf(s)] + g[s \ {FirstOf(s)}]

LEMMA SumsRecur ==
  ASSUME NEW f, NEW S, NEW g, Sums(f, S, g)
  PROVE  Recurs(f, S, g)
<1>1. \A s \in SUBSET S : g[s] = IF s = {} THEN 0 ELSE f[FirstOf(s)] + g[s \ {FirstOf(s)}]
  BY DEF Sums
<1> QED BY <1>1 DEF Recurs

\* Sums over a subset do not depend on the set it is taken from.
LEMMA SumsAgree ==
  ASSUME NEW f, NEW S, IsFiniteSet(S), NEW g, Sums(f, S, g),
         NEW R \in SUBSET S, NEW h, Sums(f, R, h)
  PROVE  g[R] = h[R]
<1> DEFINE P == {n \in Nat : \A s \in SUBSET R : Cardinality(s) = n => g[s] = h[s]}
<1>1. \A s \in SUBSET R : s \in SUBSET S /\ IsFiniteSet(s) /\ Cardinality(s) \in Nat /\ (Cardinality(s) = 0 <=> s = {})
  BY FS_Subset, FS_CardinalityType, FS_EmptySet
<1>5. g[{}] = 0 /\ \A s \in SUBSET S : s # {} => g[s] = f[FirstOf(s)] + g[s \ {FirstOf(s)}]
  <2>1. Recurs(f, S, g)
    BY SumsRecur
  <2> QED BY <2>1 DEF Recurs
<1>6. h[{}] = 0 /\ \A s \in SUBSET R : s # {} => h[s] = f[FirstOf(s)] + h[s \ {FirstOf(s)}]
  BY SumsRecur DEF Recurs
<1>2. 0 \in P
  BY <1>1, <1>5, <1>6
<1>3. ASSUME NEW n \in Nat, n \in P PROVE n + 1 \in P
  <2> SUFFICES ASSUME NEW s \in SUBSET R, Cardinality(s) = n + 1 PROVE g[s] = h[s]
    OBVIOUS
  <2>1. s # {} /\ FirstOf(s) \in s
    BY <1>1, FirstIsIn
  <2>2. Cardinality(s \ {FirstOf(s)}) = Cardinality(s) - 1
    BY <1>1, <2>1, FS_RemoveElement
  <2>3. s \ {FirstOf(s)} \in SUBSET R /\ Cardinality(s \ {FirstOf(s)}) = n
    BY <2>2
  <2>4. g[s \ {FirstOf(s)}] = h[s \ {FirstOf(s)}]
    BY <1>3, <2>3
  <2>5. g[s] = f[FirstOf(s)] + g[s \ {FirstOf(s)}]
    BY <1>1, <1>5, <2>1
  <2>6. h[s] = f[FirstOf(s)] + h[s \ {FirstOf(s)}]
    BY <1>6, <2>1
  <2> QED BY <2>4, <2>5, <2>6
<1>4. \A n \in Nat : n \in P
  <2> HIDE DEF P
  <2> QED BY <1>2, <1>3, NatInd
<1> QED BY <1>1, <1>4

LEMMA SumOnSums ==
  ASSUME NEW f, NEW S, IsFiniteSet(S), NEW g, Sums(f, S, g), NEW R \in SUBSET S
  PROVE  SumOn(f, R) = g[R]
<1>1. IsFiniteSet(R)
  BY FS_Subset
<1>2. PICK h : Sums(f, R, h) /\ SumOn(f, R) = h[R]
  <2>1. Sums(f, R, CHOOSE k : Sums(f, R, k))
    BY <1>1, SumsExist
  <2> QED BY <2>1, SumIsFold
<1>3. g[R] = h[R]
  BY <1>2, SumsAgree
<1> QED BY <1>2, <1>3

\* A sum over a finite set is a number, and any one element can be taken out.
LEMMA SumOut ==
  ASSUME NEW f, NEW S, IsFiniteSet(S), \A x \in S : f[x] \in Int
  PROVE  /\ SumOn(f, {}) = 0
         /\ SumOn(f, S) \in Int
         /\ \A x \in S : SumOn(f, S) = f[x] + SumOn(f, S \ {x})
<1>1. PICK g : Sums(f, S, g)
  BY SumsExist
<1>2. \A s \in SUBSET S : IsFiniteSet(s) /\ Cardinality(s) \in Nat /\ (Cardinality(s) = 0 <=> s = {})
  BY FS_Subset, FS_CardinalityType, FS_EmptySet
<1>3. \A s \in SUBSET S : s # {} => FirstOf(s) \in s /\ g[s] = f[FirstOf(s)] + g[s \ {FirstOf(s)}]
  <2>1. Recurs(f, S, g)
    BY <1>1, SumsRecur
  <2> QED BY <2>1, FirstIsIn DEF Recurs
<1>4. g[{}] = 0
  BY <1>1, SumsRecur DEF Recurs
<1>5. \A s \in SUBSET S, x \in S : x \in s => Cardinality(s \ {x}) = Cardinality(s) - 1
  BY <1>2, FS_RemoveElement
<1> DEFINE Good(s) == g[s] \in Int /\ \A x \in s : g[s] = f[x] + g[s \ {x}]
           P == {n \in Nat : \A s \in SUBSET S : Cardinality(s) <= n => Good(s)}
<1>6. 0 \in P
  <2>1. \A s \in SUBSET S : Cardinality(s) <= 0 => s = {}
    BY <1>2
  <2>2. Good({})
    BY <1>4
  <2> HIDE DEF Good
  <2> QED BY <2>1, <2>2
<1>7. ASSUME NEW n \in Nat, n \in P PROVE n + 1 \in P
  <2> SUFFICES ASSUME NEW s \in SUBSET S, Cardinality(s) <= n + 1 PROVE Good(s)
    OBVIOUS
  <2>1. CASE s = {}
    BY <1>4, <2>1
  <2>2. CASE s # {}
    <3>1. PICK c : c = FirstOf(s)
      OBVIOUS
    <3>2. c \in s /\ c \in S /\ g[s] = f[c] + g[s \ {c}]
      BY <1>3, <2>2, <3>1
    <3>3. \A x \in s : s \ {x} \in SUBSET S /\ Cardinality(s \ {x}) <= n
      BY <1>2, <1>5
    <3>4. \A x \in s : Good(s \ {x})
      <4> HIDE DEF Good
      <4> QED BY <1>7, <3>3
    <3>5. \A x \in s : f[x] \in Int /\ g[s \ {x}] \in Int
      BY <3>4
    <3>6. g[s] \in Int
      BY <3>2, <3>5
    <3>7. ASSUME NEW x \in s, x # c PROVE g[s] = f[x] + g[s \ {x}]
      <4>1. g[s \ {c}] = f[x] + g[(s \ {c}) \ {x}]
        BY <3>2, <3>4, <3>7
      <4>2. g[s \ {x}] = f[c] + g[(s \ {x}) \ {c}]
        BY <3>2, <3>4, <3>7
      <4>3. (s \ {c}) \ {x} = (s \ {x}) \ {c}
        OBVIOUS
      <4>4. PICK rest : rest = g[(s \ {x}) \ {c}]
        OBVIOUS
      <4>5. rest \in Int
        <5>1. c \in s \ {x} /\ s \ {x} \in SUBSET S /\ Cardinality(s \ {x}) <= n
          BY <3>2, <3>3, <3>7
        <5>2. Cardinality((s \ {x}) \ {c}) = Cardinality(s \ {x}) - 1 /\ Cardinality(s \ {x}) \in Nat
          BY <1>2, <1>5, <3>2, <5>1
        <5>3. (s \ {x}) \ {c} \in SUBSET S /\ Cardinality((s \ {x}) \ {c}) <= n
          BY <5>1, <5>2
        <5>4. Good((s \ {x}) \ {c})
          <6> HIDE DEF Good
          <6> QED BY <1>7, <5>3
        <5> QED BY <4>4, <5>4
      <4>6. f[x] \in Int /\ f[c] \in Int
        BY <3>2, <3>5
      <4>7. g[s \ {c}] = f[x] + rest /\ g[s \ {x}] = f[c] + rest
        BY <4>1, <4>2, <4>3, <4>4
      <4> QED BY <3>2, <4>5, <4>6, <4>7
    <3> QED BY <3>2, <3>6, <3>7
  <2> QED BY <2>1, <2>2
<1>8. \A n \in Nat : n \in P
  <2> HIDE DEF P
  <2> QED BY <1>6, <1>7, NatInd
<1>9. Good(S)
  <2> HIDE DEF Good
  <2> QED BY <1>2, <1>8
<1>10. \A R \in SUBSET S : SumOn(f, R) = g[R]
  BY <1>1, SumOnSums
<1> QED BY <1>4, <1>9, <1>10

\* Induction over the subsets of a finite set.
LEMMA SetInd ==
  ASSUME NEW S, IsFiniteSet(S), NEW P, {} \in P,
         \A T \in SUBSET S, x \in S : T \in P => T \cup {x} \in P
  PROVE  S \in P
<1> DEFINE Q == {n \in Nat : \A T \in SUBSET S : Cardinality(T) = n => T \in P}
<1>1. \A T \in SUBSET S : IsFiniteSet(T) /\ Cardinality(T) \in Nat /\ (Cardinality(T) = 0 <=> T = {})
  BY FS_Subset, FS_CardinalityType, FS_EmptySet
<1>2. 0 \in Q
  BY <1>1
<1>3. ASSUME NEW n \in Nat, n \in Q PROVE n + 1 \in Q
  <2> SUFFICES ASSUME NEW T \in SUBSET S, Cardinality(T) = n + 1 PROVE T \in P
    OBVIOUS
  <2>1. PICK x : x \in T
    BY <1>1
  <2>2. Cardinality(T \ {x}) = Cardinality(T) - 1
    BY <1>1, <2>1, FS_RemoveElement
  <2>3. T \ {x} \in P
    BY <1>3, <2>2
  <2>4. (T \ {x}) \cup {x} = T
    BY <2>1
  <2> QED BY <2>1, <2>3, <2>4
<1>4. \A n \in Nat : n \in Q
  <2> HIDE DEF Q
  <2> QED BY <1>2, <1>3, NatInd
<1> QED BY <1>1, <1>4

LEMMA SumAdd ==
  ASSUME NEW f, NEW S, IsFiniteSet(S), \A x \in S : f[x] \in Int, NEW T \in SUBSET S,
         NEW x \in S, x \notin T
  PROVE  SumOn(f, T) \in Int /\ SumOn(f, T \cup {x}) = f[x] + SumOn(f, T)
<1>1. IsFiniteSet(T) /\ IsFiniteSet(T \cup {x})
  BY FS_Subset
<1>2. (T \cup {x}) \ {x} = T
  OBVIOUS
<1>3. SumOn(f, T) \in Int
  BY <1>1, SumOut
<1>4. \A y \in T \cup {x} : SumOn(f, T \cup {x}) = f[y] + SumOn(f, (T \cup {x}) \ {y})
  <2>1. \A y \in T \cup {x} : f[y] \in Int
    OBVIOUS
  <2> QED BY <1>1, <2>1, SumOut
<1> QED BY <1>2, <1>3, <1>4

LEMMA SumAlike ==
  ASSUME NEW f, NEW h, NEW S, IsFiniteSet(S), \A x \in S : f[x] \in Int /\ h[x] = f[x]
  PROVE  SumOn(h, S) = SumOn(f, S)
<1> DEFINE P == {T \in SUBSET S : SumOn(h, T) = SumOn(f, T)}
<1>1. \A x \in S : h[x] \in Int
  OBVIOUS
<1>2. {} \in P
  BY <1>1, SumOut
<1>3. ASSUME NEW T \in SUBSET S, NEW x \in S, T \in P PROVE T \cup {x} \in P
  <2>1. CASE x \in T
    <3>1. T \cup {x} = T
      BY <2>1
    <3> QED BY <1>3, <3>1
  <2>2. CASE x \notin T
    <3>1. SumOn(f, T \cup {x}) = f[x] + SumOn(f, T)
      BY <2>2, SumAdd
    <3>2. SumOn(h, T \cup {x}) = h[x] + SumOn(h, T)
      BY <1>1, <2>2, SumAdd
    <3> QED BY <1>3, <3>1, <3>2
  <2> QED BY <2>1, <2>2
<1> HIDE DEF P
<1>4. S \in P
  BY <1>2, <1>3, SetInd
<1> QED BY <1>4 DEF P

\* A sum of naturals is one, at least as large as each, and 0 only when all are.
LEMMA SumNat ==
  ASSUME NEW f, NEW S, IsFiniteSet(S), \A x \in S : f[x] \in Nat
  PROVE  /\ SumOn(f, S) \in Nat
         /\ \A x \in S : f[x] <= SumOn(f, S)
         /\ (\A x \in S : f[x] = 0) => SumOn(f, S) = 0
<1> DEFINE Z == \A x \in S : f[x] = 0
           P == {T \in SUBSET S : /\ SumOn(f, T) \in Nat
                                  /\ \A x \in T : f[x] <= SumOn(f, T)
                                  /\ Z => SumOn(f, T) = 0}
<1>1. \A x \in S : f[x] \in Int
  OBVIOUS
<1>2. {} \in P
  BY <1>1, SumOut
<1>3. ASSUME NEW T \in SUBSET S, NEW x \in S, T \in P PROVE T \cup {x} \in P
  <2>1. CASE x \in T
    <3>1. T \cup {x} = T
      BY <2>1
    <3> QED BY <1>3, <3>1
  <2>2. CASE x \notin T
    <3>1. SumOn(f, T \cup {x}) = f[x] + SumOn(f, T)
      BY <1>1, <2>2, SumAdd
    <3> QED BY <1>3, <3>1
  <2> QED BY <2>1, <2>2
<1> HIDE DEF P
<1>4. S \in P
  BY <1>2, <1>3, SetInd
<1> QED BY <1>4 DEF P

\* One summand changes.
Differs(f, h, S, k) ==
  /\ IsFiniteSet(S) /\ k \in S /\ h[k] \in Int
  /\ \A x \in S : f[x] \in Int /\ (x # k => h[x] = f[x])

LEMMA SumChange ==
  ASSUME NEW f, NEW h, NEW S, NEW k, Differs(f, h, S, k)
  PROVE  SumOn(h, S) = SumOn(f, S) - f[k] + h[k]
<1> USE DEF Differs
<1>1. \A x \in S : h[x] \in Int
  OBVIOUS
<1>2. SumOn(f, S) = f[k] + SumOn(f, S \ {k})
  BY SumOut
<1>3. SumOn(h, S) = h[k] + SumOn(h, S \ {k})
  BY <1>1, SumOut
<1>4. IsFiniteSet(S \ {k}) /\ \A x \in S \ {k} : f[x] \in Int /\ h[x] = f[x]
  BY FS_Subset
<1>5. SumOn(h, S \ {k}) = SumOn(f, S \ {k}) /\ SumOn(f, S \ {k}) \in Int
  BY <1>4, SumAlike, SumOut
<1> QED BY <1>2, <1>3, <1>5

\* Sums over the places of a list.
LEMMA SumMore ==
  ASSUME NEW n \in Nat, NEW f, NEW h, \A i \in 1..n : f[i] \in Int /\ h[i] = f[i],
         h[n + 1] \in Int
  PROVE  SumOn(h, 1..(n + 1)) = SumOn(f, 1..n) + h[n + 1]
<1>1. PICK S, T : S = 1..(n + 1) /\ T = 1..n
  OBVIOUS
<1>2. IsFiniteSet(S) /\ IsFiniteSet(T)
  BY <1>1, FS_Interval
<1>3. T \in SUBSET S /\ n + 1 \in S /\ n + 1 \notin T /\ S = T \cup {n + 1}
  BY <1>1
<1>4. \A i \in S : h[i] \in Int
  BY <1>1, <1>3
<1>5. \A i \in T : f[i] \in Int /\ h[i] = f[i]
  BY <1>1
<1>6. SumOn(h, T) \in Int /\ SumOn(h, S) = h[n + 1] + SumOn(h, T)
  <2>1. SumOn(h, T) \in Int /\ SumOn(h, T \cup {n + 1}) = h[n + 1] + SumOn(h, T)
    BY <1>2, <1>3, <1>4, SumAdd
  <2> QED BY <1>3, <2>1
<1>7. SumOn(h, T) = SumOn(f, T)
  BY <1>2, <1>5, SumAlike
<1>8. SumOn(h, S) = SumOn(f, T) + h[n + 1]
  BY <1>6, <1>7
<1> QED BY <1>1, <1>8

\* Two disjoint sets.
LEMMA SumUnion ==
  ASSUME NEW f, NEW R, NEW S, IsFiniteSet(R), IsFiniteSet(S), R \cap S = {},
         \A x \in R \cup S : f[x] \in Int
  PROVE  SumOn(f, R \cup S) = SumOn(f, R) + SumOn(f, S)
<1>1. IsFiniteSet(R \cup S)
  BY FS_Union
<1>2. SumOn(f, R) \in Int
  BY SumOut
<1> DEFINE P == {T \in SUBSET S : SumOn(f, R \cup T) = SumOn(f, R) + SumOn(f, T)}
<1>3. {} \in P
  <2>1. R \cup {} = R /\ SumOn(f, {}) = 0
    BY SumOut
  <2> QED BY <1>2, <2>1
<1>4. ASSUME NEW T \in SUBSET S, NEW x \in S, T \in P PROVE T \cup {x} \in P
  <2>1. CASE x \in T
    <3>1. T \cup {x} = T
      BY <2>1
    <3> QED BY <1>4, <3>1
  <2>2. CASE x \notin T
    <3>1. SumOn(f, T) \in Int /\ SumOn(f, T \cup {x}) = f[x] + SumOn(f, T)
      BY <2>2, SumAdd
    <3>2. R \cup T \in SUBSET (R \cup S) /\ x \in R \cup S /\ x \notin R \cup T
      BY <2>2
    <3>3. SumOn(f, (R \cup T) \cup {x}) = f[x] + SumOn(f, R \cup T)
      BY <1>1, <3>2, SumAdd
    <3>4. (R \cup T) \cup {x} = R \cup (T \cup {x})
      OBVIOUS
    <3>5. f[x] \in Int
      OBVIOUS
    <3>6. SumOn(f, R \cup (T \cup {x})) = SumOn(f, R) + SumOn(f, T \cup {x})
      <4>1. SumOn(f, R \cup T) = SumOn(f, R) + SumOn(f, T)
        BY <1>4
      <4>2. PICK a \in Int, b \in Int : a = SumOn(f, R) /\ b = SumOn(f, T)
        BY <1>2, <3>1
      <4>3. SumOn(f, R \cup (T \cup {x})) = f[x] + (a + b) /\ SumOn(f, T \cup {x}) = f[x] + b
        BY <3>1, <3>3, <3>4, <4>1, <4>2
      <4> QED BY <3>5, <4>2, <4>3
    <3> QED BY <3>6
  <2> QED BY <2>1, <2>2
<1> HIDE DEF P
<1>5. S \in P
  BY <1>3, <1>4, SetInd
<1> QED BY <1>5 DEF P
=============================================================================
