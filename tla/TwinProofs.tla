------------------------------ MODULE TwinProofs ------------------------------
(***************************************************************************)
(* Theorems about Twin for any processes, atoms, likeness and bounds.      *)
(*                                                                         *)
(* Keep and Culled are recursive functions.  That such a function exists,  *)
(* and what it returns for a sequence of any length, follows from the      *)
(* least counterexample (LeastNatural): no induction theorem is needed.    *)
(***************************************************************************)
EXTENDS Twin, TLAPS, WellFoundedInduction, SequenceTheorems, FiniteSetTheorems

LEMMA LeastNatural ==
  ASSUME NEW S \in SUBSET Nat, S # {}
  PROVE  \E m \in S : \A k \in S : m <= k
  <1> DEFINE less == OpToRel(<, Nat)
  <1>1. IsWellFoundedOn(less, Nat)
    BY NatLessThanWellFounded
  <1>2. \A x, y \in Nat : <<x, y>> \in less <=> x < y
    BY DEF OpToRel
  <1> HIDE DEF less
  <1>3. PICK m \in S : \A k \in S : ~(<<k, m>> \in less)
    BY <1>1, WFMin
  <1>4. \A k \in S : ~(k < m)
    BY <1>2, <1>3
  <1>5. \A k \in S : m <= k
    BY <1>4
  <1> QED
    BY <1>5

\* A function on 0 .. n, each value of which a step makes of the one before.
Steps(n, V) == [1 .. n -> [V -> V]]

Recursive(f, n, v, step) == f[0] = v /\ \A i \in 1 .. n : f[i] = step[i][f[i - 1]]

LEMMA Recursion ==
  ASSUME NEW n \in Nat, NEW V, NEW v \in V, NEW step \in Steps(n, V)
  PROVE  \E f \in [0 .. n -> V] : Recursive(f, n, v, step)
  <1> DEFINE Is(f, m) == Recursive(f, m, v, step)
             bad == {m \in 0 .. n : \A f \in [0 .. m -> V] : ~Is(f, m)}
  <1> SUFFICES ASSUME n \in bad PROVE FALSE
    OBVIOUS
  <1>1. PICK m \in bad : \A k \in bad : m <= k
    <2>1. bad \in SUBSET Nat /\ bad # {}
      OBVIOUS
    <2> HIDE DEF bad
    <2> QED
      BY <2>1, LeastNatural
  <1>2. m # 0
    <2>1. [i \in 0 .. 0 |-> v] \in [0 .. 0 -> V] /\ Is([i \in 0 .. 0 |-> v], 0)
      BY DEF Recursive
    <2> QED
      BY <2>1
  <1>3. PICK k \in 0 .. n : k = m - 1 /\ k \notin bad
    BY <1>1, <1>2
  <1>4. PICK f \in [0 .. k -> V] : Is(f, k)
    BY <1>3
  <1> DEFINE g == [i \in 0 .. m |-> IF i = m THEN step[m][f[k]] ELSE f[i]]
  <1>5. m \in 1 .. n /\ f[k] \in V /\ step[m][f[k]] \in V
    BY <1>2, <1>3, <1>4 DEF Steps
  <1>6. g \in [0 .. m -> V]
    BY <1>3, <1>4, <1>5
  <1>7. Is(g, m)
    <2>1. g[0] = v
      BY <1>4, <1>5 DEF Recursive
    <2>2. ASSUME NEW i \in 1 .. m
          PROVE  g[i] = step[i][g[i - 1]]
      <3>1. CASE i = m
        <4>1. g[i] = step[m][f[k]] /\ g[i - 1] = f[k]
          BY <1>3, <1>5, <3>1
        <4> QED
          BY <3>1, <4>1
      <3>2. CASE i # m
        <4>1. i \in 1 .. k /\ i - 1 \in 0 .. k
          BY <1>3, <1>5, <3>2
        <4>2. g[i] = f[i] /\ g[i - 1] = f[i - 1]
          BY <1>3, <1>5, <3>2, <4>1
        <4> QED
          BY <1>4, <4>1, <4>2 DEF Recursive
      <3> QED
        BY <3>1, <3>2
    <2> HIDE DEF g
    <2> QED
      BY <2>1, <2>2 DEF Recursive
  <1> QED
    BY <1>1, <1>6, <1>7

\* kept is the function that Keep builds.
Collects(kept, s, S) ==
  /\ kept[0] = <<>>
  /\ \A i \in 1 .. Len(s) :
       kept[i] = IF s[i] \in S THEN Append(kept[i - 1], s[i]) ELSE kept[i - 1]

LEMMA KeepRecursion ==
  ASSUME NEW T, NEW s \in Seq(T), NEW S
  PROVE  \E kept : Collects(kept, s, S) /\ Keep(s, S) = kept[Len(s)]
  <1> PICK n \in Nat : n = Len(s)
    BY LenProperties
  <1> DEFINE next(i, t) == IF s[i] \in S THEN Append(t, s[i]) ELSE t
             def(f, i) == IF i = 0 THEN <<>> ELSE IF s[i] \in S THEN Append(f[i - 1], s[i]) ELSE f[i - 1]
             Eq(f) == f = [i \in 0 .. n |-> def(f, i)]
  <1>1. PICK step : step = [i \in 1 .. n |-> [t \in Seq(T) |-> next(i, t)]]
    OBVIOUS
  <1>2. step \in [1 .. n -> [Seq(T) -> Seq(T)]]
    <2>1. ASSUME NEW i \in 1 .. n, NEW t \in Seq(T)
          PROVE  next(i, t) \in Seq(T)
      <3>1. PICK e \in T : e = s[i]
        BY ElementOfSeq
      <3>2. Append(t, e) \in Seq(T)
        BY AppendProperties
      <3> QED
        BY <3>1, <3>2
    <2> HIDE DEF next
    <2> QED
      BY <1>1, <2>1
  <1>3. PICK v \in Seq(T) : v = <<>>
    BY EmptySeq
  <1>4. PICK f \in [0 .. n -> Seq(T)] :
          f[0] = v /\ \A i \in 1 .. n : f[i] = step[i][f[i - 1]]
    <2>1. step \in Steps(n, Seq(T))
      BY <1>2 DEF Steps
    <2>2. PICK f \in [0 .. n -> Seq(T)] : Recursive(f, n, v, step)
      BY <2>1, Recursion
    <2> QED
      BY <2>2 DEF Recursive
  <1>5. \A i \in 1 .. n : f[i] = next(i, f[i - 1])
    <2>1. \A i \in 1 .. n : f[i - 1] \in Seq(T)
      BY <1>4
    <2> HIDE DEF next
    <2> QED
      BY <1>1, <1>4, <2>1
  <1>6. Eq(f)
    <2>1. ASSUME NEW i \in 0 .. n
          PROVE  f[i] = def(f, i)
      <3>1. CASE i = 0
        BY <1>3, <1>4, <3>1
      <3>2. CASE i # 0
        <4>1. i \in 1 .. n
          BY <3>2
        <4>2. f[i] = next(i, f[i - 1])
          BY <1>5, <4>1
        <4> QED
          BY <3>2, <4>2
      <3> QED
        BY <3>1, <3>2
    <2> HIDE DEF def
    <2> QED
      BY <1>4, <2>1
  <1>7. Keep(s, S) = (CHOOSE g : Eq(g))[n]
    BY Zenon DEF Keep
  <1>8. PICK kept : Eq(kept) /\ Keep(s, S) = kept[n]
    <2> HIDE DEF Eq
    <2>1. Eq(CHOOSE g : Eq(g))
      BY <1>6, Zenon
    <2> QED
      BY <1>7, <2>1
  <1>9. \A i \in 0 .. n : kept[i] = def(kept, i)
    <2> HIDE DEF def
    <2> QED
      BY <1>8
  <1>10. kept[0] = <<>>
    BY <1>9
  <1>11. \A i \in 1 .. n :
           kept[i] = IF s[i] \in S THEN Append(kept[i - 1], s[i]) ELSE kept[i - 1]
    BY <1>9
  <1> QED
    BY <1>8, <1>10, <1>11 DEF Collects

LEMMA NamesOfAppend ==
  ASSUME NEW T, NEW t \in Seq(T), NEW e \in T
  PROVE  /\ Append(t, e) \in Seq(T)
         /\ NamesOf(Append(t, e)) = NamesOf(t) \cup {e}
         /\ IsInjective(t) /\ e \notin NamesOf(t) => IsInjective(Append(t, e))
  <1>1. /\ Append(t, e) \in Seq(T)
        /\ Len(Append(t, e)) = Len(t) + 1 /\ Len(t) \in Nat
        /\ \A i \in 1 .. Len(t) : Append(t, e)[i] = t[i]
        /\ Append(t, e)[Len(t) + 1] = e
    OBVIOUS
  <1>2. NamesOf(Append(t, e)) = NamesOf(t) \cup {e}
    <2>1. ASSUME NEW x \in NamesOf(Append(t, e)) PROVE x \in NamesOf(t) \cup {e}
      <3>1. PICK i \in 1 .. Len(t) + 1 : x = Append(t, e)[i]
        BY <1>1 DEF NamesOf
      <3> QED
        BY <1>1, <3>1 DEF NamesOf
    <2>2. ASSUME NEW x \in NamesOf(t) PROVE x \in NamesOf(Append(t, e))
      <3>1. PICK i \in 1 .. Len(t) : x = t[i]
        BY DEF NamesOf
      <3>2. i \in 1 .. Len(t) + 1 /\ x = Append(t, e)[i]
        BY <1>1, <3>1
      <3> QED
        BY <1>1, <3>2 DEF NamesOf
    <2>3. e \in NamesOf(Append(t, e))
      <3>1. Len(t) + 1 \in 1 .. Len(t) + 1
        BY <1>1
      <3> QED
        BY <1>1, <3>1 DEF NamesOf
    <2> QED
      BY <2>1, <2>2, <2>3
  <1>3. ASSUME IsInjective(t), e \notin NamesOf(t)
        PROVE  IsInjective(Append(t, e))
    <2>1. ASSUME NEW i \in 1 .. Len(t) + 1, NEW j \in 1 .. Len(t) + 1,
                 Append(t, e)[i] = Append(t, e)[j]
          PROVE  i = j
      <3>1. \A k \in 1 .. Len(t) : t[k] # e
        BY <1>3 DEF NamesOf
      <3>2. \A k, l \in 1 .. Len(t) : t[k] = t[l] => k = l
        BY <1>3 DEF IsInjective
      <3> QED
        BY <1>1, <2>1, <3>1, <3>2
    <2>2. DOMAIN Append(t, e) = 1 .. Len(t) + 1
      BY <1>1
    <2> QED
      BY <2>1, <2>2 DEF IsInjective
  <1> QED
    BY <1>1, <1>2, <1>3

LEMMA KeepProperties ==
  ASSUME NEW T, NEW s \in Seq(T), NEW S
  PROVE  /\ Keep(s, S) \in Seq(T)
         /\ NamesOf(Keep(s, S)) = NamesOf(s) \cap S
         /\ IsInjective(s) => IsInjective(Keep(s, S))
         /\ NamesOf(s) \subseteq S => Keep(s, S) = s
  <1>1. PICK n \in Nat : n = Len(s)
    BY LenProperties
  <1>2. PICK kept : /\ kept[0] = <<>>
                    /\ \A i \in 1 .. n :
                         kept[i] = IF s[i] \in S THEN Append(kept[i - 1], s[i]) ELSE kept[i - 1]
                    /\ Keep(s, S) = kept[n]
    <2>1. PICK kept : Collects(kept, s, S) /\ Keep(s, S) = kept[Len(s)]
      BY KeepRecursion
    <2> QED
      BY <1>1, <2>1 DEF Collects
  <1>3. \A i \in 1 .. n : s[i] \in T
    BY <1>1, ElementOfSeq
  <1>4. DOMAIN s = 1 .. n
    BY <1>1
  <1> DEFINE first(i) == {s[j] : j \in 1 .. i}
             Fine(i) == /\ kept[i] \in Seq(T)
                        /\ NamesOf(kept[i]) = first(i) \cap S
                        /\ IsInjective(s) => IsInjective(kept[i])
                        /\ NamesOf(s) \subseteq S =>
                             Len(kept[i]) = i /\ \A j \in 1 .. i : kept[i][j] = s[j]
             bad == {i \in 0 .. n : ~Fine(i)}
  <1>5. Fine(0)
    <2>1. <<>> \in Seq(T) /\ Len(<<>>) = 0 /\ DOMAIN <<>> = {}
      OBVIOUS
    <2>2. NamesOf(<<>>) = {} /\ IsInjective(<<>>)
      BY <2>1 DEF NamesOf, IsInjective
    <2>3. first(0) = {}
      OBVIOUS
    <2> QED
      BY <1>2, <2>1, <2>2, <2>3
  <1>6. ASSUME NEW i \in 1 .. n, Fine(i - 1)
        PROVE  Fine(i)
    <2>1. first(i) = first(i - 1) \cup {s[i]}
      <3>1. 1 .. i = 1 .. (i - 1) \cup {i}
        OBVIOUS
      <3> QED
        BY <3>1
    <2>2. s[i] \in T /\ s[i] \in NamesOf(s)
      BY <1>1, <1>3 DEF NamesOf
    <2>3. CASE s[i] \in S
      <3>1. kept[i] = Append(kept[i - 1], s[i])
        BY <1>2, <2>3
      <3>2. /\ kept[i] \in Seq(T)
            /\ NamesOf(kept[i]) = NamesOf(kept[i - 1]) \cup {s[i]}
            /\ IsInjective(kept[i - 1]) /\ s[i] \notin NamesOf(kept[i - 1]) => IsInjective(kept[i])
        <4>1. PICK t \in Seq(T), x \in T : t = kept[i - 1] /\ x = s[i]
          BY <1>6, <2>2
        <4>2. /\ Append(t, x) \in Seq(T)
              /\ NamesOf(Append(t, x)) = NamesOf(t) \cup {x}
              /\ IsInjective(t) /\ x \notin NamesOf(t) => IsInjective(Append(t, x))
          BY NamesOfAppend
        <4> QED
          BY <3>1, <4>1, <4>2
      <3>3. NamesOf(kept[i]) = first(i) \cap S
        BY <1>6, <2>1, <2>3, <3>2
      <3>4. ASSUME IsInjective(s) PROVE IsInjective(kept[i])
        <4>1. s[i] \notin first(i - 1)
          <5>1. ASSUME NEW j \in 1 .. i - 1, s[j] = s[i] PROVE FALSE
            <6>1. j \in 1 .. n /\ j # i
              OBVIOUS
            <6> QED
              BY <1>4, <3>4, <5>1, <6>1 DEF IsInjective
          <5> QED
            BY <5>1
        <4> QED
          BY <1>6, <3>2, <3>4, <4>1
      <3>5. ASSUME NamesOf(s) \subseteq S
            PROVE  Len(kept[i]) = i /\ \A j \in 1 .. i : kept[i][j] = s[j]
        <4>1. kept[i - 1] \in Seq(T) /\ Len(kept[i - 1]) = i - 1
              /\ \A j \in 1 .. i - 1 : kept[i - 1][j] = s[j]
          BY <1>6, <3>5
        <4>2. Len(kept[i]) = i
          BY <2>2, <3>1, <4>1
        <4>3. ASSUME NEW j \in 1 .. i PROVE kept[i][j] = s[j]
          BY <2>2, <3>1, <4>1
        <4> QED
          BY <4>2, <4>3
      <3> QED
        BY <3>2, <3>3, <3>4, <3>5
    <2>4. CASE s[i] \notin S
      <3>1. kept[i] = kept[i - 1]
        BY <1>2, <2>4
      <3>2. ~(NamesOf(s) \subseteq S)
        BY <2>2, <2>4
      <3>3. first(i) \cap S = first(i - 1) \cap S
        BY <2>1, <2>4
      <3> HIDE DEF first
      <3> QED
        BY <1>6, <3>1, <3>2, <3>3
    <2> QED
      BY <2>3, <2>4
  <1> HIDE DEF Fine
  <1>7. bad = {}
    <2> SUFFICES ASSUME bad # {} PROVE FALSE
      OBVIOUS
    <2>1. bad \in SUBSET Nat
      OBVIOUS
    <2> HIDE DEF bad
    <2>2. PICK m \in bad : \A k \in bad : m <= k
      BY <2>1, LeastNatural
    <2> USE DEF bad
    <2>3. m \in 1 .. n /\ m - 1 \in 0 .. n
      BY <1>5, <2>2
    <2>4. Fine(m - 1)
      BY <2>2, <2>3
    <2> QED
      BY <1>6, <2>2, <2>3, <2>4
  <1>8. Fine(n)
    BY <1>7
  <1> USE DEF Fine
  <1>9. first(n) = NamesOf(s)
    BY <1>1 DEF NamesOf
  <1>10. ASSUME NamesOf(s) \subseteq S PROVE Keep(s, S) = s
    <2>1. kept[n] \in Seq(T) /\ Len(kept[n]) = Len(s) /\ \A j \in 1 .. Len(s) : kept[n][j] = s[j]
      BY <1>1, <1>8, <1>10
    <2> HIDE DEF Fine
    <2>2. kept[n] = s
      BY <2>1, SeqEqual
    <2> QED
      BY <1>2, <2>2
  <1> QED
    BY <1>2, <1>8, <1>9, <1>10
-----------------------------------------------------------------------------
LEMMA NamesFinite ==
  IsFiniteSet(Names)
  <1>1. ASSUME NEW b \in Books PROVE IsFiniteSet(NamesOf(b))
    <2>1. b \in Seq(Names)
      BY DEF Books
    <2>2. PICK n \in Nat : n = Len(b) /\ DOMAIN b = 1 .. n /\ b = [i \in 1 .. n |-> b[i]]
      BY <2>1
    <2>3. b \in Surjection(1 .. n, NamesOf(b))
      BY <2>2 DEF Surjection, NamesOf
    <2>4. ExistsSurjection(1 .. n, NamesOf(b))
      BY <2>3 DEF ExistsSurjection
    <2> QED
      BY <2>2, <2>4, FS_NatSurjection
  <1>2. IsFiniteSet(Core) /\ IsFiniteSet(NamesOf(Defence)) /\ IsFiniteSet(Notes)
    BY <1>1, NamesAssumption DEF Core
  <1>3. IsFiniteSet(Core \cup NamesOf(Defence))
    BY <1>2, FS_Union
  <1> QED
    BY <1>2, <1>3, FS_Union DEF Names

LEMMA BookNames ==
  ASSUME NEW b \in Books
  PROVE  /\ b \in Seq(Names) /\ Len(b) \in Nat
         /\ \A i \in 1 .. Len(b) : b[i] \in NamesOf(b) /\ b[i] \in Names
         /\ \A i, j \in 1 .. Len(b) : b[i] = b[j] => i = j
         /\ NamesOf(b) \subseteq Names
  <1>1. b \in Seq(Names) /\ Len(b) \in Nat /\ DOMAIN b = 1 .. Len(b) /\ IsInjective(b)
    BY DEF Books
  <1>2. \A i \in 1 .. Len(b) : b[i] \in Names
    BY <1>1, ElementOfSeq
  <1> QED
    BY <1>1, <1>2 DEF NamesOf, IsInjective

LEMMA EmptyBook ==
  <<>> \in Books /\ NamesOf(<<>>) = {}
  <1>1. <<>> \in Seq(Names) /\ Len(<<>>) = 0 /\ DOMAIN <<>> = {}
    OBVIOUS
  <1> QED
    BY <1>1 DEF Books, NamesOf, IsInjective

LEMMA KeepBook ==
  ASSUME NEW b \in Books, NEW S
  PROVE  Keep(b, S) \in Books /\ NamesOf(Keep(b, S)) = NamesOf(b) \cap S
  BY KeepProperties DEF Books

LEMMA AppendBook ==
  ASSUME NEW b \in Books, NEW n \in Names
  PROVE  Put(b, n) \in Books /\ NamesOf(Put(b, n)) = NamesOf(b) \cup {n}
  BY NamesOfAppend DEF Put, Books

LEMMA TailBook ==
  ASSUME NEW b \in Books, b # <<>>
  PROVE  /\ Head(b) \in NamesOf(b) /\ Tail(b) \in Books
         /\ NamesOf(b) = {Head(b)} \cup NamesOf(Tail(b))
  <1>1. PICK n \in Nat : n = Len(b)
    BY BookNames
  <1>2. b \in Seq(Names) /\ \A i, j \in 1 .. n : b[i] = b[j] => i = j
    BY <1>1, BookNames
  <1>3. n > 0 /\ Head(b) = b[1]
    BY <1>1, <1>2
  <1> PICK t : t = Tail(b)
    OBVIOUS
  <1>4. /\ t \in Seq(Names) /\ Len(t) = n - 1 /\ DOMAIN t = 1 .. n - 1
        /\ \A i \in 1 .. n - 1 : t[i] = b[i + 1]
    BY <1>1, <1>2, <1>3
  <1>5. ASSUME NEW i \in 1 .. n - 1, NEW j \in 1 .. n - 1, t[i] = t[j]
        PROVE  i = j
    <2>1. i + 1 \in 1 .. n /\ j + 1 \in 1 .. n /\ b[i + 1] = b[j + 1]
      BY <1>3, <1>4, <1>5
    <2>2. i + 1 = j + 1
      BY <1>2, <2>1
    <2> QED
      BY <2>2
  <1>6. IsInjective(t)
    BY <1>4, <1>5 DEF IsInjective
  <1>7. ASSUME NEW x \in NamesOf(b) PROVE x = Head(b) \/ x \in NamesOf(t)
    <2>1. PICK i \in 1 .. n : x = b[i]
      BY <1>1 DEF NamesOf
    <2>2. CASE i = 1
      BY <1>3, <2>1, <2>2
    <2>3. CASE i # 1
      <3>1. i - 1 \in 1 .. n - 1 /\ t[i - 1] = x
        BY <1>4, <2>1, <2>3
      <3> QED
        BY <1>4, <3>1 DEF NamesOf
    <2> QED
      BY <2>2, <2>3
  <1>8. ASSUME NEW x \in NamesOf(t) PROVE x \in NamesOf(b)
    <2>1. PICK i \in 1 .. n - 1 : x = t[i]
      BY <1>4 DEF NamesOf
    <2>2. i + 1 \in 1 .. n /\ b[i + 1] = x
      BY <1>3, <1>4, <2>1
    <2> QED
      BY <1>1, <2>2 DEF NamesOf
  <1>9. Head(b) \in NamesOf(b)
    <2>1. 1 \in 1 .. n
      BY <1>3
    <2> QED
      BY <1>1, <1>3, <2>1 DEF NamesOf
  <1> QED
    BY <1>4, <1>6, <1>7, <1>8, <1>9 DEF Books

LEMMA JoinBooks ==
  ASSUME NEW b \in Books, NEW c \in Books, NamesOf(b) \cap NamesOf(c) = {}
  PROVE  b \o c \in Books /\ NamesOf(b \o c) = NamesOf(b) \cup NamesOf(c)
  <1>1. PICK m \in Nat, n \in Nat : m = Len(b) /\ n = Len(c)
    BY BookNames
  <1>2. b \in Seq(Names) /\ c \in Seq(Names)
    BY BookNames
  <1> PICK d : d = b \o c
    OBVIOUS
  <1>3. /\ d \in Seq(Names) /\ Len(d) = m + n /\ DOMAIN d = 1 .. m + n
        /\ \A i \in 1 .. m + n : d[i] = IF i <= m THEN b[i] ELSE c[i - m]
    BY <1>1, <1>2
  <1>4. \A i \in 1 .. m + n : \/ i \in 1 .. m /\ d[i] = b[i]
                              \/ i > m /\ i - m \in 1 .. n /\ d[i] = c[i - m]
    BY <1>3
  <1>5. /\ \A i \in 1 .. m : b[i] \in NamesOf(b)
        /\ \A i \in 1 .. n : c[i] \in NamesOf(c)
        /\ \A i, j \in 1 .. m : b[i] = b[j] => i = j
        /\ \A i, j \in 1 .. n : c[i] = c[j] => i = j
    BY <1>1, BookNames
  <1>6. ASSUME NEW i \in 1 .. m + n, NEW j \in 1 .. m + n, d[i] = d[j]
        PROVE  i = j
    <2>1. CASE i \in 1 .. m /\ j \in 1 .. m
      <3>1. d[i] = b[i] /\ d[j] = b[j]
        BY <1>3, <2>1
      <3> QED
        BY <1>5, <1>6, <2>1, <3>1
    <2>2. CASE i > m /\ j > m
      <3>1. i - m \in 1 .. n /\ j - m \in 1 .. n /\ c[i - m] = c[j - m]
        <4>1. d[i] = c[i - m] /\ i - m \in 1 .. n
          BY <1>3, <2>2
        <4>2. d[j] = c[j - m] /\ j - m \in 1 .. n
          BY <1>3, <2>2
        <4> QED
          BY <1>6, <4>1, <4>2
      <3>2. i - m = j - m
        BY <1>5, <3>1
      <3> QED
        BY <3>2
    <2>3. CASE i \in 1 .. m /\ j > m
      <3>1. d[i] = b[i] /\ d[j] = c[j - m] /\ j - m \in 1 .. n
        BY <1>3, <2>3
      <3> QED
        BY <1>5, <1>6, <2>3, <3>1
    <2>4. CASE i > m /\ j \in 1 .. m
      <3>1. d[j] = b[j] /\ d[i] = c[i - m] /\ i - m \in 1 .. n
        BY <1>3, <2>4
      <3> QED
        BY <1>5, <1>6, <2>4, <3>1
    <2> QED
      BY <2>1, <2>2, <2>3, <2>4
  <1>7. IsInjective(d)
    BY <1>3, <1>6 DEF IsInjective
  <1>8. NamesOf(d) = NamesOf(b) \cup NamesOf(c)
    <2>1. ASSUME NEW x \in NamesOf(d) PROVE x \in NamesOf(b) \cup NamesOf(c)
      <3>1. PICK i \in 1 .. m + n : x = d[i]
        BY <1>3 DEF NamesOf
      <3> QED
        BY <1>4, <1>5, <3>1
    <2>2. ASSUME NEW x \in NamesOf(b) PROVE x \in NamesOf(d)
      <3>1. PICK i \in 1 .. m : x = b[i]
        BY <1>1 DEF NamesOf
      <3>2. i \in 1 .. m + n /\ x = d[i]
        BY <1>3, <3>1
      <3> QED
        BY <1>3, <3>2 DEF NamesOf
    <2>3. ASSUME NEW x \in NamesOf(c) PROVE x \in NamesOf(d)
      <3>1. PICK i \in 1 .. n : x = c[i]
        BY <1>1 DEF NamesOf
      <3>2. i + m \in 1 .. m + n /\ x = d[i + m]
        BY <1>3, <3>1
      <3> QED
        BY <1>3, <3>2 DEF NamesOf
    <2> QED
      BY <2>1, <2>2, <2>3
  <1> QED
    BY <1>3, <1>7, <1>8 DEF Books
-----------------------------------------------------------------------------
LEMMA RegistersAll ==
  ASSUME NEW e \in Engine, NEW names \in Books
  PROVE  /\ RegisterAll(e, names) \in Engine
         /\ NamesOf(RegisterAll(e, names).book) = NamesOf(e.book) \cup NamesOf(names)
         /\ RegisterAll(e, names).pins = e.pins \cup NamesOf(names)
  <1>1. e.book \in Books /\ e.pins \in SUBSET Names
    BY DEF Engine
  <1>2. NamesOf(names) \subseteq Names /\ NamesOf(e.book) \subseteq Names
    BY <1>1, BookNames
  <1>3. /\ Missing(e, names) \in Books
        /\ NamesOf(Missing(e, names)) = NamesOf(names) \cap (Names \ NamesOf(e.book))
    BY KeepBook DEF Missing
  <1>4. NamesOf(e.book) \cap NamesOf(Missing(e, names)) = {}
    BY <1>3
  <1>5. /\ e.book \o Missing(e, names) \in Books
        /\ NamesOf(e.book \o Missing(e, names)) = NamesOf(e.book) \cup NamesOf(Missing(e, names))
    BY <1>1, <1>3, <1>4, JoinBooks
  <1>6. NamesOf(e.book \o Missing(e, names)) = NamesOf(e.book) \cup NamesOf(names)
    BY <1>2, <1>3, <1>5
  <1>7. /\ RegisterAll(e, names).book = e.book \o Missing(e, names)
        /\ RegisterAll(e, names).pins = e.pins \cup NamesOf(names)
        /\ RegisterAll(e, names) =
             [book |-> e.book \o Missing(e, names), pins |-> e.pins \cup NamesOf(names)]
    BY DEF RegisterAll
  <1>8. e.pins \cup NamesOf(names) \in SUBSET Names
    BY <1>1, <1>2
  <1>9. RegisterAll(e, names) \in Engine
    BY <1>5, <1>7, <1>8 DEF Engine
  <1> QED
    BY <1>6, <1>7, <1>9

LEMMA NewIsEngine ==
  NewEngine \in Engine
  BY EmptyBook DEF NewEngine, Engine

LEMMA JumpStarts ==
  ASSUME NEW e \in Engine
  PROVE  WithJumpStart(e) \in Engine /\ Intact(WithJumpStart(e))
  <1>1. JumpStart \in Books
    BY NamesAssumption
  <1>2. /\ WithJumpStart(e) \in Engine
        /\ NamesOf(WithJumpStart(e).book) = NamesOf(e.book) \cup NamesOf(JumpStart)
        /\ WithJumpStart(e).pins = e.pins \cup NamesOf(JumpStart)
    BY <1>1, RegistersAll DEF WithJumpStart
  <1> QED
    BY <1>2 DEF Intact, Core

LEMMA Prepares ==
  ASSUME NEW k \in Kinds, NEW e \in Engine, NEW raised \in BOOLEAN
  PROVE  /\ Prepare(k, e, raised) \in Engine
         /\ k # "run" => Intact(Prepare(k, e, raised))
         /\ k = "watchdog" => NamesOf(Defence) \subseteq NamesOf(Prepare(k, e, raised).book)
  <1>1. PICK started : started = IF raised /\ k # "daemon" THEN WithJumpStart(e) ELSE e
    OBVIOUS
  <1>2. started \in Engine
    BY <1>1, JumpStarts
  <1>3. PICK checked : checked = IF k = "run" \/ Intact(started) THEN started
                                 ELSE WithJumpStart(started)
    OBVIOUS
  <1>4. checked \in Engine /\ (k # "run" => Intact(checked))
    BY <1>2, <1>3, JumpStarts
  <1>5. Prepare(k, e, raised) = IF k = "watchdog"
                                THEN RegisterAll(checked, Missing(checked, Defence))
                                ELSE checked
    BY <1>1, <1>3 DEF Prepare
  <1>6. CASE k = "watchdog"
    <2>1. Defence \in Books
      BY NamesAssumption
    <2>2. /\ Missing(checked, Defence) \in Books
          /\ NamesOf(Missing(checked, Defence)) = NamesOf(Defence) \cap (Names \ NamesOf(checked.book))
      BY <2>1, KeepBook DEF Missing
    <2> DEFINE r == RegisterAll(checked, Missing(checked, Defence))
    <2>3. /\ r \in Engine
          /\ NamesOf(r.book) = NamesOf(checked.book) \cup NamesOf(Missing(checked, Defence))
          /\ r.pins = checked.pins \cup NamesOf(Missing(checked, Defence))
      BY <1>4, <2>2, RegistersAll
    <2>4. NamesOf(Defence) \subseteq NamesOf(r.book)
      BY <2>1, <2>2, <2>3, BookNames
    <2>5. Intact(r)
      BY <1>4, <1>6, <2>3 DEF Intact
    <2> QED
      BY <1>5, <1>6, <2>3, <2>4, <2>5
  <1>7. CASE k # "watchdog"
    BY <1>4, <1>5, <1>7
  <1> QED
    BY <1>6, <1>7
-----------------------------------------------------------------------------
LEMMA ListsBooks ==
  ASSUME TypeOK, NEW names \in Listed
  PROVE  names \in Books
  <1>1. CASE index.kind = "missing"
    <2>1. PICK S \in SUBSET Names : names \in Orders(S)
      BY <1>1 DEF Listed
    <2>2. Cardinality(S) \in Nat
      BY NamesFinite, FS_Subset, FS_CardinalityType
    <2>3. names \in [1 .. Cardinality(S) -> Names] /\ IsInjective(names)
      BY <2>1 DEF Orders
    <2>4. names \in Seq(Names)
      BY <2>2, <2>3
    <2> QED
      BY <2>3, <2>4 DEF Books
  <1>2. CASE index.kind # "missing"
    BY <1>2 DEF Listed, TypeOK
  <1> QED
    BY <1>1, <1>2

LEMMA ReadsBooks ==
  ASSUME NEW names \in Books
  PROVE  /\ Readable(names) \in Books
         /\ (\A n \in NamesOf(names) : hv[n] = "whole") => Readable(names) = names
  <1> DEFINE bad == {i \in 1 .. Len(names) : hv[names[i]] = "torn"}
             end == IF bad = {} THEN Len(names) ELSE First(bad) - 1
             whole == {n \in Names : hv[n] = "whole"}
  <1>1. /\ names \in Seq(Names) /\ Len(names) \in Nat
        /\ \A i \in 1 .. Len(names) : names[i] \in NamesOf(names)
        /\ \A i, j \in 1 .. Len(names) : names[i] = names[j] => i = j
        /\ NamesOf(names) \subseteq Names
    BY BookNames
  <1>2. Readable(names) = Keep(SubSeq(names, 1, end), whole)
    BY DEF Readable
  <1>3. end \in 0 .. Len(names)
    <2>1. CASE bad = {}
      BY <1>1, <2>1
    <2>2. CASE bad # {}
      <3>1. bad \in SUBSET Nat
        OBVIOUS
      <3> HIDE DEF bad
      <3>2. \E i \in bad : \A k \in bad : i <= k
        BY <2>2, <3>1, LeastNatural
      <3>3. First(bad) \in bad
        BY <3>2 DEF First
      <3>4. First(bad) \in 1 .. Len(names)
        BY <3>3 DEF bad
      <3> QED
        BY <1>1, <2>2, <3>4
    <2> QED
      BY <2>1, <2>2
  <1> HIDE DEF end
  <1>4. SubSeq(names, 1, end) \in Books
    <2>1. /\ SubSeq(names, 1, end) \in Seq(Names)
          /\ Len(SubSeq(names, 1, end)) = end
          /\ \A i \in 1 .. end : SubSeq(names, 1, end)[i] = names[i]
      BY <1>1, <1>3
    <2>2. DOMAIN SubSeq(names, 1, end) = 1 .. end
      BY <2>1
    <2>3. IsInjective(SubSeq(names, 1, end))
      <3>1. PICK part : part = SubSeq(names, 1, end)
        OBVIOUS
      <3>2. ASSUME NEW i \in 1 .. end, NEW j \in 1 .. end, part[i] = part[j]
            PROVE  i = j
        <4>1. names[i] = names[j] /\ i \in 1 .. Len(names) /\ j \in 1 .. Len(names)
          BY <1>1, <1>3, <2>1, <3>1, <3>2
        <4> QED
          BY <1>1, <4>1
      <3>3. DOMAIN part = 1 .. end
        BY <2>2, <3>1
      <3>4. IsInjective(part)
        BY <3>2, <3>3 DEF IsInjective
      <3> QED
        BY <3>1, <3>4
    <2> QED
      BY <2>1, <2>3 DEF Books
  <1>5. ASSUME \A n \in NamesOf(names) : hv[n] = "whole"
        PROVE  Readable(names) = names
    <2>1. bad = {}
      BY <1>1, <1>5
    <2>2. SubSeq(names, 1, end) = names
      BY <1>1, <2>1 DEF end
    <2>3. NamesOf(names) \subseteq whole
      BY <1>1, <1>5
    <2>4. Keep(names, whole) = names
      BY <1>1, <2>3, KeepProperties
    <2> QED
      BY <1>2, <2>2, <2>4
  <1> QED
    BY <1>2, <1>4, <1>5, KeepBook
-----------------------------------------------------------------------------
LEMMA LoadsKeep ==
  ASSUME NEW e \in Engine, NEW b \in Books
  PROVE  [e EXCEPT !.book = b] \in Engine
  BY DEF Engine

LEMMA Loses ==
  ASSUME NEW e \in Engine, NEW names
  PROVE  /\ Without(e, names) \in Engine
         /\ Without(e, names).pins = e.pins
         /\ NamesOf(Without(e, names).book) = NamesOf(e.book) \ names
  <1>1. e.book \in Books
    BY DEF Engine
  <1>2. Keep(e.book, Names \ names) \in Books
        /\ NamesOf(Keep(e.book, Names \ names)) = NamesOf(e.book) \cap (Names \ names)
    BY <1>1, KeepBook
  <1>3. NamesOf(e.book) \subseteq Names
    BY <1>1, BookNames
  <1>4. /\ Without(e, names) = [e EXCEPT !.book = Keep(e.book, Names \ names)]
        /\ Without(e, names).book = Keep(e.book, Names \ names)
        /\ Without(e, names).pins = e.pins
    BY DEF Without, Engine
  <1>5. Without(e, names) \in Engine
    BY <1>2, <1>4, LoadsKeep
  <1> QED
    BY <1>2, <1>3, <1>4, <1>5

LEMMA RegistersOne ==
  ASSUME NEW e \in Engine, NEW n \in Names, NEW pinned \in BOOLEAN
  PROVE  Register(e, n, pinned) \in Engine
  BY AppendBook DEF Register, Engine

LEMMA HandlersKeepType ==
  ASSUME TypeOK, NEW p \in Procs, Handler(p)
  PROVE  \E e \in Engine : Use(p, e)
  <1>1. engine[p] \in Engine
    BY DEF TypeOK
  <1>2. CASE Learn(p)
    BY <1>1, <1>2, RegistersOne DEF Learn, Names
  <1>3. CASE Unpin(p)
    BY <1>1, <1>3, RegistersOne DEF Unpin, Names
  <1>4. CASE PruneByUtility(p)
    BY <1>1, <1>4, Loses DEF PruneByUtility, Pruned
  <1>5. CASE PruneRedundant(p)
    <2>1. \E names : Culled(engine[p]) = Without(engine[p], names)
      BY Zenon DEF Culled
    <2> QED
      BY <1>1, <1>5, <2>1, Loses DEF PruneRedundant
  <1> QED
    BY <1>2, <1>3, <1>4, <1>5 DEF Handler

(***************************************************************************)
(* Typing.  A vector is written only while there is one to write.          *)
(***************************************************************************)
TypeInv ==
  /\ TypeOK
  /\ \A p \in Procs : phase[p] = "fill vector" => todo[p] # <<>>

LEMMA TypeInit ==
  Init => TypeInv
  <1> SUFFICES ASSUME Init PROVE TypeInv
    OBVIOUS
  <1>1. /\ JumpStart \in Books /\ Core \in SUBSET Names
        /\ <<>> \in Books /\ NewEngine \in Engine
    BY NamesAssumption, EmptyBook, NewIsEngine, BookNames DEF Core
  <1>2. /\ meta \in [kind : {"missing", "torn", "whole"}, pins : SUBSET Names]
        /\ index \in [kind : {"missing", "torn", "whole"}, book : Books]
        /\ hv \in [Names -> {"missing", "torn", "whole"}]
    BY <1>1 DEF Init
  <1> QED
    BY <1>1, <1>2 DEF Init, TypeInv, TypeOK, Kinds, Phases

LEMMA TypeLoad ==
  ASSUME TypeInv, NEW p \in Procs, Load(p)
  PROVE  TypeInv'
  <1>1. engine[p] \in Engine /\ kind[p] \in Kinds /\ meta.pins \in SUBSET Names
    BY DEF TypeInv, TypeOK
  <1>2. CASE LoadRaises(p)
    <2>1. Prepare(kind[p], engine[p], TRUE) \in Engine
      BY <1>1, Prepares
    <2> HIDE DEF Engine, Kinds, Books
    <2> QED
      BY <1>2, <2>1 DEF LoadRaises, TypeInv, TypeOK, Phases, diskVars
  <1>3. CASE LoadMeta(p)
    <2>1. [book |-> <<>>, pins |-> meta.pins] \in Engine
      BY <1>1, EmptyBook DEF Engine
    <2> QED
      BY <1>3, <2>1 DEF LoadMeta, TypeInv, TypeOK, Phases, diskVars
  <1>4. CASE LoadVectors(p)
    <2>1. PICK names \in Listed :
            engine' = [engine EXCEPT ![p] =
              Prepare(kind[p], [@ EXCEPT !.book = IF index.kind = "torn" THEN <<>>
                                                  ELSE Readable(names)], Raises(names))]
      BY <1>4 DEF LoadVectors
    <2>2. PICK b : b = IF index.kind = "torn" THEN <<>> ELSE Readable(names)
      OBVIOUS
    <2>3. b \in Books
      BY <2>2, EmptyBook, ListsBooks, ReadsBooks DEF TypeInv
    <2>4. [engine[p] EXCEPT !.book = b] \in Engine
      BY <1>1, <2>3, LoadsKeep
    <2>5. Raises(names) \in BOOLEAN
      BY DEF Raises
    <2>6. Prepare(kind[p], [engine[p] EXCEPT !.book = b], Raises(names)) \in Engine
      BY <1>1, <2>4, <2>5, Prepares
    <2>7. engine' = [engine EXCEPT ![p] = Prepare(kind[p], [engine[p] EXCEPT !.book = b], Raises(names))]
      BY <2>1, <2>2 DEF TypeInv, TypeOK
    <2>8. engine' \in [Procs -> Engine]
      BY <2>6, <2>7 DEF TypeInv, TypeOK
    <2> QED
      BY <1>4, <2>8 DEF LoadVectors, TypeInv, TypeOK, Phases, diskVars
  <1> QED
    BY <1>2, <1>3, <1>4 DEF Load

LEMMA TypeSave ==
  ASSUME TypeInv, NEW p \in Procs, Save(p)
  PROVE  TypeInv'
  <1>1. engine[p] \in Engine /\ engine[p].book \in Books /\ engine[p].pins \in SUBSET Names
    BY DEF TypeInv, TypeOK, Engine
  <1>2. CASE SaveBegins(p)
    <2>1. disturbed' \in SUBSET Procs
      BY <1>2 DEF SaveBegins, Others, TypeInv, TypeOK
    <2> QED
      BY <1>2, <2>1 DEF SaveBegins, TypeInv, TypeOK, Phases
  <1>3. CASE SaveMeta(p)
    BY <1>1, <1>3 DEF SaveMeta, TypeInv, TypeOK, Phases
  <1>4. CASE OpenVector(p)
    <2>1. hv' \in [Names -> {"missing", "torn", "whole"}]
      BY <1>4 DEF OpenVector, TypeInv, TypeOK
    <2> QED
      BY <1>4, <2>1 DEF OpenVector, TypeInv, TypeOK, Phases
  <1>5. CASE SaveVector(p)
    <2>1. hv' \in [Names -> {"missing", "torn", "whole"}]
      BY <1>5 DEF SaveVector, TypeInv, TypeOK
    <2>2. todo[p] \in Books /\ todo[p] # <<>>
      BY <1>5 DEF SaveVector, TypeInv, TypeOK
    <2>3. Tail(todo[p]) \in Books
      BY <2>2, TailBook
    <2>4. todo' \in [Procs -> Books]
      BY <1>5, <2>3 DEF SaveVector, TypeInv, TypeOK
    <2> QED
      BY <1>5, <2>1, <2>4 DEF SaveVector, TypeInv, TypeOK, Phases
  <1>6. CASE OpenIndex(p)
    BY <1>6, EmptyBook DEF OpenIndex, TypeInv, TypeOK, Phases
  <1>7. CASE SaveIndex(p)
    BY <1>1, <1>7 DEF SaveIndex, TypeInv, TypeOK, Phases
  <1> QED
    BY <1>2, <1>3, <1>4, <1>5, <1>6, <1>7 DEF Save

LEMMA WorkTyped ==
  TypeInv /\ Work => work' \in Nat
  <1>1. TypeInv => work \in Nat
    BY DEF TypeInv, TypeOK
  <1>2. Work => work' = work + 1
    BY Zenon DEF Work
  <1> QED
    BY <1>1, <1>2

LEMMA TypeNext ==
  TypeInv /\ [Next]_vars => TypeInv'
  <1> SUFFICES ASSUME TypeInv, [Next]_vars
               PROVE  TypeInv'
    OBVIOUS
  <1>1. CASE UNCHANGED vars
    BY <1>1 DEF vars, diskVars, TypeInv, TypeOK
  <1>2. ASSUME NEW p \in Procs, NEW k \in Kinds, Begin(p, k)
        PROVE  TypeInv'
    <2>1. NewEngine \in Engine /\ WithJumpStart(NewEngine) \in Engine
      BY NewIsEngine, JumpStarts
    <2>2. work' \in Nat
      BY <1>2, WorkTyped DEF Begin
    <2>3. /\ engine' \in [Procs -> Engine] /\ phase' \in [Procs -> Phases]
          /\ kind' \in [Procs -> Kinds]
      BY <1>2, <2>1 DEF Begin, TypeInv, TypeOK, Phases
    <2>4. \A q \in Procs : phase'[q] = "fill vector" => phase[q] = "fill vector"
      BY <1>2 DEF Begin, TypeInv, TypeOK
    <2> QED
      BY <1>2, <2>2, <2>3, <2>4 DEF Begin, TypeInv, TypeOK, Phases, diskVars
  <1>3. ASSUME NEW p \in Procs, NextTask(p)
        PROVE  TypeInv'
    <2>1. work' \in Nat
      BY <1>3, WorkTyped DEF NextTask
    <2> QED
      BY <1>3, <2>1 DEF NextTask, TypeInv, TypeOK, Phases, diskVars
  <1>4. ASSUME NEW p \in Procs, Load(p)
        PROVE  TypeInv'
    BY <1>4, TypeLoad
  <1>5. ASSUME NEW p \in Procs, Handler(p)
        PROVE  TypeInv'
    <2>1. PICK e \in Engine : Use(p, e)
      BY <1>5, HandlersKeepType DEF TypeInv
    <2>2. work' \in Nat
      BY <2>1, WorkTyped DEF Use
    <2> QED
      BY <2>1, <2>2 DEF Use, TypeInv, TypeOK, Phases, diskVars
  <1>6. ASSUME NEW p \in Procs, Save(p)
        PROVE  TypeInv'
    BY <1>6, TypeSave
  <1>7. ASSUME NEW p \in Procs, End(p)
        PROVE  TypeInv'
    BY <1>7, EmptyBook, NewIsEngine DEF End, TypeInv, TypeOK, Phases, Kinds, diskVars
  <1> QED
    BY <1>1, <1>2, <1>3, <1>4, <1>5, <1>6, <1>7 DEF Next

LEMMA TypeInvHolds ==
  Spec => []TypeInv
  BY TypeInit, TypeNext, PTL DEF Spec

(***************************************************************************)
(* The codebooks in memory and in twin_state list every atom once, and a   *)
(* save has nothing but atoms to write.                                    *)
(***************************************************************************)
THEOREM TwinTyped ==
  Spec => []TypeOK
  <1>1. TypeInv => TypeOK
    BY DEF TypeInv
  <1> QED
    BY <1>1, TypeInvHolds, PTL
-----------------------------------------------------------------------------
(***************************************************************************)
(* What is on disk while a save runs that no other one overlaps, and after *)
(* it.                                                                     *)
(***************************************************************************)
Written(p) ==
  /\ phase[p] # "fill meta" => meta = [kind |-> "whole", pins |-> engine[p].pins]
  /\ phase[p] \in {"vectors", "fill vector"} =>
       \A n \in NamesOf(engine[p].book) : hv[n] = "whole" \/ n \in NamesOf(todo[p])
  /\ phase[p] = "fill index" => \A n \in NamesOf(engine[p].book) : hv[n] = "whole"

Alone == \A p, q \in Procs : phase[p] \in Saving /\ phase[q] \in Saving /\ p # q => p \in disturbed

InOrder == \A p \in Procs : p \notin disturbed /\ phase[p] \in Saving => Written(p)

OneEngine ==
  last # NoEngine =>
    /\ \A p \in Procs : phase[p] \notin Saving
    /\ meta = [kind |-> "whole", pins |-> last.pins]
    /\ index = [kind |-> "whole", book |-> last.book]
    /\ \A n \in NamesOf(last.book) : hv[n] = "whole"

SaveInv == Alone /\ InOrder /\ OneEngine

LEMMA SaveInit ==
  Init => SaveInv
  BY DEF Init, SaveInv, Alone, InOrder, OneEngine, Saving

\* A step that no save takes leaves the files alone, and ends saves at most.
Aside ==
  /\ UNCHANGED <<meta, index, hv, last>>
  /\ \A p \in Procs : phase'[p] \in Saving =>
       /\ phase'[p] = phase[p] /\ engine'[p] = engine[p] /\ todo'[p] = todo[p]
       /\ p \in disturbed <=> p \in disturbed'

LEMMA AsideKeeps ==
  ASSUME SaveInv, Aside
  PROVE  SaveInv'
  <1>1. Alone'
    BY DEF SaveInv, Aside, Alone
  <1>2. InOrder'
    <2>1. ASSUME NEW p \in Procs, p \notin disturbed', phase'[p] \in Saving
          PROVE  Written(p)'
      <3>1. Written(p)
        BY <2>1 DEF SaveInv, Aside, InOrder
      <3> QED
        BY <2>1, <3>1 DEF Aside, Written
    <2> QED
      BY <2>1 DEF InOrder
  <1>3. OneEngine'
    BY DEF SaveInv, Aside, OneEngine
  <1> QED
    BY <1>1, <1>2, <1>3 DEF SaveInv

LEMMA MostStepAside ==
  ASSUME TypeInv, NEW p \in Procs,
         \/ \E k \in Kinds : Begin(p, k)
         \/ NextTask(p) \/ Load(p) \/ Handler(p) \/ End(p)
  PROVE  Aside
  <1>1. /\ phase \in [Procs -> Phases] /\ engine \in [Procs -> Engine]
        /\ todo \in [Procs -> Books]
    BY DEF TypeInv, TypeOK
  <1>2. ASSUME NEW k \in Kinds, Begin(p, k) PROVE Aside
    BY <1>1, <1>2 DEF Begin, Aside, Saving, diskVars
  <1>3. CASE NextTask(p)
    BY <1>1, <1>3 DEF NextTask, Aside, Saving, diskVars
  <1>4. CASE Load(p)
    <2>1. /\ UNCHANGED <<diskVars, todo, last, disturbed>>
          /\ phase' \in {[phase EXCEPT ![p] = "ready"], [phase EXCEPT ![p] = "reading"]}
          /\ \E e : engine' = [engine EXCEPT ![p] = e]
      BY <1>4, Zenon DEF Load, LoadRaises, LoadMeta, LoadVectors
    <2> QED
      BY <1>1, <2>1 DEF Aside, Saving, diskVars
  <1>5. CASE Handler(p)
    <2>1. PICK e \in Engine : Use(p, e)
      BY <1>5, HandlersKeepType DEF TypeInv
    <2> QED
      BY <1>1, <2>1 DEF Use, Aside, Saving, diskVars
  <1>6. CASE End(p)
    BY <1>1, <1>6 DEF End, Aside, Saving, diskVars
  <1> QED
    BY <1>2, <1>3, <1>4, <1>5, <1>6

LEMMA SaveBeginsKeeps ==
  ASSUME TypeInv, SaveInv, NEW p \in Procs, SaveBegins(p)
  PROVE  SaveInv'
  <1>1. /\ phase \in [Procs -> Phases]
        /\ phase[p] \notin Saving /\ phase' = [phase EXCEPT ![p] = "fill meta"]
        /\ meta' = [kind |-> "torn", pins |-> {}] /\ last' = NoEngine
        /\ UNCHANGED <<hv, engine, todo>>
        /\ disturbed' = IF Others(p) = {} THEN disturbed \ {p}
                        ELSE disturbed \cup {p} \cup Others(p)
    BY DEF SaveBegins, TypeInv, TypeOK, Saving
  <1>2. Others(p) = {q \in Procs \ {p} : phase[q] \in Saving}
    BY DEF Others
  <1>3. ASSUME NEW q \in Procs, q # p
        PROVE  /\ phase'[q] = phase[q]
               /\ phase[q] \in Saving => {p, q} \subseteq disturbed'
               /\ q \in disturbed => q \in disturbed'
    BY <1>1, <1>2, <1>3
  <1>4. phase'[p] = "fill meta"
    BY <1>1
  <1>5. Alone'
    <2>1. ASSUME NEW q \in Procs, NEW r \in Procs,
                 phase'[q] \in Saving, phase'[r] \in Saving, q # r
          PROVE  q \in disturbed'
      <3>1. CASE q = p
        BY <1>3, <2>1, <3>1
      <3>2. CASE q # p /\ r = p
        BY <1>3, <2>1, <3>2
      <3>3. CASE q # p /\ r # p
        BY <1>3, <2>1, <3>3
      <3> QED
        BY <3>1, <3>2, <3>3
    <2> QED
      BY <2>1 DEF Alone
  <1>6. InOrder'
    <2>1. ASSUME NEW q \in Procs, q \notin disturbed', phase'[q] \in Saving
          PROVE  Written(q)'
      <3>1. q = p
        BY <1>3, <2>1
      <3> QED
        BY <1>4, <3>1 DEF Written
    <2> QED
      BY <2>1 DEF InOrder
  <1>7. OneEngine'
    BY <1>1 DEF OneEngine
  <1> QED
    BY <1>5, <1>6, <1>7 DEF SaveInv

LEMMA SaveGoesOn ==
  ASSUME TypeInv, SaveInv, NEW p \in Procs,
         SaveMeta(p) \/ OpenVector(p) \/ SaveVector(p) \/ OpenIndex(p),
         p \notin disturbed => Written(p)'
  PROVE  SaveInv'
  <1>1. /\ phase \in [Procs -> Phases] /\ todo \in [Procs -> Books]
        /\ phase[p] \in Saving
        /\ \E next \in Saving : phase' = [phase EXCEPT ![p] = next]
        /\ UNCHANGED <<engine, last, disturbed>>
    BY DEF SaveMeta, OpenVector, SaveVector, OpenIndex, TypeInv, TypeOK, Saving
  <1>2. \A q \in Procs : phase'[q] \in Saving <=> phase[q] \in Saving
    BY <1>1
  <1>3. last' = NoEngine
    BY <1>1 DEF SaveInv, OneEngine
  <1>4. Alone'
    BY <1>1, <1>2 DEF SaveInv, Alone
  <1>5. InOrder'
    <2>1. ASSUME NEW q \in Procs, q \notin disturbed', phase'[q] \in Saving
          PROVE  Written(q)'
      <3>1. q = p
        BY <1>1, <1>2, <2>1 DEF SaveInv, Alone
      <3> QED
        BY <1>1, <2>1, <3>1
    <2> QED
      BY <2>1 DEF InOrder
  <1>6. OneEngine'
    BY <1>3 DEF OneEngine
  <1> QED
    BY <1>4, <1>5, <1>6 DEF SaveInv

LEMMA SaveSteps ==
  ASSUME TypeInv, SaveInv, NEW p \in Procs,
         SaveMeta(p) \/ OpenVector(p) \/ SaveVector(p) \/ OpenIndex(p)
  PROVE  SaveInv'
  <1>1. /\ phase \in [Procs -> Phases] /\ todo \in [Procs -> Books]
        /\ hv \in [Names -> {"missing", "torn", "whole"}]
        /\ todo[p] \in Books
        /\ engine[p].book \in Books /\ NamesOf(engine[p].book) \subseteq Names
    BY BookNames DEF TypeInv, TypeOK, Engine
  <1>2. p \notin disturbed /\ phase[p] \in Saving => Written(p)
    BY DEF SaveInv, InOrder
  <1>3. CASE SaveMeta(p)
    <2>1. /\ phase'[p] = "vectors" /\ meta' = [kind |-> "whole", pins |-> engine[p].pins]
          /\ todo'[p] = engine[p].book /\ UNCHANGED engine
      BY <1>1, <1>3 DEF SaveMeta
    <2>2. Written(p)'
      BY <2>1 DEF Written
    <2> QED
      BY <1>3, <2>2, SaveGoesOn
  <1>4. CASE OpenVector(p)
    <2>1. /\ phase[p] = "vectors" /\ phase'[p] = "fill vector" /\ todo[p] # <<>>
          /\ UNCHANGED <<meta, engine, todo>> /\ hv' = [hv EXCEPT ![Head(todo[p])] = "torn"]
      BY <1>1, <1>4 DEF OpenVector
    <2>2. Head(todo[p]) \in NamesOf(todo[p])
      BY <1>1, <2>1, TailBook
    <2>3. \A n \in Names : hv'[n] = hv[n] \/ n = Head(todo[p])
      BY <1>1, <2>1
    <2>4. ASSUME p \notin disturbed PROVE Written(p)'
      <3>1. Written(p)
        BY <1>2, <2>1, <2>4 DEF Saving
      <3> QED
        BY <1>1, <2>1, <2>2, <2>3, <3>1 DEF Written
    <2> QED
      BY <1>4, <2>4, SaveGoesOn
  <1>5. CASE SaveVector(p)
    <2>1. /\ phase[p] = "fill vector" /\ phase'[p] = "vectors" /\ todo[p] # <<>>
          /\ UNCHANGED <<meta, engine>> /\ todo'[p] = Tail(todo[p])
          /\ hv' = [hv EXCEPT ![Head(todo[p])] = "whole"]
      BY <1>1, <1>5 DEF SaveVector, TypeInv
    <2>2. NamesOf(todo[p]) = {Head(todo[p])} \cup NamesOf(Tail(todo[p]))
      BY <1>1, <2>1, TailBook
    <2>3. \A n \in Names : hv'[n] = IF n = Head(todo[p]) THEN "whole" ELSE hv[n]
      BY <1>1, <2>1
    <2>4. ASSUME p \notin disturbed PROVE Written(p)'
      <3>1. Written(p)
        BY <1>2, <2>1, <2>4 DEF Saving
      <3> QED
        BY <1>1, <2>1, <2>2, <2>3, <3>1 DEF Written
    <2> QED
      BY <1>5, <2>4, SaveGoesOn
  <1>6. CASE OpenIndex(p)
    <2>1. /\ phase[p] = "vectors" /\ phase'[p] = "fill index" /\ todo[p] = <<>>
          /\ UNCHANGED <<meta, hv, engine, todo>>
      BY <1>1, <1>6 DEF OpenIndex
    <2>2. NamesOf(todo[p]) = {}
      BY <2>1, EmptyBook
    <2>3. ASSUME p \notin disturbed PROVE Written(p)'
      <3>1. Written(p)
        BY <1>2, <2>1, <2>3 DEF Saving
      <3> QED
        BY <2>1, <2>2, <3>1 DEF Written
    <2> QED
      BY <1>6, <2>3, SaveGoesOn
  <1> QED
    BY <1>3, <1>4, <1>5, <1>6

LEMMA SaveEnds ==
  ASSUME TypeInv, SaveInv, NEW p \in Procs, SaveIndex(p)
  PROVE  SaveInv'
  <1>1. /\ phase \in [Procs -> Phases] /\ phase[p] = "fill index"
        /\ phase' = [phase EXCEPT ![p] = "saved"]
        /\ index' = [kind |-> "whole", book |-> engine[p].book]
        /\ last' = IF p \in disturbed THEN NoEngine ELSE engine[p]
        /\ disturbed' = disturbed \ {p}
        /\ UNCHANGED <<meta, hv, engine, todo>>
    BY DEF SaveIndex, TypeInv, TypeOK
  <1>2. \A q \in Procs : phase'[q] \in Saving => q # p /\ phase'[q] = phase[q]
    BY <1>1 DEF Saving
  <1>3. Alone'
    BY <1>1, <1>2 DEF SaveInv, Alone
  <1>4. InOrder'
    <2>1. ASSUME NEW q \in Procs, q \notin disturbed', phase'[q] \in Saving
          PROVE  Written(q)'
      <3>1. q \notin disturbed /\ phase[q] \in Saving /\ phase'[q] = phase[q]
        BY <1>1, <1>2, <2>1
      <3>2. Written(q)
        BY <3>1 DEF SaveInv, InOrder
      <3> QED
        BY <1>1, <3>1, <3>2 DEF Written
    <2> QED
      BY <2>1 DEF InOrder
  <1>5. OneEngine'
    <2>1. CASE p \in disturbed
      BY <1>1, <2>1 DEF OneEngine
    <2>2. CASE p \notin disturbed
      <3>1. phase[p] \in Saving /\ Written(p)
        BY <1>1, <2>2 DEF SaveInv, InOrder, Saving
      <3>2. \A q \in Procs : phase[q] \in Saving => q = p
        BY <2>2, <3>1 DEF SaveInv, Alone
      <3>3. \A q \in Procs : phase'[q] \notin Saving
        BY <1>2, <3>2
      <3> QED
        BY <1>1, <2>2, <3>1, <3>3 DEF Written, OneEngine
    <2> QED
      BY <2>1, <2>2
  <1> QED
    BY <1>3, <1>4, <1>5 DEF SaveInv

LEMMA SaveNext ==
  TypeInv /\ SaveInv /\ [Next]_vars => SaveInv'
  <1> SUFFICES ASSUME TypeInv, SaveInv, [Next]_vars
               PROVE  SaveInv'
    OBVIOUS
  <1>1. CASE UNCHANGED vars
    <2>1. Aside
      BY <1>1 DEF vars, diskVars, Aside
    <2> QED
      BY <2>1, AsideKeeps
  <1>2. ASSUME NEW p \in Procs,
               \/ \E k \in Kinds : Begin(p, k)
               \/ NextTask(p) \/ Load(p) \/ Handler(p) \/ End(p)
        PROVE  SaveInv'
    BY <1>2, MostStepAside, AsideKeeps
  <1>3. ASSUME NEW p \in Procs, Save(p)
        PROVE  SaveInv'
    BY <1>3, SaveBeginsKeeps, SaveSteps, SaveEnds DEF Save
  <1> QED
    BY <1>1, <1>2, <1>3 DEF Next

LEMMA SaveInvHolds ==
  Spec => []SaveInv
  BY TypeInvHolds, SaveInit, SaveNext, PTL DEF Spec

(***************************************************************************)
(* A save() that no other one overlapped leaves one engine in twin_state,  *)
(* and load() gives it back, whatever was there before and whoever was     *)
(* killed in a save before it.                                             *)
(***************************************************************************)
THEOREM SavedWhole ==
  Spec => []SavedIsWhole
  <1>1. TypeInv /\ SaveInv => SavedIsWhole
    <2> SUFFICES ASSUME TypeInv, SaveInv, last # NoEngine
                 PROVE  /\ meta = [kind |-> "whole", pins |-> last.pins]
                        /\ index.kind # "torn"
                        /\ \A names \in Listed : Readable(names) = last.book /\ ~Raises(names)
      BY DEF SavedIsWhole
    <2>1. last.book \in Books
      BY DEF TypeInv, TypeOK, Engine
    <2>2. /\ meta = [kind |-> "whole", pins |-> last.pins]
          /\ index = [kind |-> "whole", book |-> last.book]
          /\ \A n \in NamesOf(last.book) : hv[n] = "whole"
      BY DEF SaveInv, OneEngine
    <2>3. Listed = {last.book}
      BY <2>2 DEF Listed
    <2>4. Readable(last.book) = last.book
      BY <2>1, <2>2, ReadsBooks
    <2>5. ~Raises(last.book)
      <3>1. \A i \in 1 .. Len(last.book) : hv[last.book[i]] = "whole"
        BY <2>1, <2>2, BookNames
      <3> QED
        BY <2>2, <3>1 DEF Raises
    <2> QED
      BY <2>2, <2>3, <2>4, <2>5
  <1> QED
    BY <1>1, TypeInvHolds, SaveInvHolds, PTL
-----------------------------------------------------------------------------
\* What CoreIsReady says of a process of kind k with engine e.
ReadyToWork(k, e) ==
  /\ k # "run" => Intact(e)
  /\ k = "watchdog" => NamesOf(Defence) \subseteq NamesOf(e.book)

LEMMA ReadyLoad ==
  ASSUME TypeInv, CoreIsReady, NEW p \in Procs, Load(p)
  PROVE  CoreIsReady'
  <1>1. /\ engine \in [Procs -> Engine] /\ engine[p] \in Engine /\ kind[p] \in Kinds
        /\ phase \in [Procs -> Phases]
    BY DEF TypeInv, TypeOK
  <1>2. CASE LoadMeta(p)
    BY <1>1, <1>2 DEF LoadMeta, CoreIsReady
  <1>3. CASE LoadRaises(p) \/ LoadVectors(p)
    <2>1. PICK e \in Engine, raised \in BOOLEAN :
            engine' = [engine EXCEPT ![p] = Prepare(kind[p], e, raised)]
      <3>1. CASE LoadRaises(p)
        BY <1>1, <3>1 DEF LoadRaises
      <3>2. CASE LoadVectors(p)
        <4>1. PICK names \in Listed :
                engine' = [engine EXCEPT ![p] =
                  Prepare(kind[p], [@ EXCEPT !.book = IF index.kind = "torn" THEN <<>>
                                                      ELSE Readable(names)], Raises(names))]
          BY <3>2 DEF LoadVectors
        <4>2. PICK b : b = IF index.kind = "torn" THEN <<>> ELSE Readable(names)
          OBVIOUS
        <4>3. b \in Books
          BY <4>2, EmptyBook, ListsBooks, ReadsBooks DEF TypeInv
        <4>4. [engine[p] EXCEPT !.book = b] \in Engine
          BY <1>1, <4>3, LoadsKeep
        <4>5. Raises(names) \in BOOLEAN
          BY DEF Raises
        <4>6. engine' = [engine EXCEPT ![p] =
                           Prepare(kind[p], [engine[p] EXCEPT !.book = b], Raises(names))]
          BY <1>1, <4>1, <4>2
        <4> QED
          BY <4>4, <4>5, <4>6
      <3> QED
        BY <1>3, <3>1, <3>2
    <2>2. ReadyToWork(kind[p], Prepare(kind[p], e, raised))
      BY <1>1, Prepares DEF ReadyToWork
    <2>3. engine'[p] = Prepare(kind[p], e, raised) /\ UNCHANGED kind
      BY <1>1, <1>3, <2>1 DEF LoadRaises, LoadVectors
    <2>4. ReadyToWork(kind'[p], engine'[p])
      BY <2>2, <2>3
    <2>5. \A q \in Procs : q # p => phase'[q] = phase[q] /\ engine'[q] = engine[q]
      BY <1>1, <1>3, <2>1 DEF LoadRaises, LoadVectors
    <2> QED
      BY <2>3, <2>4, <2>5 DEF CoreIsReady, ReadyToWork
  <1> QED
    BY <1>2, <1>3 DEF Load

LEMMA ReadyNext ==
  TypeInv /\ CoreIsReady /\ [Next]_vars => CoreIsReady'
  <1> SUFFICES ASSUME TypeInv, CoreIsReady, [Next]_vars
               PROVE  CoreIsReady'
    OBVIOUS
  <1> USE DEF CoreIsReady
  <1>1. /\ phase \in [Procs -> Phases] /\ engine \in [Procs -> Engine] /\ kind \in [Procs -> Kinds]
    BY DEF TypeInv, TypeOK
  <1>2. CASE UNCHANGED vars
    BY <1>2 DEF vars
  <1>3. ASSUME NEW p \in Procs, NEW k \in Kinds, Begin(p, k)
        PROVE  CoreIsReady'
    <2>1. Intact(WithJumpStart(NewEngine))
      BY NewIsEngine, JumpStarts
    <2>2. \A q \in Procs : q # p => UNCHANGED <<phase[q], kind[q], engine[q]>>
      BY <1>1, <1>3 DEF Begin
    <2>3. phase'[p] = "ready" => kind'[p] = "init" /\ engine'[p] = WithJumpStart(NewEngine)
      BY <1>1, <1>3 DEF Begin
    <2> QED
      BY <2>1, <2>2, <2>3
  <1>4. ASSUME NEW p \in Procs, NextTask(p) \/ End(p) \/ Save(p)
        PROVE  CoreIsReady'
    <2>1. phase'[p] # "ready"
      BY <1>1, <1>4 DEF NextTask, End, Save, SaveBegins, SaveMeta, OpenVector, SaveVector,
                        OpenIndex, SaveIndex
    <2>2. \A q \in Procs : q # p => UNCHANGED <<phase[q], kind[q], engine[q]>>
      BY <1>1, <1>4 DEF NextTask, End, Save, SaveBegins, SaveMeta, OpenVector, SaveVector,
                        OpenIndex, SaveIndex
    <2> QED
      BY <2>1, <2>2
  <1>5. ASSUME NEW p \in Procs, Load(p)
        PROVE  CoreIsReady'
    BY <1>5, ReadyLoad
  <1>6. ASSUME NEW p \in Procs, Handler(p)
        PROVE  CoreIsReady'
    <2>1. PICK e \in Engine : Use(p, e)
      BY <1>6, HandlersKeepType DEF TypeInv
    <2> QED
      BY <1>1, <2>1 DEF Use
  <1> QED
    BY <1>2, <1>3, <1>4, <1>5, <1>6 DEF Next

(***************************************************************************)
(* What a daemon or a watchdog starts to work with has every atom of the   *)
(* jump start, pinned, whatever load() found: bootstrap repairs it.        *)
(***************************************************************************)
THEOREM CoreReady ==
  Spec => []CoreIsReady
  <1>1. Init => CoreIsReady
    BY DEF Init, CoreIsReady
  <1> QED
    BY <1>1, TypeInvHolds, ReadyNext, PTL DEF Spec
-----------------------------------------------------------------------------
LEMMA Comparison ==
  ASSUME NEW e \in Engine, NEW i \in 1 .. Len(e.book), NEW gone
  PROVE  \/ Compare(e, i, gone) = gone
         \/ \E j \in i + 1 .. Len(e.book), v \in NamesOf(e.book) :
              /\ e.book[i] \notin gone /\ e.book[j] \notin gone
              /\ Near(e.book[i], e.book[j])
              /\ \/ v = e.book[j]
                 \/ v = e.book[i] /\ e.book[j] \in e.pins
              /\ v \notin e.pins
              /\ Compare(e, i, gone) = gone \cup {v}
  <1>1. Len(e.book) \in Nat
    BY BookNames DEF Engine
  <1>2. CASE e.book[i] \in gone \/ Rivals(e, i, gone) = {}
    BY <1>2 DEF Compare
  <1>3. CASE e.book[i] \notin gone /\ Rivals(e, i, gone) # {}
    <2>1. Rivals(e, i, gone) \in SUBSET Nat
      BY <1>1 DEF Rivals
    <2>2. \E j \in Rivals(e, i, gone) : \A k \in Rivals(e, i, gone) : j <= k
      BY <1>3, <2>1, LeastNatural
    <2>3. PICK j \in Rivals(e, i, gone) : j = First(Rivals(e, i, gone))
      BY <2>2 DEF First
    <2>4. /\ j \in i + 1 .. Len(e.book) /\ e.book[j] \notin gone /\ Near(e.book[i], e.book[j])
          /\ ~({e.book[i], e.book[j]} \subseteq e.pins)
      BY <2>3 DEF Rivals
    <2>5. Compare(e, i, gone) = gone \cup {Victim(e, e.book[i], e.book[j])}
      BY <1>3, <2>3 DEF Compare
    <2>6. Victim(e, e.book[i], e.book[j]) \in NamesOf(e.book)
      <3>1. j \in 1 .. Len(e.book)
        BY <1>1, <2>4
      <3>2. e.book[i] \in NamesOf(e.book) /\ e.book[j] \in NamesOf(e.book)
        BY <3>1, BookNames DEF Engine
      <3> QED
        BY <3>2 DEF Victim
    <2> QED
      BY <1>3, <2>4, <2>5, <2>6 DEF Victim
  <1> QED
    BY <1>2, <1>3

\* gone is the function that Culled builds.
Culls(gone, e) ==
  /\ gone[0] = {}
  /\ \A i \in 1 .. Len(e.book) : gone[i] = Compare(e, i, gone[i - 1])

LEMMA CullRecursion ==
  ASSUME NEW e \in Engine
  PROVE  \E gone : Culls(gone, e) /\ Culled(e) = Without(e, gone[Len(e.book)])
  <1> PICK n \in Nat : n = Len(e.book)
    BY BookNames DEF Engine
  <1> DEFINE def(f, i) == IF i = 0 THEN {} ELSE Compare(e, i, f[i - 1])
             Eq(f) == f = [i \in 0 .. n |-> def(f, i)]
  <1>1. PICK step : step = [i \in 1 .. n |-> [g \in SUBSET Names |-> Compare(e, i, g)]]
    OBVIOUS
  <1>2. step \in Steps(n, SUBSET Names)
    <2>1. ASSUME NEW i \in 1 .. n, NEW g \in SUBSET Names
          PROVE  Compare(e, i, g) \in SUBSET Names
      <3>1. \A j \in 1 .. n : e.book[j] \in Names
        BY BookNames DEF Engine
      <3>2. \A j \in i + 1 .. n : j \in 1 .. n
        OBVIOUS
      <3> QED
        BY <3>1, <3>2, Comparison
    <2> QED
      BY <1>1, <2>1 DEF Steps
  <1>3. PICK v \in SUBSET Names : v = {}
    OBVIOUS
  <1>4. PICK f \in [0 .. n -> SUBSET Names] : Recursive(f, n, v, step)
    BY <1>2, Recursion
  <1>5. \A i \in 1 .. n : f[i] = Compare(e, i, f[i - 1])
    <2>1. \A i \in 1 .. n : f[i - 1] \in SUBSET Names
      BY <1>4
    <2> QED
      BY <1>1, <1>4, <2>1 DEF Recursive
  <1>6. Eq(f)
    <2>1. ASSUME NEW i \in 0 .. n
          PROVE  f[i] = def(f, i)
      <3>1. CASE i = 0
        BY <1>3, <1>4, <3>1 DEF Recursive
      <3>2. CASE i # 0
        <4>1. i \in 1 .. n
          BY <3>2
        <4>2. f[i] = Compare(e, i, f[i - 1])
          BY <1>5, <4>1
        <4> QED
          BY <3>2, <4>2
      <3> QED
        BY <3>1, <3>2
    <2> HIDE DEF def
    <2> QED
      BY <1>4, <2>1
  <1>7. Culled(e) = Without(e, (CHOOSE g : Eq(g))[n])
    BY Zenon DEF Culled
  <1>8. PICK gone : Eq(gone) /\ Culled(e) = Without(e, gone[n])
    <2> HIDE DEF Eq
    <2>1. Eq(CHOOSE g : Eq(g))
      BY <1>6, Zenon
    <2> QED
      BY <1>7, <2>1
  <1>9. \A i \in 0 .. n : gone[i] = def(gone, i)
    <2> HIDE DEF def
    <2> QED
      BY <1>8
  <1>10. gone[0] = {}
    BY <1>9
  <1>11. \A i \in 1 .. n : gone[i] = Compare(e, i, gone[i - 1])
    BY <1>9
  <1> QED
    BY <1>8, <1>10, <1>11 DEF Culls

LEMMA CullIsSafe ==
  ASSUME NEW e \in Engine
  PROVE  LET lost == NamesOf(e.book) \ NamesOf(Culled(e).book) IN
         /\ lost \cap e.pins = {}
         /\ \A n \in lost : \E m \in NamesOf(Culled(e).book) : Near(n, m)
  <1>1. PICK len \in Nat : len = Len(e.book)
    BY BookNames DEF Engine
  <1>2. PICK book : book = e.book
    OBVIOUS
  <1>3. /\ \A i \in 1 .. len : book[i] \in NamesOf(book)
        /\ \A i, j \in 1 .. len : book[i] = book[j] => i = j
    BY <1>1, <1>2, BookNames DEF Engine
  <1>4. PICK gone : Culls(gone, e) /\ Culled(e) = Without(e, gone[len])
    BY <1>1, CullRecursion
  <1> DEFINE Stays(g, i) == {m \in NamesOf(book) \ g :
                              m \in e.pins \/ \E k \in 1 .. i : m = book[k]}
             Safe(i) == /\ gone[i] \cap e.pins = {}
                        /\ \A n \in gone[i] : \E m \in Stays(gone[i], i) : Near(n, m)
             bad == {i \in 0 .. len : ~Safe(i)}
  <1>5. Safe(0)
    BY <1>4 DEF Culls
  <1>6. ASSUME NEW i \in 1 .. len, Safe(i - 1)
        PROVE  Safe(i)
    <2>1. PICK before, now : before = gone[i - 1] /\ now = gone[i]
      OBVIOUS
    <2>2. now = Compare(e, i, before)
      BY <1>1, <1>4, <2>1 DEF Culls
    <2>3. /\ before \cap e.pins = {}
          /\ \A n \in before : \E m \in Stays(before, i - 1) : Near(n, m)
      BY <1>6, <2>1
    <2>4. CASE now = before
      <3>1. Stays(before, i - 1) \subseteq Stays(now, i)
        BY <2>4
      <3> HIDE DEF Stays
      <3> QED
        BY <2>1, <2>3, <2>4, <3>1
    <2>5. CASE now # before
      <3>1. PICK j \in i + 1 .. len, v \in NamesOf(book) :
              /\ book[i] \notin before /\ book[j] \notin before
              /\ Near(book[i], book[j])
              /\ \/ v = book[j]
                 \/ v = book[i] /\ book[j] \in e.pins
              /\ v \notin e.pins
              /\ now = before \cup {v}
        BY <1>1, <1>2, <2>2, <2>5, Comparison
      <3>2. j \in 1 .. len /\ j # i
        OBVIOUS
      <3>3. Stays(before, i - 1) \subseteq Stays(now, i)
        <4>1. ASSUME NEW m \in Stays(before, i - 1)
              PROVE  m # v
          <5>1. CASE m \in e.pins
            BY <3>1, <5>1
          <5>2. CASE m \notin e.pins
            <6>1. PICK k \in 1 .. i - 1 : m = book[k]
              BY <4>1, <5>2
            <6>2. k \in 1 .. len /\ k # i /\ k # j
              OBVIOUS
            <6> QED
              BY <1>3, <3>1, <3>2, <6>1, <6>2
          <5> QED
            BY <5>1, <5>2
        <4>2. \A m \in Stays(before, i - 1) : m \in NamesOf(book) \ now
          BY <3>1, <4>1
        <4> QED
          BY <4>2
      <3>4. \E m \in Stays(now, i) : Near(v, m)
        <4>1. CASE v = book[j]
          <5>1. book[i] # v
            BY <1>3, <3>2, <4>1
          <5>2. book[i] \in Stays(now, i)
            BY <1>3, <3>1, <5>1
          <5>3. Near(v, book[i])
            BY <3>1, <4>1 DEF Near
          <5> HIDE DEF Stays
          <5> QED
            BY <5>2, <5>3
        <4>2. CASE v = book[i] /\ book[j] \in e.pins
          <5>1. book[j] # v
            BY <1>3, <3>2, <4>2
          <5>2. book[j] \in Stays(now, i)
            BY <1>3, <3>1, <3>2, <4>2, <5>1
          <5>3. Near(v, book[j])
            BY <3>1, <4>2
          <5> HIDE DEF Stays
          <5> QED
            BY <5>2, <5>3
        <4> QED
          BY <3>1, <4>1, <4>2
      <3> HIDE DEF Stays
      <3> QED
        BY <2>1, <2>3, <3>1, <3>3, <3>4
    <2> QED
      BY <2>4, <2>5
  <1> HIDE DEF Safe
  <1>7. bad = {}
    <2> SUFFICES ASSUME bad # {} PROVE FALSE
      OBVIOUS
    <2>1. bad \in SUBSET Nat
      OBVIOUS
    <2> HIDE DEF bad
    <2>2. PICK m \in bad : \A k \in bad : m <= k
      BY <2>1, LeastNatural
    <2> USE DEF bad
    <2>3. m \in 1 .. len /\ m - 1 \in 0 .. len
      BY <1>5, <2>2
    <2>4. Safe(m - 1)
      BY <2>2, <2>3
    <2> QED
      BY <1>6, <2>2, <2>3, <2>4
  <1>8. Safe(len)
    BY <1>7
  <1> USE DEF Safe
  <1>9. NamesOf(Culled(e).book) = NamesOf(book) \ gone[len]
    BY <1>2, <1>4, Loses
  <1>10. NamesOf(book) \ NamesOf(Culled(e).book) \subseteq gone[len]
    BY <1>9
  <1>11. Stays(gone[len], len) \subseteq NamesOf(Culled(e).book)
    BY <1>9
  <1> HIDE DEF Stays
  <1>12. \A n \in gone[len] : \E m \in NamesOf(Culled(e).book) : Near(n, m)
    BY <1>8, <1>11
  <1> QED
    BY <1>2, <1>8, <1>10, <1>12

(***************************************************************************)
(* prune_by_utility and prune_redundant take no pinned atom away, and what *)
(* prune_redundant takes away is like an atom that stays to its end.       *)
(***************************************************************************)
THEOREM PruningSafe ==
  Spec => PruningIsSafe
  <1> DEFINE Lost(p) == NamesOf(engine[p].book) \ NamesOf(engine'[p].book)
             Safe(p) == /\ PruneByUtility(p) \/ PruneRedundant(p) => Lost(p) \cap engine[p].pins = {}
                        /\ PruneRedundant(p) =>
                             \A n \in Lost(p) : \E m \in NamesOf(engine'[p].book) : Near(n, m)
  <1>1. ASSUME TypeInv, NEW p \in Procs
        PROVE  Safe(p)
    <2>1. engine \in [Procs -> Engine] /\ engine[p] \in Engine
      BY <1>1 DEF TypeInv, TypeOK
    <2>2. ASSUME PruneByUtility(p) PROVE Lost(p) \cap engine[p].pins = {}
      <3>1. PICK target \in 0 .. Len(engine[p].book) : \E e \in Pruned(engine[p], target) : Use(p, e)
        BY <2>2 DEF PruneByUtility
      <3> PICK e \in Pruned(engine[p], target) : Use(p, e)
        BY <3>1
      <3>2. PICK out \in SUBSET Candidates(engine[p]) : e = Without(engine[p], out)
        BY DEF Pruned
      <3>3. NamesOf(e.book) = NamesOf(engine[p].book) \ out
        BY <2>1, <3>2, Loses
      <3>4. engine'[p] = e
        BY <2>1 DEF Use
      <3> QED
        BY <3>2, <3>3, <3>4 DEF Candidates
    <2>3. ASSUME PruneRedundant(p)
          PROVE  /\ Lost(p) \cap engine[p].pins = {}
                 /\ \A n \in Lost(p) : \E m \in NamesOf(engine'[p].book) : Near(n, m)
      <3>1. engine'[p] = Culled(engine[p])
        BY <2>1, <2>3 DEF PruneRedundant, Use
      <3> QED
        BY <2>1, <3>1, CullIsSafe
    <2> QED
      BY <2>2, <2>3
  <1>2. TypeInv /\ [Next]_vars => [\A p \in Procs : Safe(p)]_vars
    BY <1>1
  <1>3. []TypeInv /\ [][Next]_vars => PruningIsSafe
    BY <1>2, PTL DEF PruningIsSafe
  <1> QED
    BY <1>3, TypeInvHolds, PTL DEF Spec
=============================================================================
