-------------------------- MODULE TieredLRU_proofs --------------------------
(***************************************************************************)
(* The safety of the segmented LRU, for every set of objects, every size   *)
(* of the zone and any number of goroutines.                               *)
(*                                                                         *)
(* First what the list operations do (Without, and the relation Holds of a *)
(* list and the set of its elements), then one lemma for each operation of *)
(* TieredLRU: it keeps the lists and the lookup map in agreement and every *)
(* list within its bound. The inductive invariant IInv puts this together, *)
(* the theorems about it follow. The rest is about the files of removed    *)
(* objects, and the refinement of RankedCache.                             *)
(***************************************************************************)
EXTENDS TieredLRU, TLAPS, WellFoundedInduction, SequenceTheorems

-----------------------------------------------------------------------------
(* Without *)

\* A nonempty set of naturals has a least element.
LEMMA LeastNat == ASSUME NEW T, T \subseteq Nat, T # {}
                  PROVE  \E n \in T : \A m \in T : n <= m
<1>1. PICK n \in T : \A m \in T : ~(<<m, n>> \in OpToRel(<, Nat))
  BY NatLessThanWellFounded, WFMin
<1>2. \A m \in T : ~(m < n)
  BY <1>1 DEF OpToRel
<1>3. QED  BY <1>2

\* The body of the recursive function of Without.
Keep(f, s, S, i) ==
    IF i = 0 THEN <<>>
    ELSE IF s[i] \in S THEN f[i - 1] ELSE Append(f[i - 1], s[i])

\* f is that function on the first n elements.
IsKept(f, s, S, n) == f = [i \in 0 .. n |-> Keep(f, s, S, i)]

\* The recursive function of Without exists for every list.
LEMMA KeptExists == ASSUME NEW s, NEW S, NEW n \in Nat
                    PROVE  \E f : IsKept(f, s, S, n)
<1> DEFINE Bad == {m \in Nat : ~ \E f : IsKept(f, s, S, m)}
<1>1. SUFFICES ASSUME Bad # {} PROVE FALSE
  OBVIOUS
<1>2. PICK m \in Bad : \A k \in Bad : m <= k
  <2>1. Bad \subseteq Nat
    OBVIOUS
  <2>2. QED  BY <2>1, <1>1, LeastNat
<1>3. CASE m = 0
  <2>1. IsKept([i \in 0 .. 0 |-> <<>>], s, S, 0)
    BY DEF IsKept, Keep
  <2>2. QED  BY <2>1, <1>2, <1>3
<1>4. CASE m # 0
  <2>1. m \in Nat /\ m - 1 \in Nat /\ m - 1 \notin Bad
    BY <1>2, <1>4
  <2>2. PICK f : IsKept(f, s, S, m - 1)
    BY <2>1
  <2> DEFINE g == [i \in 0 .. m |-> Keep(f, s, S, i)]
  <2>3. \A i \in 0 .. m - 1 : f[i] = Keep(f, s, S, i)
    BY <2>1, <2>2 DEF IsKept
  <2>4. \A i \in 0 .. m - 1 : g[i] = f[i]
    BY <2>1, <2>3
  <2>5. ASSUME NEW i \in 0 .. m
        PROVE  Keep(g, s, S, i) = Keep(f, s, S, i)
    <3>1. i = 0 \/ i - 1 \in 0 .. m - 1
      BY <2>1
    <3>2. i = 0 \/ g[i - 1] = f[i - 1]
      BY <3>1, <2>4
    <3> HIDE DEF g
    <3>3. QED  BY <3>2 DEF Keep
  <2>6. g = [i \in 0 .. m |-> Keep(g, s, S, i)]
    BY <2>5
  <2>7. QED  BY <2>6, <1>2 DEF IsKept
<1>5. QED  BY <1>3, <1>4

\* So the function that Without chooses has its defining equation.
LEMMA WithoutDef ==
    ASSUME NEW s, NEW S, Len(s) \in Nat
    PROVE  \E f : IsKept(f, s, S, Len(s)) /\ Without(s, S) = f[Len(s)]
<1> DEFINE f == CHOOSE f : IsKept(f, s, S, Len(s))
<1>1. IsKept(f, s, S, Len(s))
  BY KeptExists
<1>2. Without(s, S) = f[Len(s)]
  BY DEF Without, IsKept, Keep
<1>3. QED  BY <1>1, <1>2

\* t is what Without leaves of the first n elements.
IsPartOf(t, s, S, n) ==
    /\ Len(t) <= n
    /\ (\E k \in 1 .. n : s[k] \in S) => Len(t) < n
    /\ \A o : (\E j \in 1 .. Len(t) : t[j] = o) <=> (\E k \in 1 .. n : s[k] = o /\ o \notin S)
    /\ (\A i, j \in 1 .. n : s[i] = s[j] => i = j) => (\A i, j \in 1 .. Len(t) : t[i] = t[j] => i = j)

\* The next element is dropped: a part stays one.
LEMMA PartDrop ==
    ASSUME NEW T, NEW s \in Seq(T), NEW t \in Seq(T), NEW S,
           NEW m \in 1 .. Len(s), IsPartOf(t, s, S, m - 1), s[m] \in S
    PROVE  IsPartOf(t, s, S, m)
<1>1. m \in Nat /\ Len(t) \in Nat /\ 1 .. m = (1 .. m - 1) \cup {m}
  OBVIOUS
<1>2. Len(t) <= m /\ ((\E k \in 1 .. m : s[k] \in S) => Len(t) < m)
  BY <1>1 DEF IsPartOf
<1>3. \A o : (\E j \in 1 .. Len(t) : t[j] = o) <=> (\E k \in 1 .. m : s[k] = o /\ o \notin S)
  BY <1>1 DEF IsPartOf
<1>4. ASSUME \A i, j \in 1 .. m : s[i] = s[j] => i = j
      PROVE  \A i, j \in 1 .. Len(t) : t[i] = t[j] => i = j
  BY <1>1, <1>4 DEF IsPartOf
<1>5. QED  BY <1>2, <1>3, <1>4 DEF IsPartOf

\* The next element is kept: a part gets longer by it.
LEMMA PartAppend ==
    ASSUME NEW T, NEW s \in Seq(T), NEW t \in Seq(T), NEW S,
           NEW m \in 1 .. Len(s), IsPartOf(t, s, S, m - 1), s[m] \notin S
    PROVE  IsPartOf(Append(t, s[m]), s, S, m)
<1> DEFINE u == Append(t, s[m])
<1>1. m \in Nat /\ Len(t) \in Nat /\ 1 .. m = (1 .. m - 1) \cup {m} /\ m \notin 1 .. m - 1
  OBVIOUS
<1>2. /\ Len(u) = Len(t) + 1
      /\ \A j \in 1 .. Len(t) : u[j] = t[j]
      /\ u[Len(t) + 1] = s[m]
      /\ 1 .. Len(u) = (1 .. Len(t)) \cup {Len(t) + 1}
  OBVIOUS
<1> HIDE DEF u
<1>3. Len(u) <= m /\ ((\E k \in 1 .. m : s[k] \in S) => Len(u) < m)
  BY <1>1, <1>2 DEF IsPartOf
<1>4. \A o : (\E j \in 1 .. Len(u) : u[j] = o) <=> (\E k \in 1 .. m : s[k] = o /\ o \notin S)
  BY <1>1, <1>2 DEF IsPartOf
<1>5. ASSUME \A i, j \in 1 .. m : s[i] = s[j] => i = j
      PROVE  \A i, j \in 1 .. Len(u) : u[i] = u[j] => i = j
  <2>1. \A i \in 1 .. Len(t) : t[i] # s[m]
    BY <1>1, <1>5 DEF IsPartOf
  <2>2. \A i, j \in 1 .. Len(t) : t[i] = t[j] => i = j
    BY <1>1, <1>5 DEF IsPartOf
  <2>3. QED  BY <1>1, <1>2, <2>1, <2>2
<1>6. QED  BY <1>3, <1>4, <1>5 DEF IsPartOf, u

\* What list.Remove leaves: the other elements, once each if they were, and
\* a shorter list if one was removed.
LEMMA WithoutIs ==
    ASSUME NEW T, NEW s \in Seq(T), NEW S
    PROVE  Without(s, S) \in Seq(T) /\ IsPartOf(Without(s, S), s, S, Len(s))
<1>1. Len(s) \in Nat
  OBVIOUS
<1>2. PICK f : IsKept(f, s, S, Len(s)) /\ Without(s, S) = f[Len(s)]
  BY <1>1, WithoutDef
<1> DEFINE Good(m) == f[m] \in Seq(T) /\ IsPartOf(f[m], s, S, m)
           Bad == {m \in 0 .. Len(s) : ~Good(m)}
<1>3. SUFFICES ASSUME Bad # {} PROVE FALSE
  BY <1>1, <1>2
<1>4. PICK m \in Bad : \A k \in Bad : m <= k
  <2>1. Bad \subseteq Nat
    BY <1>1
  <2> HIDE DEF Bad
  <2>2. QED  BY <2>1, <1>3, LeastNat
<1>5. \A i \in 0 .. Len(s) : f[i] = Keep(f, s, S, i)
  BY <1>1, <1>2 DEF IsKept
<1>6. m \in 0 .. Len(s) /\ ~Good(m) /\ m \in Nat
  BY <1>1, <1>4
<1>7. CASE m = 0
  <2>1. f[m] = <<>>
    BY <1>5, <1>6, <1>7 DEF Keep
  <2>2. Len(f[m]) = 0 /\ f[m] \in Seq(T) /\ 1 .. Len(f[m]) = {} /\ 1 .. m = {}
    BY <2>1, <1>7
  <2>3. Good(m)
    BY <2>2, <1>7 DEF IsPartOf
  <2>4. QED  BY <2>3, <1>6
<1>8. CASE m # 0
  <2>1. m \in 1 .. Len(s) /\ m - 1 \in 0 .. Len(s) /\ ~(m <= m - 1)
    BY <1>1, <1>6, <1>8
  <2>2. Good(m - 1)
    BY <2>1, <1>4
  <2>3. s[m] \in T
    BY <2>1
  <2>4. CASE s[m] \in S
    <3>1. f[m] = f[m - 1]
      BY <1>5, <1>6, <1>8, <2>4 DEF Keep
    <3>2. QED  BY <3>1, <2>1, <2>2, <2>4, <1>6, PartDrop
  <2>5. CASE s[m] \notin S
    <3>1. f[m] = Append(f[m - 1], s[m])
      BY <1>5, <1>6, <1>8, <2>5 DEF Keep
    <3>2. f[m] \in Seq(T)
      BY <3>1, <2>2, <2>3
    <3>3. QED  BY <3>1, <3>2, <2>1, <2>2, <2>5, <1>6, PartAppend
  <2>6. QED  BY <2>4, <2>5
<1>9. QED  BY <1>7, <1>8

-----------------------------------------------------------------------------
(* Lists that hold a set *)

\* The list s holds the elements of E, and each of them once.
Holds(s, E) ==
    /\ s \in Seq(Objects)
    /\ \A i, j \in 1 .. Len(s) : s[i] = s[j] => i = j
    /\ \A o : o \in E <=> \E i \in 1 .. Len(s) : s[i] = o

\* The empty list holds nothing.
LEMMA HoldsNothing == Holds(<<>>, {})
BY DEF Holds

\* list.PushFront of an element that is not in the list.
LEMMA HoldsPushFront ==
    ASSUME NEW s, NEW E, Holds(s, E), NEW o \in Objects, o \notin E
    PROVE  Holds(<<o>> \o s, E \cup {o}) /\ Len(<<o>> \o s) = Len(s) + 1
<1> DEFINE t == <<o>> \o s
<1>1. /\ s \in Seq(Objects) /\ Len(s) \in Nat
      /\ t \in Seq(Objects) /\ Len(t) = Len(s) + 1
      /\ t[1] = o /\ \A i \in 1 .. Len(s) : t[i + 1] = s[i]
  BY DEF Holds
<1> HIDE DEF t
<1>2. \A i \in 1 .. Len(t) : i = 1 \/ (i - 1 \in 1 .. Len(s) /\ t[i] = s[i - 1])
  <2>1. TAKE i \in 1 .. Len(t)
  <2>2. i = 1 \/ (i - 1 \in 1 .. Len(s) /\ (i - 1) + 1 = i)
    BY <1>1
  <2>3. QED  BY <2>2, <1>1
<1>3. \A i, j \in 1 .. Len(t) : t[i] = t[j] => i = j
  <2>1. SUFFICES ASSUME NEW i \in 1 .. Len(t), NEW j \in 1 .. Len(t), t[i] = t[j]
                 PROVE  i = j
    OBVIOUS
  <2>2. \A k \in 1 .. Len(s) : s[k] # o
    BY DEF Holds
  <2>3. i = 1 <=> j = 1
    BY <2>1, <2>2, <1>1, <1>2
  <2>4. CASE i # 1 /\ j # 1
    <3>1. i - 1 = j - 1
      BY <2>1, <2>4, <1>2 DEF Holds
    <3>2. QED  BY <3>1, <1>1
  <2>5. QED  BY <2>3, <2>4
<1>4. \A x : x \in E \cup {o} <=> \E i \in 1 .. Len(t) : t[i] = x
  <2>1. ASSUME NEW x \in E PROVE \E i \in 1 .. Len(t) : t[i] = x
    <3>1. PICK i \in 1 .. Len(s) : s[i] = x
      BY DEF Holds
    <3>2. i + 1 \in 1 .. Len(t) /\ t[i + 1] = x
      BY <1>1, <3>1
    <3>3. QED  BY <3>2
  <2>2. 1 \in 1 .. Len(t) /\ t[1] = o
    BY <1>1
  <2>3. \A i \in 1 .. Len(t) : t[i] \in E \cup {o}
    BY <1>1, <1>2 DEF Holds
  <2>4. QED  BY <2>1, <2>2, <2>3
<1>5. QED  BY <1>1, <1>3, <1>4 DEF Holds, t

\* list.PushBack of an element that is not in the list.
LEMMA HoldsPushBack ==
    ASSUME NEW s, NEW E, Holds(s, E), NEW o \in Objects, o \notin E
    PROVE  Holds(Append(s, o), E \cup {o}) /\ Len(Append(s, o)) = Len(s) + 1
<1> DEFINE t == Append(s, o)
<1>1. /\ s \in Seq(Objects) /\ Len(s) \in Nat
      /\ t \in Seq(Objects) /\ Len(t) = Len(s) + 1
      /\ t[Len(s) + 1] = o /\ \A i \in 1 .. Len(s) : t[i] = s[i]
  BY DEF Holds
<1> HIDE DEF t
<1>2. \A i \in 1 .. Len(t) : i = Len(s) + 1 \/ i \in 1 .. Len(s)
  BY <1>1
<1>3. \A i, j \in 1 .. Len(t) : t[i] = t[j] => i = j
  BY <1>1, <1>2 DEF Holds
<1>4. \A x : x \in E \cup {o} <=> \E i \in 1 .. Len(t) : t[i] = x
  <2>1. \A i \in 1 .. Len(s) : i \in 1 .. Len(t)
    BY <1>1
  <2>2. Len(s) + 1 \in 1 .. Len(t)
    BY <1>1
  <2>3. QED  BY <1>1, <1>2, <2>1, <2>2 DEF Holds
<1>5. QED  BY <1>1, <1>3, <1>4 DEF Holds, t

\* The elements of a list at the positions after m and up to n.
Piece(s, m, n) == {s[k] : k \in m + 1 .. n}

\* A piece of a list holds the elements at its positions.
LEMMA HoldsPiece ==
    ASSUME NEW s, NEW E, Holds(s, E), NEW m \in Nat, NEW n \in Nat, m <= n, n <= Len(s)
    PROVE  /\ Holds(SubSeq(s, m + 1, n), Piece(s, m, n))
           /\ Len(SubSeq(s, m + 1, n)) = n - m
<1> DEFINE t == SubSeq(s, m + 1, n)
<1>1. /\ s \in Seq(Objects) /\ Len(s) \in Nat
      /\ t \in Seq(Objects) /\ Len(t) = n - m
      /\ \A i \in 1 .. n - m : t[i] = s[m + i]
  BY DEF Holds
<1> HIDE DEF t
<1>2. \A i, j \in 1 .. Len(t) : t[i] = t[j] => i = j
  <2>1. SUFFICES ASSUME NEW i \in 1 .. Len(t), NEW j \in 1 .. Len(t), t[i] = t[j]
                 PROVE  i = j
    OBVIOUS
  <2>2. m + i \in 1 .. Len(s) /\ m + j \in 1 .. Len(s) /\ s[m + i] = s[m + j]
    BY <2>1, <1>1
  <2>3. m + i = m + j
    BY <2>2 DEF Holds
  <2>4. QED  BY <2>3, <1>1
<1>3. \A k \in m + 1 .. n : k - m \in 1 .. Len(t) /\ t[k - m] = s[k]
  <2>1. TAKE k \in m + 1 .. n
  <2>2. k - m \in 1 .. n - m /\ m + (k - m) = k
    OBVIOUS
  <2>3. QED  BY <2>2, <1>1
<1>4. \A i \in 1 .. Len(t) : m + i \in m + 1 .. n
  BY <1>1
<1>5. \A x : x \in Piece(s, m, n) <=> \E i \in 1 .. Len(t) : t[i] = x
  BY <1>1, <1>3, <1>4 DEF Piece
<1>6. QED  BY <1>1, <1>2, <1>5 DEF Holds, t

\* list.Remove of the front.
LEMMA HoldsTail ==
    ASSUME NEW s, NEW E, Holds(s, E), s # <<>>
    PROVE  /\ Head(s) \in E /\ Head(s) \in Objects
           /\ Holds(Tail(s), E \ {Head(s)}) /\ Len(Tail(s)) = Len(s) - 1
<1> DEFINE t == Tail(s)
<1>1. /\ s \in Seq(Objects) /\ Len(s) \in Nat /\ Len(s) > 0
      /\ t \in Seq(Objects) /\ Len(t) = Len(s) - 1
      /\ Head(s) = s[1] /\ s[1] \in Objects
      /\ \A i \in 1 .. Len(t) : t[i] = s[i + 1]
  BY DEF Holds
<1> HIDE DEF t
<1>2. \A i \in 1 .. Len(t) : i + 1 \in 1 .. Len(s) /\ i + 1 # 1
  BY <1>1
<1>3. \A i, j \in 1 .. Len(t) : t[i] = t[j] => i = j
  <2>1. SUFFICES ASSUME NEW i \in 1 .. Len(t), NEW j \in 1 .. Len(t), t[i] = t[j]
                 PROVE  i = j
    OBVIOUS
  <2>2. i + 1 = j + 1
    BY <2>1, <1>1, <1>2 DEF Holds
  <2>3. QED  BY <2>2, <1>1
<1>4. 1 \in 1 .. Len(s)
  BY <1>1
<1>5. \A k \in 1 .. Len(s) : k = 1 \/ (k - 1 \in 1 .. Len(t) /\ t[k - 1] = s[k])
  <2>1. TAKE k \in 1 .. Len(s)
  <2>2. k = 1 \/ (k - 1 \in 1 .. Len(t) /\ (k - 1) + 1 = k)
    BY <1>1
  <2>3. QED  BY <2>2, <1>1
<1>6. \A x : x \in E \ {Head(s)} <=> \E i \in 1 .. Len(t) : t[i] = x
  BY <1>1, <1>2, <1>4, <1>5 DEF Holds
<1>7. QED  BY <1>1, <1>3, <1>4, <1>6 DEF Holds, t

\* list.Remove of the back.
LEMMA HoldsFront ==
    ASSUME NEW s, NEW E, Holds(s, E), s # <<>>
    PROVE  /\ Last(s) \in E /\ Last(s) \in Objects
           /\ Holds(Front(s), E \ {Last(s)}) /\ Len(Front(s)) = Len(s) - 1
<1>1. s \in Seq(Objects) /\ Len(s) \in Nat /\ Len(s) > 0
  BY DEF Holds
<1>2. Len(s) \in 1 .. Len(s) /\ s[Len(s)] \in Objects
  BY <1>1
<1>3. /\ Holds(SubSeq(s, 1, Len(s) - 1), {s[k] : k \in 1 .. Len(s) - 1})
      /\ Len(SubSeq(s, 1, Len(s) - 1)) = Len(s) - 1
  <2>1. PICK m, n : m = 0 /\ n = Len(s) - 1
    OBVIOUS
  <2>2. m \in Nat /\ n \in Nat /\ m <= n /\ n <= Len(s) /\ m + 1 = 1 /\ n - m = n
    BY <1>1, <2>1
  <2>3. Holds(SubSeq(s, m + 1, n), {s[k] : k \in m + 1 .. n})
        /\ Len(SubSeq(s, m + 1, n)) = n - m
    BY <2>2, HoldsPiece DEF Piece
  <2>4. QED  BY <2>1, <2>2, <2>3
<1>4. {s[k] : k \in 1 .. Len(s) - 1} = E \ {s[Len(s)]}
  <2>1. \A k \in 1 .. Len(s) : k = Len(s) \/ k \in 1 .. Len(s) - 1
    BY <1>1
  <2>2. \A k \in 1 .. Len(s) - 1 : k \in 1 .. Len(s) /\ k # Len(s)
    BY <1>1
  <2>3. QED  BY <1>2, <2>1, <2>2 DEF Holds
<1>5. QED  BY <1>2, <1>3, <1>4 DEF Holds, Front, Last

\* list.Remove of any elements.
LEMMA HoldsWithout ==
    ASSUME NEW s, NEW E, Holds(s, E), NEW S
    PROVE  /\ Holds(Without(s, S), E \ S)
           /\ Len(Without(s, S)) <= Len(s)
           /\ E \cap S # {} => Len(Without(s, S)) < Len(s)
<1> DEFINE t == Without(s, S)
<1>1. s \in Seq(Objects) /\ Len(s) \in Nat
  BY DEF Holds
<1>2. t \in Seq(Objects) /\ IsPartOf(t, s, S, Len(s)) /\ Len(t) \in Nat
  BY <1>1, WithoutIs
<1> HIDE DEF t
<1>3. \A o : o \in E \ S <=> \E i \in 1 .. Len(t) : t[i] = o
  BY <1>2 DEF Holds, IsPartOf
<1>4. \A i, j \in 1 .. Len(t) : t[i] = t[j] => i = j
  BY <1>2 DEF Holds, IsPartOf
<1>5. Len(t) <= Len(s) /\ (E \cap S # {} => Len(t) < Len(s))
  BY <1>2 DEF Holds, IsPartOf
<1>6. QED  BY <1>2, <1>3, <1>4, <1>5 DEF Holds, t

-----------------------------------------------------------------------------
(* The operations of the LRU *)

\* The objects whose Element names tier i.
Members(lk, i) == {o \in Objects : lk[o] = i}

\* The lists and the map agree, and no list is longer than b: the heart of
\* the inductive invariant, stated of values so that the lemmas can speak of
\* the intermediate lists of an operation.
Consistent(ts, lk, b) ==
    /\ ts = [i \in Tiers |-> ts[i]]
    /\ lk \in [Objects -> Tiers \cup {Absent}]
    /\ \A i \in Tiers : Holds(ts[i], Members(lk, i)) /\ Len(ts[i]) <= b

\* What a tier may hold (TiersBounded).
Bound(n) == Max({n, 1})

\* The bound of a tier is positive, and it is tierListSize unless that is 0.
LEMMA BoundIs == ASSUME NEW n \in Nat
                 PROVE  /\ Bound(n) \in Nat /\ Bound(n) >= 1 /\ Bound(n) >= n
                        /\ n >= 1 => Bound(n) = n
BY DEF Bound, Max

\* PushFront in the last list, and the new Element, once there is room.
LEMMA PushNewConsistent ==
    ASSUME NEW ts, NEW lk, NEW b \in Nat, Consistent(ts, lk, b),
           NEW o \in Objects, lk[o] = Absent, Len(ts[LastTier]) < b
    PROVE  Consistent([ts EXCEPT ![LastTier] = <<o>> \o @],
                      [lk EXCEPT ![o] = LastTier], b)
<1> DEFINE us == [ts EXCEPT ![LastTier] = <<o>> \o @]
           mk == [lk EXCEPT ![o] = LastTier]
<1>1. LastTier \in Tiers /\ Absent \notin Tiers
  BY DEF LastTier, Tiers, cacheTiers, Absent
<1>2. mk \in [Objects -> Tiers \cup {Absent}] /\ us = [i \in Tiers |-> us[i]]
  BY <1>1 DEF Consistent
<1>3. Members(mk, LastTier) = Members(lk, LastTier) \cup {o}
  BY <1>1 DEF Consistent, Members
<1>4. ASSUME NEW i \in Tiers, i # LastTier
      PROVE  us[i] = ts[i] /\ Members(mk, i) = Members(lk, i)
  BY <1>1, <1>4 DEF Consistent, Members
<1>5. Holds(us[LastTier], Members(mk, LastTier)) /\ Len(us[LastTier]) <= b
  <2>1. us[LastTier] = <<o>> \o ts[LastTier]
    BY <1>1 DEF Consistent
  <2>2. o \notin Members(lk, LastTier)
    BY <1>1 DEF Members
  <2>3. Holds(<<o>> \o ts[LastTier], Members(lk, LastTier) \cup {o})
        /\ Len(<<o>> \o ts[LastTier]) = Len(ts[LastTier]) + 1
    BY <1>1, <2>2, HoldsPushFront DEF Consistent
  <2>4. Len(ts[LastTier]) \in Nat
    BY <1>1 DEF Consistent, Holds
  <2>5. Len(us[LastTier]) <= b
    <3> HIDE DEF us
    <3>1. QED  BY <2>1, <2>3, <2>4
  <2> HIDE DEF us, mk
  <2>6. QED  BY <1>3, <2>1, <2>3, <2>5
<1>6. QED  BY <1>2, <1>4, <1>5 DEF Consistent

\* Consistent of the current state.
LInv == Consistent(tiers, lookup, Bound(tierListSize)) /\ tierListSize \in Nat

\* The four tiers.
LEMMA TierFacts ==
    Tiers = {0, 1, 2, 3} /\ LastTier = 3 /\ Absent = -1 /\ Absent \notin Tiers
BY DEF LastTier, Tiers, cacheTiers, Absent

\* freeSpaceInLastList, when an upper tier has room, keeps the lists and the
\* map in agreement and makes room in the last list.
LEMMA CascadeConsistent ==
    ASSUME LInv, LastIsFull, NEW f \in FreeLists, \A i \in FreeLists : i <= f
    PROVE  /\ Consistent(Cascade(f), CascadeLookup(f), Bound(tierListSize))
           /\ Len(Cascade(f)[LastTier]) < Bound(tierListSize)
           /\ \A o \in Objects : lookup[o] = Absent <=> CascadeLookup(f)[o] = Absent
<1> DEFINE us == Cascade(f)
           mk == CascadeLookup(f)
           L  == tierListSize
           b  == Bound(tierListSize)
<1>1. /\ f \in 0 .. 2 /\ Len(tiers[f]) < L /\ L \in Nat
      /\ \A i \in Tiers : Len(tiers[i]) \in Nat /\ tiers[i] \in Seq(Objects)
      /\ \A i \in Tiers : Holds(tiers[i], Members(lookup, i))
      /\ b \in Nat /\ b >= L /\ b >= 1
      /\ lookup \in [Objects -> Tiers \cup {Absent}]
  BY BoundIs, TierFacts DEF LInv, Consistent, FreeLists, HasRoom, Holds
<1>2. L >= 1 /\ b = L /\ \A i \in Tiers : Len(tiers[i]) <= L
  BY <1>1, BoundIs, TierFacts DEF LInv, Consistent
<1>3. \A i \in f + 1 .. 3 : i \in Tiers /\ Len(tiers[i]) >= L /\ tiers[i] # <<>>
  <2>1. TAKE i \in f + 1 .. 3
  <2>2. CASE i = 3
    BY <2>2, TierFacts DEF LastIsFull
  <2>3. CASE i # 3
    <3>1. i \in 0 .. 2 /\ i \in Tiers /\ ~(i <= f)
      BY <1>1, <2>3, TierFacts
    <3>2. i \notin FreeLists
      BY <3>1
    <3>3. Len(tiers[i]) >= L
      BY <1>1, <3>1, <3>2, TierFacts DEF FreeLists, HasRoom
    <3>4. QED  BY <1>1, <1>2, <3>1, <3>3
  <2>4. QED  BY <2>2, <2>3
<1>4. \A i \in f + 1 .. 3 :
        /\ Head(tiers[i]) \in Objects /\ lookup[Head(tiers[i])] = i
        /\ Holds(Tail(tiers[i]), Members(lookup, i) \ {Head(tiers[i])})
        /\ Len(Tail(tiers[i])) = Len(tiers[i]) - 1
  <2>1. TAKE i \in f + 1 .. 3
  <2>2. Holds(tiers[i], Members(lookup, i)) /\ tiers[i] # <<>>
    BY <1>1, <1>3
  <2>3. /\ Head(tiers[i]) \in Members(lookup, i)
        /\ Holds(Tail(tiers[i]), Members(lookup, i) \ {Head(tiers[i])})
        /\ Len(Tail(tiers[i])) = Len(tiers[i]) - 1
    BY <2>2, HoldsTail
  <2>4. QED  BY <2>3 DEF Members
<1>5. mk \in [Objects -> Tiers \cup {Absent}]
      /\ \A o \in Objects : lookup[o] = Absent <=> mk[o] = Absent
  <2>1. \A o \in Objects : mk[o] = lookup[o]
                          \/ (lookup[o] \in f + 1 .. 3 /\ mk[o] = lookup[o] - 1)
    BY <1>4, TierFacts DEF CascadeLookup
  <2>2. QED
    <3>1. mk = [o \in Objects |-> mk[o]]
      BY DEF CascadeLookup
    <3>2. ASSUME NEW o \in Objects PROVE mk[o] \in Tiers \cup {Absent}
      BY <2>1, <1>1, TierFacts
    <3>3. ASSUME NEW o \in Objects PROVE lookup[o] = Absent <=> mk[o] = Absent
      BY <2>1, <1>1, TierFacts
    <3>4. QED  BY <3>1, <3>2, <3>3
<1>6. \A o \in Objects : mk[o] = IF lookup[o] \in f + 1 .. 3 /\ o = Head(tiers[lookup[o]])
                                 THEN lookup[o] - 1 ELSE lookup[o]
  BY <1>4, TierFacts DEF CascadeLookup
<1>7. us = [i \in Tiers |-> us[i]]
  BY DEF Cascade
<1>8. \A i \in Tiers :
        /\ i < f => us[i] = tiers[i]
        /\ i = f => us[i] = Append(tiers[i], Head(tiers[i + 1]))
        /\ f < i /\ i < 3 => us[i] = Tail(Append(tiers[i], Head(tiers[i + 1])))
        /\ i = 3 => us[i] = Tail(tiers[i])
  BY SMTT(30), <1>1, TierFacts DEF Cascade, PushedUp
<1> HIDE DEF us, mk
<1>9. ASSUME NEW i \in Tiers
      PROVE  /\ i < f => Members(mk, i) = Members(lookup, i)
             /\ i = f => Members(mk, i) = Members(lookup, i) \cup {Head(tiers[i + 1])}
             /\ f < i /\ i < 3 => Members(mk, i) =
                   (Members(lookup, i) \cup {Head(tiers[i + 1])}) \ {Head(tiers[i])}
             /\ i = 3 => Members(mk, i) = Members(lookup, i) \ {Head(tiers[i])}
  <2>1. \A j \in Tiers : i = j - 1 <=> j = i + 1
    BY TierFacts
  <2>2. ASSUME NEW o \in Objects
        PROVE  mk[o] = i <=> \/ lookup[o] = i /\ ~(i \in f + 1 .. 3 /\ o = Head(tiers[i]))
                             \/ i + 1 \in f + 1 .. 3 /\ o = Head(tiers[i + 1])
    <3>1. CASE lookup[o] \in f + 1 .. 3 /\ o = Head(tiers[lookup[o]])
      <4>1. mk[o] = lookup[o] - 1
        BY <1>6, <3>1
      <4>2. mk[o] = i <=> lookup[o] = i + 1
        BY SMTT(30), <4>1, <3>1, <1>1, TierFacts
      <4>3. mk[o] = i => i + 1 \in f + 1 .. 3 /\ o = Head(tiers[i + 1])
        BY <4>2, <3>1
      <4>4. i + 1 \in f + 1 .. 3 /\ o = Head(tiers[i + 1]) => mk[o] = i
        BY <4>2, <1>4
      <4>5. lookup[o] = i => i \in f + 1 .. 3 /\ o = Head(tiers[i])
        BY <3>1
      <4>6. QED  BY <4>3, <4>4, <4>5
    <3>2. CASE ~(lookup[o] \in f + 1 .. 3 /\ o = Head(tiers[lookup[o]]))
      <4>1. mk[o] = lookup[o]
        BY <1>6, <3>2
      <4>2. i + 1 \in f + 1 .. 3 => o # Head(tiers[i + 1])
        BY <3>2, <1>4
      <4>3. lookup[o] = i => ~(i \in f + 1 .. 3 /\ o = Head(tiers[i]))
        BY <3>2
      <4>4. QED  BY <4>1, <4>2, <4>3
    <3>3. QED  BY <3>1, <3>2
  <2>3. i + 1 \in f + 1 .. 3 => Head(tiers[i + 1]) \in Objects
                              /\ Head(tiers[i + 1]) \notin Members(lookup, i)
    <3>1. i # i + 1
      BY TierFacts
    <3>2. QED  BY <3>1, <1>4 DEF Members
  <2>4. i \in f + 1 .. 3 => Head(tiers[i]) \in Members(lookup, i)
                         /\ (i + 1 \in f + 1 .. 3 => Head(tiers[i + 1]) # Head(tiers[i]))
    <3>1. i # i + 1
      BY TierFacts
    <3>2. QED  BY <3>1, <1>4 DEF Members
  <2>5. CASE i < f
    <3>1. i \notin f + 1 .. 3 /\ i + 1 \notin f + 1 .. 3 /\ i < 3
      BY <1>1, <2>5, TierFacts
    <3>2. Members(mk, i) = Members(lookup, i)
      BY <2>2, <3>1 DEF Members
    <3>3. QED  BY <2>5, <3>1, <3>2, <1>1, TierFacts
  <2>6. CASE i = f
    <3>1. i \notin f + 1 .. 3 /\ i + 1 \in f + 1 .. 3
      BY <1>1, <2>6, TierFacts
    <3>2. Members(mk, i) = Members(lookup, i) \cup {Head(tiers[i + 1])}
      BY <2>2, <2>3, <3>1 DEF Members
    <3>3. QED  BY <2>6, <3>2, <1>1, TierFacts
  <2>7. CASE f < i /\ i < 3
    <3>1. i \in f + 1 .. 3 /\ i + 1 \in f + 1 .. 3
      BY <1>1, <2>7, TierFacts
    <3>2. Members(mk, i) = (Members(lookup, i) \cup {Head(tiers[i + 1])}) \ {Head(tiers[i])}
      BY <2>2, <2>3, <2>4, <3>1 DEF Members
    <3>3. QED  BY <2>7, <3>2, <1>1, TierFacts
  <2>8. CASE i = 3
    <3>1. i \in f + 1 .. 3 /\ i + 1 \notin f + 1 .. 3
      BY <1>1, <2>8, TierFacts
    <3>2. Members(mk, i) = Members(lookup, i) \ {Head(tiers[i])}
      BY <2>2, <3>1 DEF Members
    <3>3. QED  BY <2>8, <3>2, <1>1, TierFacts
  <2>9. QED  BY <2>5, <2>6, <2>7, <2>8, <1>1, TierFacts
<1>10. ASSUME NEW i \in f .. 2
       PROVE  LET u == Append(tiers[i], Head(tiers[i + 1]))
              IN  Holds(u, Members(lookup, i) \cup {Head(tiers[i + 1])})
                  /\ Len(u) = Len(tiers[i]) + 1
  <2>1. i \in Tiers /\ i + 1 \in f + 1 .. 3 /\ i # i + 1
    BY <1>1, TierFacts
  <2>2. Head(tiers[i + 1]) \in Objects /\ Head(tiers[i + 1]) \notin Members(lookup, i)
    BY <1>4, <2>1 DEF Members
  <2>3. QED  BY <1>1, <2>1, <2>2, HoldsPushBack
<1>11. ASSUME NEW i \in Tiers
       PROVE  /\ Holds(us[i], Members(mk, i)) /\ Len(us[i]) <= b
              /\ i = 3 => Len(us[i]) < b
  <2>1. CASE i < f
    BY <1>1, <1>2, <1>8, <1>9, <2>1
  <2>2. CASE i = f
    <3> DEFINE u == Append(tiers[i], Head(tiers[i + 1]))
    <3>1. i \in f .. 2
      BY <1>1, <2>2
    <3>2. /\ Holds(u, Members(lookup, i) \cup {Head(tiers[i + 1])})
          /\ Len(u) = Len(tiers[i]) + 1
      BY <3>1, <1>10
    <3>3. us[i] = u /\ Members(mk, i) = Members(lookup, i) \cup {Head(tiers[i + 1])}
      BY <1>8, <1>9, <2>2
    <3> HIDE DEF u
    <3>4. QED  BY <3>2, <3>3, <1>1, <1>2, <2>2
  <2>3. CASE f < i /\ i < 3
    <3> DEFINE u == Append(tiers[i], Head(tiers[i + 1]))
               E == Members(lookup, i) \cup {Head(tiers[i + 1])}
    <3>1. i \in f .. 2 /\ i \in f + 1 .. 3
      BY <1>1, <2>3, TierFacts
    <3>2. Holds(u, E) /\ Len(u) = Len(tiers[i]) + 1
      BY <3>1, <1>10
    <3>3. Head(u) = Head(tiers[i]) /\ u # <<>>
      BY <1>1, <1>3, <1>4, <3>1
    <3> HIDE DEF u, E
    <3>4. Holds(Tail(u), E \ {Head(u)}) /\ Len(Tail(u)) = Len(u) - 1
      BY <3>2, <3>3, HoldsTail
    <3>5. us[i] = Tail(u) /\ Members(mk, i) = E \ {Head(u)}
      BY <1>8, <1>9, <2>3, <3>3 DEF u, E
    <3>6. QED  BY <3>2, <3>4, <3>5, <1>1, <1>2, <2>3
  <2>4. CASE i = 3
    <3>1. i \in f + 1 .. 3
      BY <1>1, <2>4
    <3>2. us[i] = Tail(tiers[i]) /\ Members(mk, i) = Members(lookup, i) \ {Head(tiers[i])}
      BY <1>8, <1>9, <2>4
    <3>3. Holds(us[i], Members(mk, i)) /\ Len(us[i]) = Len(tiers[i]) - 1
      BY <1>4, <3>1, <3>2
    <3>4. QED  BY <3>3, <1>1, <1>2
  <2>5. QED  BY <2>1, <2>2, <2>3, <2>4, <1>1, TierFacts
<1>12. QED  BY <1>5, <1>7, <1>11, TierFacts DEF us, mk, Consistent

\* What the agreement says of each tier.
LEMMA TierAt == ASSUME LInv
                PROVE  /\ lookup \in [Objects -> Tiers \cup {Absent}]
                       /\ Bound(tierListSize) \in Nat /\ Bound(tierListSize) >= 1
                       /\ Bound(tierListSize) >= tierListSize
                       /\ tiers = [i \in Tiers |-> tiers[i]]
                       /\ \A i \in Tiers : /\ Holds(tiers[i], Members(lookup, i))
                                           /\ Len(tiers[i]) \in Nat
                                           /\ Len(tiers[i]) <= Bound(tierListSize)
BY BoundIs DEF LInv, Consistent, Holds

\* freeSpaceInLastList, when every tier is full, frees the back of the last
\* list.
LEMMA EvictConsistent ==
    ASSUME LInv, LastIsFull, NEW victim, victim = Last(tiers[LastTier])
    PROVE  /\ Consistent([tiers EXCEPT ![LastTier] = Front(@)],
                         [lookup EXCEPT ![victim] = Absent], Bound(tierListSize))
           /\ Len(Front(tiers[LastTier])) < Bound(tierListSize)
           /\ victim \in Objects /\ lookup[victim] = LastTier
<1> DEFINE us == [tiers EXCEPT ![LastTier] = Front(@)]
           mk == [lookup EXCEPT ![victim] = Absent]
<1>1. LastTier \in Tiers /\ LastTier # Absent /\ tiers[LastTier] # <<>>
  BY TierFacts DEF LastIsFull
<1>2. /\ victim \in Members(lookup, LastTier)
      /\ Holds(Front(tiers[LastTier]), Members(lookup, LastTier) \ {victim})
      /\ Len(Front(tiers[LastTier])) = Len(tiers[LastTier]) - 1
  BY <1>1, TierAt, HoldsFront
<1>3. victim \in Objects /\ lookup[victim] = LastTier
  BY <1>2 DEF Members
<1>4. ASSUME NEW i \in Tiers
      PROVE  Holds(us[i], Members(mk, i)) /\ Len(us[i]) <= Bound(tierListSize)
  <2>1. CASE i = LastTier
    <3>1. us[i] = Front(tiers[i]) /\ Members(mk, i) = Members(lookup, i) \ {victim}
      BY <1>1, <1>3, <2>1, TierAt DEF Members
    <3> HIDE DEF us, mk
    <3>2. QED  BY <3>1, <2>1, <1>2, TierAt
  <2>2. CASE i # LastTier
    <3>1. us[i] = tiers[i] /\ Members(mk, i) = Members(lookup, i)
      BY <1>1, <1>3, <2>2, TierAt, TierFacts DEF Members
    <3>2. QED  BY <3>1, TierAt
  <2>3. QED  BY <2>1, <2>2
<1>5. us = [i \in Tiers |-> us[i]] /\ mk \in [Objects -> Tiers \cup {Absent}]
  BY TierAt
<1>6. Consistent(us, mk, Bound(tierListSize))
  BY <1>4, <1>5 DEF Consistent
<1>7. QED  BY <1>1, <1>2, <1>3, <1>6, TierAt

\* The lowest of the upper tiers with room.
LEMMA LastFree ==
    ASSUME FreeLists # {}
    PROVE  \E f \in FreeLists : f = Max(FreeLists) /\ \A i \in FreeLists : i <= f
<1>1. FreeLists \subseteq {0, 1, 2}
  BY TierFacts DEF FreeLists
<1>2. \E f \in FreeLists : \A i \in FreeLists : f >= i
  <2>1. CASE 2 \in FreeLists
    <3>1. \A i \in FreeLists : 2 >= i
      BY <1>1
    <3>2. QED  BY <2>1, <3>1
  <2>2. CASE 2 \notin FreeLists /\ 1 \in FreeLists
    <3>1. \A i \in FreeLists : 1 >= i
      BY <2>2, <1>1
    <3>2. QED  BY <2>2, <3>1
  <2>3. CASE 2 \notin FreeLists /\ 1 \notin FreeLists
    <3>1. \A i \in FreeLists : i = 0
      BY <2>3, <1>1
    <3>2. QED  BY <3>1
  <2>4. QED  BY <2>1, <2>2, <2>3
<1>3. Max(FreeLists) \in FreeLists /\ \A i \in FreeLists : Max(FreeLists) >= i
  BY <1>2 DEF Max
<1>4. \A i \in FreeLists : i <= Max(FreeLists)
  BY <1>1, <1>3
<1>5. QED  BY <1>3, <1>4

\* AddObject of an object that is not cached.
LEMMA InsertConsistent ==
    ASSUME LInv, NEW o \in Objects, lookup[o] = Absent, NEW saved, Insert(o, saved)
    PROVE  Consistent(tiers', lookup', Bound(tierListSize))
<1>1. LastTier \in Tiers /\ LastTier # Absent
  BY TierFacts
<1>2. CASE ~LastIsFull /\ PushNew(o, tiers, lookup)
  <2>1. Len(tiers[LastTier]) < Bound(tierListSize)
    <3>1. CASE Len(tiers[LastTier]) < tierListSize
      BY <3>1, <1>1, TierAt DEF LInv
    <3>2. CASE tiers[LastTier] = <<>>
      BY <3>2, TierAt
    <3>3. QED  BY <1>1, <1>2, <3>1, <3>2, TierAt DEF LastIsFull, LInv
  <2>2. QED  BY <1>2, <2>1, TierAt, PushNewConsistent DEF LInv, PushNew
<1>3. CASE /\ LastIsFull /\ FreeLists # {}
           /\ PushNew(o, Cascade(Max(FreeLists)), CascadeLookup(Max(FreeLists)))
  <2>1. PICK f \in FreeLists : f = Max(FreeLists) /\ \A i \in FreeLists : i <= f
    BY <1>3, LastFree
  <2> DEFINE us == Cascade(f)
             mk == CascadeLookup(f)
  <2>2. /\ Consistent(us, mk, Bound(tierListSize))
        /\ Len(us[LastTier]) < Bound(tierListSize)
        /\ mk[o] = Absent
    BY <1>3, <2>1, CascadeConsistent
  <2>3. tiers' = [us EXCEPT ![LastTier] = <<o>> \o @] /\ lookup' = [mk EXCEPT ![o] = LastTier]
    BY <1>3, <2>1 DEF PushNew
  <2> HIDE DEF us, mk
  <2>4. QED  BY <2>2, <2>3, TierAt, PushNewConsistent
<1>4. CASE LastIsFull /\ FreeLists = {}
  <2> DEFINE victim == Last(tiers[LastTier])
             us == [tiers EXCEPT ![LastTier] = Front(@)]
             mk == [lookup EXCEPT ![victim] = Absent]
  <2>1. /\ Consistent(us, mk, Bound(tierListSize))
        /\ Len(Front(tiers[LastTier])) < Bound(tierListSize)
        /\ victim \in Objects /\ lookup[victim] = LastTier
    BY <1>4, EvictConsistent
  <2>2. mk[o] = Absent /\ us[LastTier] = Front(tiers[LastTier])
    BY <2>1, <1>1, TierAt
  <2>3. tiers' = [us EXCEPT ![LastTier] = <<o>> \o @] /\ lookup' = [mk EXCEPT ![o] = LastTier]
    BY <1>4 DEF Insert, PushNew
  <2> HIDE DEF us, mk, victim
  <2>4. QED  BY <2>1, <2>2, <2>3, TierAt, PushNewConsistent
<1>5. QED  BY <1>2, <1>3, <1>4 DEF Insert

\* PromoteObject within tier 0.
LEMMA TopConsistent ==
    ASSUME LInv, NEW o \in Objects, PromoteInTop(o)
    PROVE  Consistent(tiers', lookup', Bound(tierListSize))
<1> DEFINE s == Without(tiers[0], {o})
           E == Members(lookup, 0)
<1>1. 0 \in Tiers /\ o \in E /\ lookup' = lookup /\ tiers' = [tiers EXCEPT ![0] = <<o>> \o s]
  BY TierFacts DEF PromoteInTop, Members
<1>2. Holds(s, E \ {o}) /\ Len(s) < Len(tiers[0])
  BY <1>1, TierAt, HoldsWithout
<1>3. Holds(<<o>> \o s, (E \ {o}) \cup {o}) /\ Len(<<o>> \o s) = Len(s) + 1
  BY <1>2, HoldsPushFront
<1>4. (E \ {o}) \cup {o} = E /\ Len(s) \in Nat
  BY <1>1, <1>2 DEF Holds
<1>5. Holds(tiers'[0], E) /\ Len(tiers'[0]) <= Bound(tierListSize)
  <2>1. tiers'[0] = <<o>> \o s
    BY <1>1, TierAt
  <2>2. Len(tiers[0]) \in Nat /\ Len(tiers[0]) <= Bound(tierListSize)
    BY <1>1, TierAt
  <2> HIDE DEF s, E
  <2>3. Len(<<o>> \o s) <= Bound(tierListSize)
    BY <1>2, <1>3, <1>4, <2>2, TierAt
  <2>4. QED  BY <1>3, <1>4, <2>1, <2>3
<1>6. ASSUME NEW i \in Tiers, i # 0 PROVE tiers'[i] = tiers[i]
  BY <1>1, <1>6, TierAt
<1>7. tiers' = [i \in Tiers |-> tiers'[i]]
  BY <1>1, TierAt
<1>8. ASSUME NEW i \in Tiers
      PROVE  Holds(tiers'[i], Members(lookup', i)) /\ Len(tiers'[i]) <= Bound(tierListSize)
  BY <1>1, <1>5, <1>6, TierAt
<1>9. QED  BY <1>1, <1>7, <1>8, TierAt DEF Consistent

\* A promotion changes two neighbouring tiers: they agree with the map if
\* the new lists hold what the new map says.
LEMMA UpConsistent ==
    ASSUME LInv, NEW o \in Objects, NEW i, i = lookup[o], i > 0,
           NEW low, NEW up, NEW mk,
           mk \in [Objects -> Tiers \cup {Absent}],
           tiers' = [tiers EXCEPT ![i] = low, ![i - 1] = up], lookup' = mk,
           Holds(low, Members(mk, i)), Holds(up, Members(mk, i - 1)),
           Len(low) <= Bound(tierListSize), Len(up) <= Bound(tierListSize),
           \A j \in Tiers : j # i /\ j # i - 1 => Members(mk, j) = Members(lookup, j)
    PROVE  i \in Tiers /\ i - 1 \in Tiers
           /\ Consistent(tiers', lookup', Bound(tierListSize))
<1>1. i \in Tiers /\ i - 1 \in Tiers /\ i # i - 1
  BY TierAt, TierFacts
<1>2. tiers'[i] = low /\ tiers'[i - 1] = up
  BY <1>1, TierAt
<1>3. \A j \in Tiers : j # i /\ j # i - 1 => tiers'[j] = tiers[j]
  BY <1>1, TierAt
<1>4. tiers' = [j \in Tiers |-> tiers'[j]]
  BY <1>1, TierAt
<1>5. ASSUME NEW j \in Tiers
      PROVE  Holds(tiers'[j], Members(lookup', j)) /\ Len(tiers'[j]) <= Bound(tierListSize)
  <2>1. CASE j = i
    BY <1>2, <2>1
  <2>2. CASE j = i - 1
    BY <1>2, <2>2
  <2>3. CASE j # i /\ j # i - 1
    BY <1>3, <2>3, TierAt
  <2>4. QED  BY <2>1, <2>2, <2>3
<1>6. QED  BY <1>1, <1>4, <1>5 DEF Consistent

\* PromoteObject into an upper tier with room.
LEMMA RoomConsistent ==
    ASSUME LInv, NEW o \in Objects, PromoteIntoRoom(o)
    PROVE  Consistent(tiers', lookup', Bound(tierListSize))
<1> DEFINE i  == lookup[o]
           mk == [lookup EXCEPT ![o] = i - 1]
           low == Without(tiers[i], {o})
           up == <<o>> \o tiers[i - 1]
<1>1. i \in Tiers /\ i - 1 \in Tiers /\ i # i - 1 /\ i > 0 /\ o \in Members(lookup, i)
  BY TierAt, TierFacts DEF PromoteIntoRoom, Members
<1>2. tiers' = [tiers EXCEPT ![i] = low, ![i - 1] = up] /\ lookup' = mk
  BY <1>1, TierAt DEF PromoteIntoRoom
<1>3. /\ mk \in [Objects -> Tiers \cup {Absent}]
      /\ Members(mk, i) = Members(lookup, i) \ {o}
      /\ Members(mk, i - 1) = Members(lookup, i - 1) \cup {o}
      /\ \A j \in Tiers : j # i /\ j # i - 1 => Members(mk, j) = Members(lookup, j)
      /\ o \notin Members(lookup, i - 1)
  BY <1>1, TierAt DEF Members
<1>4. Holds(low, Members(lookup, i) \ {o}) /\ Len(low) <= Len(tiers[i])
  BY <1>1, TierAt, HoldsWithout
<1>5. Holds(up, Members(lookup, i - 1) \cup {o}) /\ Len(up) = Len(tiers[i - 1]) + 1
  BY <1>1, <1>3, TierAt, HoldsPushFront
<1>6. Len(tiers[i - 1]) < tierListSize \/ Len(tiers[i - 1]) = 0
  BY <1>1, TierAt DEF PromoteIntoRoom, HasRoom
<1>7. Len(low) \in Nat /\ i = lookup[o]
  BY <1>4 DEF Holds
<1> HIDE DEF i, mk, low, up
<1>8. Len(low) <= Bound(tierListSize) /\ Len(up) <= Bound(tierListSize)
  BY <1>1, <1>4, <1>5, <1>6, <1>7, TierAt DEF LInv
<1>9. Holds(low, Members(mk, i)) /\ Holds(up, Members(mk, i - 1))
  BY <1>3, <1>4, <1>5
<1>10. QED  BY ZenonT(40), <1>1, <1>2, <1>3, <1>7, <1>8, <1>9, UpConsistent

\* PromoteObject that swaps with the last element of the upper tier.
LEMMA SwapConsistent ==
    ASSUME LInv, NEW o \in Objects, PromoteBySwap(o)
    PROVE  Consistent(tiers', lookup', Bound(tierListSize))
<1> DEFINE i  == lookup[o]
           l  == Last(tiers[i - 1])
           mk == SwappedLookup(o, l)
           rest == Without(tiers[i], {o})
           low == <<l>> \o rest
           up == <<o>> \o Front(tiers[i - 1])
<1>1. i \in Tiers /\ i - 1 \in Tiers /\ i # i - 1 /\ i > 0 /\ o \in Members(lookup, i)
  BY TierAt, TierFacts DEF PromoteBySwap, Members
<1>2. tiers' = [tiers EXCEPT ![i] = low, ![i - 1] = up] /\ lookup' = mk
      /\ tiers[i - 1] # <<>>
  BY <1>1, TierAt DEF PromoteBySwap
<1>3. /\ l \in Members(lookup, i - 1) /\ l \in Objects
      /\ Holds(Front(tiers[i - 1]), Members(lookup, i - 1) \ {l})
      /\ Len(Front(tiers[i - 1])) = Len(tiers[i - 1]) - 1
  BY <1>1, <1>2, TierAt, HoldsFront
<1>4. l # o /\ lookup[l] = i - 1
  BY <1>1, <1>3 DEF Members
<1>5. Holds(rest, Members(lookup, i) \ {o}) /\ Len(rest) < Len(tiers[i])
  BY <1>1, TierAt, HoldsWithout
<1>6. /\ mk \in [Objects -> Tiers \cup {Absent}]
      /\ mk[o] = i - 1 /\ mk[l] = i
      /\ \A x \in Objects : x # o /\ x # l => mk[x] = lookup[x]
  BY <1>1, <1>3, <1>4, TierAt DEF SwappedLookup
<1> HIDE DEF mk
<1>7. /\ Members(mk, i) = (Members(lookup, i) \ {o}) \cup {l}
      /\ Members(mk, i - 1) = (Members(lookup, i - 1) \ {l}) \cup {o}
      /\ \A j \in Tiers : j # i /\ j # i - 1 => Members(mk, j) = Members(lookup, j)
  BY <1>1, <1>3, <1>4, <1>6 DEF Members
<1>8. l \notin Members(lookup, i) \ {o} /\ o \notin Members(lookup, i - 1) \ {l}
  BY <1>1, <1>4 DEF Members
<1>9. Holds(low, (Members(lookup, i) \ {o}) \cup {l}) /\ Len(low) = Len(rest) + 1
  BY <1>3, <1>5, <1>8, HoldsPushFront
<1>10. /\ Holds(up, (Members(lookup, i - 1) \ {l}) \cup {o})
       /\ Len(up) = Len(Front(tiers[i - 1])) + 1
  BY <1>3, <1>8, HoldsPushFront
<1>11. Len(rest) \in Nat /\ i = lookup[o]
  BY <1>5 DEF Holds
<1> HIDE DEF i, l, rest, low, up
<1>12. Len(low) <= Bound(tierListSize) /\ Len(up) <= Bound(tierListSize)
  BY <1>1, <1>3, <1>5, <1>9, <1>10, <1>11, TierAt
<1>13. Holds(low, Members(mk, i)) /\ Holds(up, Members(mk, i - 1))
  BY <1>7, <1>9, <1>10
<1>14. QED  BY <1>1, <1>2, <1>6, <1>7, <1>11, <1>12, <1>13, UpConsistent

\* Remove.
LEMMA RemoveConsistent ==
    ASSUME LInv, NEW S \in SUBSET Objects, RemoveObjects(S)
    PROVE  Consistent(tiers', lookup', Bound(tierListSize))
<1>1. /\ tiers' = [i \in Tiers |-> Without(tiers[i], S)]
      /\ lookup' = [o \in Objects |-> IF o \in S THEN Absent ELSE lookup[o]]
  BY DEF RemoveObjects
<1>2. lookup' \in [Objects -> Tiers \cup {Absent}]
  BY <1>1, TierAt
<1>3. ASSUME NEW i \in Tiers
      PROVE  Holds(tiers'[i], Members(lookup', i)) /\ Len(tiers'[i]) <= Bound(tierListSize)
  <2>1. tiers'[i] = Without(tiers[i], S)
    BY <1>1
  <2>2. Holds(tiers'[i], Members(lookup, i) \ S) /\ Len(tiers'[i]) <= Len(tiers[i])
    BY <2>1, TierAt, HoldsWithout
  <2>3. Members(lookup', i) = Members(lookup, i) \ S
    BY <1>1, TierFacts DEF Members
  <2>4. Len(tiers'[i]) \in Nat
    BY <2>2 DEF Holds
  <2>5. QED  BY <2>2, <2>3, <2>4, TierAt
<1>4. tiers' = [i \in Tiers |-> tiers'[i]]
  BY <1>1
<1>5. QED  BY <1>2, <1>3, <1>4 DEF Consistent

\* A list that holds a set has it as its set of elements.
LEMMA HoldsToSet == ASSUME NEW s, NEW E, Holds(s, E) PROVE ToSet(s) = E
<1>1. DOMAIN s = 1 .. Len(s)
  BY DEF Holds
<1>2. QED  BY <1>1 DEF Holds, ToSet

\* A reversed list has the same elements.
LEMMA HoldsReverse ==
    ASSUME NEW s, NEW E, Holds(s, E)
    PROVE  ToSet(Reverse(s)) = E /\ Reverse(s) \in Seq(Objects)
<1> DEFINE t == Reverse(s)
<1>1. s \in Seq(Objects) /\ Len(s) \in Nat
  BY DEF Holds
<1>2. \A i \in 1 .. Len(s) : (Len(s) - i) + 1 \in 1 .. Len(s)
                          /\ (Len(s) - ((Len(s) - i) + 1)) + 1 = i
  BY <1>1
<1>3. t = [i \in 1 .. Len(s) |-> s[(Len(s) - i) + 1]]
  BY DEF Reverse
<1>4. t \in Seq(Objects)
  <2>1. \A i \in 1 .. Len(s) : s[(Len(s) - i) + 1] \in Objects
    BY <1>1, <1>2
  <2>2. QED  BY <1>1, <1>3, <2>1
<1>5. \A o : o \in ToSet(t) <=> \E i \in 1 .. Len(s) : t[i] = o
  BY <1>3 DEF ToSet
<1>6. \A o : (\E i \in 1 .. Len(s) : t[i] = o) <=> (\E i \in 1 .. Len(s) : s[i] = o)
  <2>1. TAKE o
  <2>2. ASSUME NEW i \in 1 .. Len(s), t[i] = o PROVE \E j \in 1 .. Len(s) : s[j] = o
    BY <1>2, <1>3, <2>2
  <2>3. ASSUME NEW i \in 1 .. Len(s), s[i] = o PROVE \E j \in 1 .. Len(s) : t[j] = o
    BY <1>2, <1>3, <2>3
  <2>4. QED  BY <2>2, <2>3
<1> HIDE DEF t
<1>7. ToSet(t) = E
  BY <1>5, <1>6 DEF Holds
<1>8. QED  BY <1>4, <1>7 DEF t

\* The concatenation of two lists with no element in common.
LEMMA HoldsConcat ==
    ASSUME NEW s, NEW E, Holds(s, E), NEW t, NEW F, Holds(t, F), E \cap F = {}
    PROVE  Holds(s \o t, E \cup F) /\ Len(s \o t) = Len(s) + Len(t)
<1> DEFINE u == s \o t
<1>1. /\ s \in Seq(Objects) /\ t \in Seq(Objects) /\ Len(s) \in Nat /\ Len(t) \in Nat
      /\ u \in Seq(Objects) /\ Len(u) = Len(s) + Len(t)
      /\ \A i \in 1 .. Len(s) : u[i] = s[i]
      /\ \A i \in 1 .. Len(t) : u[Len(s) + i] = t[i]
  BY DEF Holds
<1> HIDE DEF u
<1>2. \A i \in 1 .. Len(u) :
        \/ i \in 1 .. Len(s) /\ u[i] = s[i]
        \/ i - Len(s) \in 1 .. Len(t) /\ u[i] = t[i - Len(s)]
  <2>1. TAKE i \in 1 .. Len(u)
  <2>2. i \in 1 .. Len(s) \/ (i - Len(s) \in 1 .. Len(t) /\ Len(s) + (i - Len(s)) = i)
    BY <1>1
  <2>3. QED  BY <2>2, <1>1
<1>3. \A i, j \in 1 .. Len(u) : u[i] = u[j] => i = j
  <2>1. SUFFICES ASSUME NEW i \in 1 .. Len(u), NEW j \in 1 .. Len(u), u[i] = u[j]
                 PROVE  i = j
    OBVIOUS
  <2>2. CASE i \in 1 .. Len(s) /\ u[i] = s[i]
    <3>1. u[i] \in E
      BY <2>2 DEF Holds
    <3>2. j \in 1 .. Len(s) /\ u[j] = s[j]
      BY <1>2, <2>1, <3>1 DEF Holds
    <3>3. QED  BY <2>1, <2>2, <3>2 DEF Holds
  <2>3. CASE i - Len(s) \in 1 .. Len(t) /\ u[i] = t[i - Len(s)]
    <3>1. u[i] \in F
      BY <2>3 DEF Holds
    <3>2. j - Len(s) \in 1 .. Len(t) /\ u[j] = t[j - Len(s)]
      BY <1>2, <2>1, <3>1 DEF Holds
    <3>3. i - Len(s) = j - Len(s)
      BY <2>1, <2>3, <3>2 DEF Holds
    <3>4. QED  BY <3>3, <1>1
  <2>4. QED  BY <1>2, <2>2, <2>3
<1>4. \A i \in 1 .. Len(s) : i \in 1 .. Len(u)
  BY <1>1
<1>5. \A i \in 1 .. Len(t) : Len(s) + i \in 1 .. Len(u)
  BY <1>1
<1>6. \A x : x \in E \cup F <=> \E i \in 1 .. Len(u) : u[i] = x
  <2>1. ASSUME NEW x \in E PROVE \E i \in 1 .. Len(u) : u[i] = x
    BY <1>1, <1>4 DEF Holds
  <2>2. ASSUME NEW x \in F PROVE \E i \in 1 .. Len(u) : u[i] = x
    <3>1. PICK i \in 1 .. Len(t) : t[i] = x
      BY DEF Holds
    <3>2. QED  BY <1>1, <1>5, <3>1
  <2>3. \A i \in 1 .. Len(u) : u[i] \in E \cup F
    BY <1>2 DEF Holds
  <2>4. QED  BY <2>1, <2>2, <2>3
<1>7. QED  BY <1>1, <1>3, <1>6 DEF Holds, u

\* The concatenation of the tiers holds the cached objects, once each.
LEMMA RankingHolds ==
    ASSUME LInv
    PROVE  /\ Holds(Ranking, Cached)
           /\ Len(Ranking) = Len(tiers[0]) + Len(tiers[1]) + Len(tiers[2]) + Len(tiers[3])
<1> DEFINE M(i) == Members(lookup, i)
           r1 == tiers[0] \o tiers[1]
           r2 == r1 \o tiers[2]
           r3 == r2 \o tiers[3]
<1>1. /\ Holds(tiers[0], M(0)) /\ Holds(tiers[1], M(1))
      /\ Holds(tiers[2], M(2)) /\ Holds(tiers[3], M(3))
  BY TierAt, TierFacts
<1>2. /\ M(0) \cap M(1) = {} /\ (M(0) \cup M(1)) \cap M(2) = {}
      /\ (M(0) \cup M(1) \cup M(2)) \cap M(3) = {}
  BY DEF Members
<1>3. Cached = M(0) \cup M(1) \cup M(2) \cup M(3)
  BY TierAt, TierFacts DEF Cached, Members
<1> HIDE DEF M
<1>4. Holds(r1, M(0) \cup M(1)) /\ Len(r1) = Len(tiers[0]) + Len(tiers[1])
  BY <1>1, <1>2, HoldsConcat
<1> HIDE DEF r1
<1>5. Holds(r2, M(0) \cup M(1) \cup M(2)) /\ Len(r2) = Len(r1) + Len(tiers[2])
  BY <1>1, <1>2, <1>4, HoldsConcat
<1> HIDE DEF r2
<1>6. Holds(r3, M(0) \cup M(1) \cup M(2) \cup M(3)) /\ Len(r3) = Len(r2) + Len(tiers[3])
  BY <1>1, <1>2, <1>5, HoldsConcat
<1>7. Ranking = r3
  <2>1. Ranking = ((tiers[0] \o tiers[1]) \o tiers[2]) \o tiers[3]
    BY DEF Ranking
  <2>2. QED  BY <2>1 DEF r1, r2
<1>8. QED  BY <1>3, <1>4, <1>5, <1>6, <1>7

\* tierListSize is a natural number.
LEMMA TierSizeNat == ASSUME NEW n \in Nat PROVE TierSize(n) \in Nat
BY DEF TierSize, cacheTiers

\* Where the pieces of a resize end.
LEMMA ResizeEnds ==
    ASSUME LInv, NEW n \in Nat
    PROVE  LET e == ResizeEnd(n) IN
           /\ e[1] \in Nat /\ e[2] \in Nat /\ e[3] \in Nat /\ e[4] \in Nat
           /\ e[1] <= e[2] /\ e[2] <= e[3] /\ e[3] <= e[4] /\ e[4] <= Len(Ranking)
           /\ e[1] <= TierSize(n) /\ e[2] - e[1] <= TierSize(n)
           /\ e[3] - e[2] <= TierSize(n) /\ e[4] - e[3] <= TierSize(n)
<1> DEFINE l0 == Len(tiers[0])
           l1 == l0 + Len(tiers[1])
           l2 == l1 + Len(tiers[2])
           l3 == Len(Ranking)
           r  == TierSize(n)
           least(a, b) == IF a < b THEN a ELSE b
           k  == least(l3, n)
           e1 == least(least(l0, k), r)
           e2 == least(least(l1, k), e1 + r)
           e3 == least(least(l2, k), e2 + r)
           e4 == least(k, e3 + r)
<1>1. ResizeEnd(n) = <<e1, e2, e3, e4>>
  BY DEF ResizeEnd
<1>2. /\ l0 \in Nat /\ l1 \in Nat /\ l2 \in Nat /\ l3 \in Nat /\ r \in Nat
      /\ l0 <= l1 /\ l1 <= l2 /\ l2 <= l3
  <2>1. /\ Len(tiers[0]) \in Nat /\ Len(tiers[1]) \in Nat
        /\ Len(tiers[2]) \in Nat /\ Len(tiers[3]) \in Nat
    BY TierAt, TierFacts
  <2>2. Len(Ranking) = Len(tiers[0]) + Len(tiers[1]) + Len(tiers[2]) + Len(tiers[3])
    BY RankingHolds
  <2>3. r \in Nat
    BY TierSizeNat
  <2>4. PICK n0 \in Nat, n1 \in Nat, n2 \in Nat, n3 \in Nat :
           /\ Len(tiers[0]) = n0 /\ Len(tiers[1]) = n1
           /\ Len(tiers[2]) = n2 /\ Len(tiers[3]) = n3
    BY <2>1
  <2>5. l0 = n0 /\ l1 = n0 + n1 /\ l2 = n0 + n1 + n2 /\ l3 = n0 + n1 + n2 + n3
    BY <2>2, <2>4
  <2> HIDE DEF l0, l1, l2, l3
  <2>6. QED  BY <2>3, <2>5
<1> HIDE DEF l0, l1, l2, l3, r
<1>3. k \in Nat /\ k <= l3
  BY <1>2
<1> HIDE DEF k
<1>4. e1 \in Nat /\ e1 <= l0 /\ e1 <= k /\ e1 <= r
  BY <1>2, <1>3
<1> HIDE DEF e1
<1>5. e2 \in Nat /\ e2 <= l1 /\ e2 <= k /\ e1 <= e2 /\ e2 - e1 <= r
  BY <1>2, <1>3, <1>4
<1> HIDE DEF e2
<1>6. e3 \in Nat /\ e3 <= l2 /\ e3 <= k /\ e2 <= e3 /\ e3 - e2 <= r
  BY <1>2, <1>3, <1>5
<1> HIDE DEF e3
<1>7. e4 \in Nat /\ e4 <= k /\ e3 <= e4 /\ e4 - e3 <= r
  BY <1>2, <1>3, <1>6
<1> HIDE DEF e4
<1>8. e4 <= l3
  BY <1>2, <1>3, <1>7
<1>9. QED  BY <1>1, <1>4, <1>5, <1>6, <1>7, <1>8 DEF r, l3

\* resize cuts the ranking into pieces that the new lists and the new map
\* agree on, none longer than the new tierListSize.
LEMMA ResizeConsistent ==
    ASSUME LInv, NEW n \in Nat, NEW count, ChangeConfig(n, count)
    PROVE  /\ tierListSize' = TierSize(n)
           /\ Consistent(tiers', lookup', Bound(TierSize(n)))
           /\ Dropped(n) \in Seq(Objects)
<1> DEFINE e     == ResizeEnd(n)
           lo(i) == IF i = 0 THEN 0 ELSE e[i]
           hi(i) == e[i + 1]
           R     == Len(Ranking)
           P(i)  == Piece(Ranking, lo(i), hi(i))
           D     == Piece(Ranking, e[4], R)
<1>1. Holds(Ranking, Cached) /\ Len(Ranking) \in Nat
  <2>1. Holds(Ranking, Cached)
    BY RankingHolds
  <2>2. Ranking \in Seq(Objects)
    BY <2>1 DEF Holds
  <2>3. QED  BY <2>1, <2>2
<1>2. /\ e[1] \in Nat /\ e[2] \in Nat /\ e[3] \in Nat /\ e[4] \in Nat
      /\ e[1] <= e[2] /\ e[2] <= e[3] /\ e[3] <= e[4] /\ e[4] <= Len(Ranking)
      /\ e[1] <= TierSize(n) /\ e[2] - e[1] <= TierSize(n)
      /\ e[3] - e[2] <= TierSize(n) /\ e[4] - e[3] <= TierSize(n)
  BY ResizeEnds
<1> HIDE DEF e
<1>3. /\ lo(0) = 0 /\ lo(1) = e[1] /\ lo(2) = e[2] /\ lo(3) = e[3]
      /\ hi(0) = e[1] /\ hi(1) = e[2] /\ hi(2) = e[3] /\ hi(3) = e[4]
  OBVIOUS
<1>4. /\ \A i \in Tiers : /\ lo(i) \in Nat /\ hi(i) \in Nat /\ lo(i) <= hi(i)
                          /\ hi(i) <= Len(Ranking) /\ hi(i) - lo(i) <= TierSize(n)
                          /\ hi(i) <= e[4]
      /\ \A i, j \in Tiers : i < j => hi(i) <= lo(j)
  <2> HIDE DEF lo, hi
  <2>1. TierSize(n) \in Nat
    BY TierSizeNat
  <2>2. ASSUME NEW i \in Tiers
        PROVE  /\ lo(i) \in Nat /\ hi(i) \in Nat /\ lo(i) <= hi(i)
               /\ hi(i) <= Len(Ranking) /\ hi(i) - lo(i) <= TierSize(n)
               /\ hi(i) <= e[4]
    <3>1. CASE i = 0
      <4>1. lo(i) = 0 /\ hi(i) = e[1]
        BY <1>3, <3>1
      <4>2. QED  BY SMTT(30), <1>1, <1>2, <2>1, <4>1
    <3>2. CASE i = 1
      <4>1. lo(i) = e[1] /\ hi(i) = e[2]
        BY <1>3, <3>2
      <4>2. QED  BY SMTT(30), <1>1, <1>2, <2>1, <4>1
    <3>3. CASE i = 2
      <4>1. lo(i) = e[2] /\ hi(i) = e[3]
        BY <1>3, <3>3
      <4>2. QED  BY SMTT(30), <1>1, <1>2, <2>1, <4>1
    <3>4. CASE i = 3
      <4>1. lo(i) = e[3] /\ hi(i) = e[4]
        BY <1>3, <3>4
      <4>2. QED  BY SMTT(30), <1>1, <1>2, <2>1, <4>1
    <3>5. QED  BY <3>1, <3>2, <3>3, <3>4, TierFacts
  <2>3. ASSUME NEW i \in Tiers, NEW j \in Tiers, i < j
        PROVE  hi(i) <= lo(j)
    <3>1. CASE i = 0
      BY <1>2, <1>3, <2>3, <3>1, TierFacts
    <3>2. CASE i = 1
      BY <1>2, <1>3, <2>3, <3>2, TierFacts
    <3>3. CASE i = 2
      BY <1>2, <1>3, <2>3, <3>3, TierFacts
    <3>4. QED  BY <2>3, <3>1, <3>2, <3>3, TierFacts
  <2>4. QED  BY <2>2, <2>3
<1>5. \A i \in Tiers : ResizedTiers(n)[i] = SubSeq(Ranking, lo(i) + 1, hi(i))
  BY DEF ResizedTiers, e
<1>6. Dropped(n) = Reverse(SubSeq(Ranking, e[4] + 1, Len(Ranking)))
  BY DEF Dropped, cacheTiers, e
<1> HIDE DEF lo, hi
<1>7. \A i \in Tiers : /\ Holds(ResizedTiers(n)[i], P(i))
                       /\ Len(ResizedTiers(n)[i]) <= TierSize(n)
  <2>1. TAKE i \in Tiers
  <2>2. /\ Holds(SubSeq(Ranking, lo(i) + 1, hi(i)), Piece(Ranking, lo(i), hi(i)))
        /\ Len(SubSeq(Ranking, lo(i) + 1, hi(i))) = hi(i) - lo(i)
    BY <1>1, <1>4, HoldsPiece
  <2>3. QED  BY <1>4, <1>5, <2>2
<1>8. ToSet(Dropped(n)) = D /\ Dropped(n) \in Seq(Objects)
  <2>1. Holds(SubSeq(Ranking, e[4] + 1, Len(Ranking)), D)
    BY <1>1, <1>2, HoldsPiece
  <2>2. QED  BY <1>6, <2>1, HoldsReverse
<1>9. CASE tierListSize <= TierSize(n) /\ UNCHANGED <<tiers, lookup>>
  <2>1. Bound(tierListSize) <= Bound(TierSize(n)) /\ tierListSize' = TierSize(n)
    BY <1>9, TierSizeNat DEF Bound, Max, LInv, ChangeConfig
  <2>2. Bound(tierListSize) \in Nat /\ Bound(TierSize(n)) \in Nat
    BY BoundIs, TierSizeNat DEF LInv
  <2>3. \A i \in Tiers : Len(tiers[i]) <= Bound(TierSize(n))
    BY <2>1, <2>2, TierAt
  <2>4. QED  BY <1>8, <1>9, <2>1, <2>3, TierAt DEF Consistent
<1>10. CASE /\ tiers' = ResizedTiers(n)
            /\ lookup' = [o \in Objects |->
                IF o \in ToSet(Dropped(n)) THEN Absent
                ELSE IF \E i \in Tiers : o \in ToSet(ResizedTiers(n)[i])
                THEN CHOOSE i \in Tiers : o \in ToSet(ResizedTiers(n)[i])
                ELSE lookup[o]]
  <2>1. \A i \in Tiers : ToSet(ResizedTiers(n)[i]) = P(i)
    BY <1>7, HoldsToSet
  <2>2. \A k, m \in 1 .. R : Ranking[k] = Ranking[m] => k = m
    BY <1>1 DEF Holds
  <2>3. \A i, j \in Tiers : i # j => P(i) \cap P(j) = {}
    <3>1. SUFFICES ASSUME NEW i \in Tiers, NEW j \in Tiers, i < j
                   PROVE  P(i) \cap P(j) = {}
      BY TierFacts
    <3>2. ASSUME NEW k \in lo(i) + 1 .. hi(i), NEW m \in lo(j) + 1 .. hi(j)
          PROVE  Ranking[k] # Ranking[m]
      <4>1. k \in 1 .. R /\ m \in 1 .. R /\ k # m
        BY <1>1, <1>4, <3>1
      <4>2. QED  BY <4>1, <2>2
    <3>3. QED  BY <3>2 DEF Piece
  <2>4. \A i \in Tiers : P(i) \cap D = {}
    <3>1. TAKE i \in Tiers
    <3>2. ASSUME NEW k \in lo(i) + 1 .. hi(i), NEW m \in e[4] + 1 .. R
          PROVE  Ranking[k] # Ranking[m]
      <4>1. k \in 1 .. R /\ m \in 1 .. R /\ k # m
        BY SMTT(30), <1>1, <1>2, <1>4
      <4>2. QED  BY <4>1, <2>2
    <3>3. QED  BY <3>2 DEF Piece
  <2>5. \A o \in Objects : lookup[o] # Absent => o \in D \/ \E i \in Tiers : o \in P(i)
    <3>1. SUFFICES ASSUME NEW o \in Objects, lookup[o] # Absent
                   PROVE  o \in D \/ \E i \in Tiers : o \in P(i)
      OBVIOUS
    <3>2. PICK k \in 1 .. R : Ranking[k] = o
      BY <1>1, <3>1 DEF Holds, Cached
    <3>3. k \in e[4] + 1 .. R \/ \E i \in Tiers : k \in lo(i) + 1 .. hi(i)
      <4>1. PICK n1 \in Nat, n2 \in Nat, n3 \in Nat, n4 \in Nat :
               e[1] = n1 /\ e[2] = n2 /\ e[3] = n3 /\ e[4] = n4
        BY <1>2
      <4>2. k \in Nat /\ 1 <= k /\ k <= R /\ R \in Nat
        BY <1>1
      <4> HIDE DEF R
      <4>3. CASE k <= n1
        <5>1. k \in lo(0) + 1 .. hi(0)
          BY <1>3, <4>1, <4>2, <4>3
        <5>2. QED  BY <5>1, TierFacts
      <4>4. CASE n1 < k /\ k <= n2
        <5>1. k \in lo(1) + 1 .. hi(1)
          BY <1>3, <4>1, <4>2, <4>4
        <5>2. QED  BY <5>1, TierFacts
      <4>5. CASE n2 < k /\ k <= n3
        <5>1. k \in lo(2) + 1 .. hi(2)
          BY <1>3, <4>1, <4>2, <4>5
        <5>2. QED  BY <5>1, TierFacts
      <4>6. CASE n3 < k /\ k <= n4
        <5>1. k \in lo(3) + 1 .. hi(3)
          BY <1>3, <4>1, <4>2, <4>6
        <5>2. QED  BY <5>1, TierFacts
      <4>7. CASE n4 < k
        <5>1. k \in e[4] + 1 .. R
          BY <4>1, <4>2, <4>7
        <5>2. QED  BY <5>1
      <4>8. QED  BY <4>1, <4>2, <4>3, <4>4, <4>5, <4>6, <4>7
    <3>4. QED  BY <3>2, <3>3 DEF Piece
  <2> HIDE DEF P, D
  <2>6. \A o \in Objects, i \in Tiers : o \in P(i) => lookup'[o] = i
    <3>1. SUFFICES ASSUME NEW o \in Objects, NEW i \in Tiers, o \in P(i)
                   PROVE  lookup'[o] = i
      OBVIOUS
    <3>2. o \notin D /\ \A j \in Tiers : o \in P(j) <=> j = i
      BY <3>1, <2>3, <2>4
    <3>3. lookup'[o] = CHOOSE j \in Tiers : o \in ToSet(ResizedTiers(n)[j])
      BY <1>8, <1>10, <2>1, <3>1, <3>2
    <3>4. \A j \in Tiers : o \in ToSet(ResizedTiers(n)[j]) <=> j = i
      BY <2>1, <3>2
    <3>5. QED  BY <3>3, <3>4
  <2>7. \A o \in Objects : (\A i \in Tiers : o \notin P(i)) => lookup'[o] = Absent
    BY <1>8, <1>10, <2>1, <2>5
  <2>8. lookup' \in [Objects -> Tiers \cup {Absent}]
    <3>1. lookup' = [o \in Objects |-> lookup'[o]]
      BY <1>10
    <3>2. \A o \in Objects : lookup'[o] \in Tiers \cup {Absent}
      BY <2>6, <2>7
    <3>3. QED  BY <3>1, <3>2
  <2>9. \A i \in Tiers : Members(lookup', i) = P(i)
    <3>1. TAKE i \in Tiers
    <3>2. \A o : o \in P(i) => o \in Objects
      BY <1>7 DEF Holds
    <3>3. \A o \in Objects : lookup'[o] = i => o \in P(i)
      BY <2>6, <2>7, TierFacts
    <3>4. QED  BY <2>6, <3>2, <3>3 DEF Members
  <2>10. TierSize(n) <= Bound(TierSize(n)) /\ Bound(TierSize(n)) \in Nat
    BY BoundIs, TierSizeNat
  <2>11. \A i \in Tiers : Len(ResizedTiers(n)[i]) \in Nat
    BY <1>7 DEF Holds
  <2>12. \A i \in Tiers : Len(ResizedTiers(n)[i]) <= Bound(TierSize(n))
    BY SMTT(30), <1>7, <2>10, <2>11, TierSizeNat
  <2>13. tiers' = [i \in Tiers |-> tiers'[i]]
    BY <1>10 DEF ResizedTiers
  <2>14. Consistent(tiers', lookup', Bound(TierSize(n)))
    BY <1>7, <1>10, <2>8, <2>9, <2>12, <2>13 DEF Consistent
  <2>15. QED  BY <1>8, <2>14 DEF ChangeConfig
<1>11. QED  BY <1>9, <1>10 DEF ChangeConfig

-----------------------------------------------------------------------------
(* The inductive invariant *)

\* The inductive invariant. IndexMatchesTiers and TiersBounded follow from
\* it; the latter is not inductive alone, since a promotion that trusted a
\* wrong Element would remove nothing from the lower list and lengthen it.
IInv == TypeOK /\ Consistent(tiers, lookup, Bound(tierListSize))

\* A throttledRemove goroutine.
JobType == [indexes : Seq(Objects), i : Nat, asleep : BOOLEAN]

\* The inductive invariant has what the lemmas on the operations need.
LEMMA IInvIs ==
    ASSUME IInv
    PROVE  /\ LInv
           /\ storageObjects \in Sizes /\ storageObjects \in Nat
           /\ bulkRemoveCount \in BulkCounts /\ bulkRemoveCount \in Nat
           /\ tierListSize = TierSize(storageObjects)
           /\ files \subseteq Objects /\ missed \subseteq Promoters \X Objects
           /\ jobs \in [Removers -> JobType]
<1>1. /\ storageObjects \in Sizes /\ storageObjects \in Nat
      /\ bulkRemoveCount \in BulkCounts /\ bulkRemoveCount \in Nat
      /\ tierListSize = TierSize(storageObjects)
  BY LRUAssumption DEF IInv, TypeOK, TierSize
<1>2. LInv
  BY <1>1, TierSizeNat DEF IInv, LInv
<1>3. QED  BY <1>1, <1>2 DEF IInv, TypeOK, JobType

\* What a step has to establish for the inductive invariant to hold after it.
LEMMA IInvAfter ==
    ASSUME Consistent(tiers', lookup', Bound(tierListSize')),
           storageObjects' \in Sizes, bulkRemoveCount' \in BulkCounts,
           tierListSize' = TierSize(storageObjects'),
           files' \subseteq Objects, missed' \subseteq Promoters \X Objects,
           jobs' \in [Removers -> JobType]
    PROVE  IInv'
<1>1. tiers' \in [Tiers -> Seq(Objects)] /\ lookup' \in [Objects -> Tiers \cup {Absent}]
  BY DEF Consistent, Holds
<1>2. QED  BY <1>1 DEF IInv, TypeOK, TierSize, JobType

\* The same for the steps that leave the configuration alone.
LEMMA IInvAfterRequest ==
    ASSUME IInv, UNCHANGED config,
           Consistent(tiers', lookup', Bound(tierListSize)),
           files' \subseteq Objects, missed' \subseteq Promoters \X Objects,
           jobs' \in [Removers -> JobType]
    PROVE  IInv'
<1>1. Consistent(tiers', lookup', Bound(tierListSize'))
  BY DEF config
<1>2. /\ storageObjects' \in Sizes /\ bulkRemoveCount' \in BulkCounts
      /\ tierListSize' = TierSize(storageObjects')
  BY IInvIs DEF config
<1>3. QED  BY <1>1, <1>2, IInvAfter

\* New and init.
LEMMA InitIInv == Init => IInv
<1> SUFFICES ASSUME Init PROVE IInv
  OBVIOUS
<1> USE DEF Init
<1>1. storageObjects \in Nat /\ bulkRemoveCount \in Nat
  BY LRUAssumption
<1>2. Bound(tierListSize) \in Nat /\ 0 <= Bound(tierListSize)
  BY <1>1, TierSizeNat, BoundIs
<1>3. /\ \A i \in Tiers : tiers[i] = <<>>
      /\ \A o \in Objects : lookup[o] = Absent
      /\ tiers = [i \in Tiers |-> tiers[i]]
      /\ lookup \in [Objects -> Tiers \cup {Absent}]
      /\ tiers \in [Tiers -> Seq(Objects)]
  BY TierFacts
<1>4. \A i \in Tiers : Members(lookup, i) = {}
  BY <1>3, TierFacts DEF Members
<1>5. \A i \in Tiers : Holds(tiers[i], Members(lookup, i)) /\ Len(tiers[i]) <= Bound(tierListSize)
  <2>1. TAKE i \in Tiers
  <2>2. Holds(tiers[i], Members(lookup, i))
    BY <1>3, <1>4, HoldsNothing
  <2>3. Len(tiers[i]) = 0
    BY <1>3
  <2> HIDE DEF Init
  <2>4. QED  BY <1>2, <2>2, <2>3
<1>6. Consistent(tiers, lookup, Bound(tierListSize))
  BY <1>3, <1>5 DEF Consistent
<1>7. jobs \in [Removers -> JobType]
  BY DEF NoJob, JobType
<1>8. TypeOK
  BY <1>3, <1>7 DEF TypeOK, JobType, TierSize
<1>9. QED  BY <1>6, <1>8 DEF IInv

\* What Insert leaves on disk.
LEMMA InsertFiles ==
    ASSUME NEW o, NEW saved, Insert(o, saved)
    PROVE  files' \subseteq files \cup saved
BY DEF Insert

\* A configuration change, and the goroutine it may start.
LEMMA ConfigIInv ==
    ASSUME IInv, NEW n \in Sizes, NEW count \in BulkCounts, ChangeConfig(n, count)
    PROVE  IInv'
<1>1. n \in Nat /\ LInv
  BY LRUAssumption, IInvIs
<1>2. /\ tierListSize' = TierSize(n) /\ Consistent(tiers', lookup', Bound(TierSize(n)))
      /\ Dropped(n) \in Seq(Objects)
  BY <1>1, ResizeConsistent
<1>3. jobs' \in [Removers -> JobType]
  <2>1. CASE UNCHANGED jobs
    BY <2>1, IInvIs
  <2>2. CASE \E r \in Removers : jobs' = [jobs EXCEPT ![r] =
                 [indexes |-> Dropped(n), i |-> 0, asleep |-> FALSE]]
    <3>1. [indexes |-> Dropped(n), i |-> 0, asleep |-> FALSE] \in JobType
      BY <1>2 DEF JobType
    <3>2. QED  BY <2>2, <3>1, IInvIs
  <2>3. QED  BY <2>1, <2>2 DEF ChangeConfig
<1>4. /\ storageObjects' = n /\ bulkRemoveCount' = count
      /\ files' = files /\ missed' = missed
  BY DEF ChangeConfig
<1>5. /\ Consistent(tiers', lookup', Bound(tierListSize'))
      /\ tierListSize' = TierSize(storageObjects')
  BY <1>2, <1>4
<1>6. QED  BY <1>3, <1>4, <1>5, IInvAfter, IInvIs

\* The two steps of a throttledRemove goroutine.
LEMMA RemoverIInv ==
    ASSUME IInv, NEW r \in Removers, RemoveBulk(r) \/ WakeUp(r)
    PROVE  IInv'
<1>1. /\ UNCHANGED <<tiers, lookup, config, missed>>
      /\ files' \subseteq files
  BY DEF RemoveBulk, WakeUp
<1>2. jobs[r] \in JobType
  BY IInvIs
<1>3. jobs' \in [Removers -> JobType]
  <2>1. CASE RemoveBulk(r)
    <3>1. [jobs[r] EXCEPT !.asleep = TRUE] \in JobType
      BY <1>2 DEF JobType
    <3>2. jobs' = [jobs EXCEPT ![r] = [jobs[r] EXCEPT !.asleep = TRUE]]
      BY <2>1, IInvIs DEF RemoveBulk
    <3>3. QED  BY <3>1, <3>2, IInvIs
  <2>2. CASE WakeUp(r)
    <3>1. NoJob \in JobType
      BY DEF NoJob, JobType
    <3>2. Advanced(r) \in Nat
      BY <1>2, IInvIs DEF Advanced, JobType
    <3>3. [jobs[r] EXCEPT !.i = Advanced(r), !.asleep = FALSE] \in JobType
      BY <1>2, <3>2 DEF JobType
    <3>4. PICK j \in JobType : jobs' = [jobs EXCEPT ![r] = j]
      BY <2>2, <3>1, <3>3 DEF WakeUp
    <3>5. QED  BY <3>4, IInvIs
  <2>3. QED  BY <2>1, <2>2
<1>4. Consistent(tiers', lookup', Bound(tierListSize))
  BY <1>1 DEF IInv
<1>5. QED  BY <1>1, <1>3, <1>4, IInvAfterRequest, IInvIs

\* Every step preserves the inductive invariant.
LEMMA NextIInv == IInv /\ [Next]_vars => IInv'
<1> SUFFICES ASSUME IInv, [Next]_vars PROVE IInv'
  OBVIOUS
<1>1. LInv /\ files \subseteq Objects /\ missed \subseteq Promoters \X Objects
      /\ jobs \in [Removers -> JobType]
  BY IInvIs
<1>2. ASSUME NEW o \in Objects, AddObject(o) PROVE IInv'
  <2>1. Consistent(tiers', lookup', Bound(tierListSize)) /\ files' \subseteq Objects
    BY <1>1, <1>2, InsertConsistent, InsertFiles DEF AddObject
  <2>2. QED  BY <1>1, <1>2, <2>1, IInvAfterRequest DEF AddObject
<1>3. ASSUME NEW o \in Objects, AddCachedObject(o) PROVE IInv'
  <2>1. Consistent(tiers', lookup', Bound(tierListSize)) /\ files' \subseteq Objects
    BY <1>1, <1>3 DEF AddCachedObject, LInv
  <2>2. QED  BY <1>1, <1>3, <2>1, IInvAfterRequest DEF AddCachedObject
<1>4. ASSUME NEW o \in Objects, PromoteInTop(o) PROVE IInv'
  <2>1. Consistent(tiers', lookup', Bound(tierListSize))
    BY <1>1, <1>4, TopConsistent
  <2>2. QED  BY <1>1, <1>4, <2>1, IInvAfterRequest DEF PromoteInTop
<1>5. ASSUME NEW o \in Objects, PromoteIntoRoom(o) PROVE IInv'
  <2>1. Consistent(tiers', lookup', Bound(tierListSize))
    BY <1>1, <1>5, RoomConsistent
  <2>2. QED  BY <1>1, <1>5, <2>1, IInvAfterRequest DEF PromoteIntoRoom
<1>6. ASSUME NEW o \in Objects, PromoteBySwap(o) PROVE IInv'
  <2>1. Consistent(tiers', lookup', Bound(tierListSize))
    BY <1>1, <1>6, SwapConsistent
  <2>2. QED  BY <1>1, <1>6, <2>1, IInvAfterRequest DEF PromoteBySwap
<1>7. ASSUME NEW o \in Objects, NEW p \in Promoters, PromoteMiss(p, o) PROVE IInv'
  <2>1. Consistent(tiers', lookup', Bound(tierListSize))
    BY <1>1, <1>7 DEF PromoteMiss, LInv
  <2>2. missed' \subseteq Promoters \X Objects
    BY <1>1, <1>7 DEF PromoteMiss
  <2>3. QED  BY <1>1, <1>7, <2>1, <2>2, IInvAfterRequest DEF PromoteMiss
<1>8. ASSUME NEW o \in Objects, NEW p \in Promoters, PromoteAdd(p, o) PROVE IInv'
  <2>1. Consistent(tiers', lookup', Bound(tierListSize)) /\ files' \subseteq Objects
    <3>1. CASE lookup[o] = Absent /\ Insert(o, {})
      BY <1>1, <3>1, InsertConsistent, InsertFiles
    <3>2. CASE UNCHANGED <<tiers, lookup, files>>
      BY <1>1, <3>2 DEF LInv
    <3>3. QED  BY <1>8, <3>1, <3>2 DEF PromoteAdd
  <2>2. QED  BY <1>1, <1>8, <2>1, IInvAfterRequest DEF PromoteAdd
<1>9. ASSUME NEW S \in SUBSET Objects, RemoveObjects(S) PROVE IInv'
  <2>1. Consistent(tiers', lookup', Bound(tierListSize))
    BY <1>1, <1>9, RemoveConsistent
  <2>2. QED  BY <1>1, <1>9, <2>1, IInvAfterRequest DEF RemoveObjects
<1>10. CASE UNCHANGED vars
  <2>1. Consistent(tiers', lookup', Bound(tierListSize))
    BY <1>1, <1>10 DEF vars, LInv
  <2>2. QED  BY <1>1, <1>10, <2>1, IInvAfterRequest DEF vars, config
<1>11. QED
  BY <1>2, <1>3, <1>4, <1>5, <1>6, <1>7, <1>8, <1>9, <1>10, ConfigIInv, RemoverIInv
  DEF Next, PromoteObject

\* The inductive invariant holds in every reachable state.
LEMMA IInvHolds == Spec => []IInv
BY InitIInv, NextIInv, PTL DEF Spec

-----------------------------------------------------------------------------
(* The theorems *)

\* Every variable keeps its type; tierListSize follows storage_objects.
THEOREM LRUTypeOK == Spec => []TypeOK
<1>1. IInv => TypeOK
  BY DEF IInv
<1>2. QED  BY <1>1, IInvHolds, PTL

\* The lookup map and the lists never disagree, whatever the objects, the
\* sizes of the zone and the goroutines: after every operation an object is
\* in the list its Element names, once, and in no other.
THEOREM LRUIndexMatchesTiers == Spec => []IndexMatchesTiers
<1>1. ASSUME IInv PROVE IndexMatchesTiers
  <2>1. \A i \in Tiers : Holds(tiers[i], Members(lookup, i))
    BY <1>1, IInvIs, TierAt
  <2>2. \A i \in Tiers : ToSet(tiers[i]) = Members(lookup, i)
    BY <2>1, HoldsToSet
  <2>3. \A i \in Tiers : IsInjective(tiers[i])
    BY <2>1 DEF Holds, IsInjective
  <2>4. \A i \in Tiers, o \in Objects : o \in ToSet(tiers[i]) <=> lookup[o] = i
    BY <2>2 DEF Members
  <2>5. QED  BY <2>3, <2>4 DEF IndexMatchesTiers
<1>2. QED  BY <1>1, IInvHolds, PTL

\* No tier ever outgrows tierListSize, or one object if that is 0.
THEOREM LRUTiersBounded == Spec => []TiersBounded
<1>1. ASSUME IInv PROVE TiersBounded
  BY <1>1, IInvIs, TierAt DEF TiersBounded, Bound
<1>2. QED  BY <1>1, IInvHolds, PTL

\* A zone of at least one object per tier never holds more than it may.
THEOREM LRUCapacity == Spec => []CapacityOfLargeZones
<1>1. ASSUME IInv, storageObjects >= cacheTiers PROVE CapacityRespected
  <2>1. PICK s \in Nat, t \in Nat : /\ storageObjects = s /\ tierListSize = t
                                    /\ t = s \div 4 /\ s >= 4
    BY <1>1, IInvIs, TierSizeNat DEF TierSize, cacheTiers
  <2>2. t >= 1 /\ 4 * t <= s
    BY <2>1
  <2>3. Bound(tierListSize) = t
    BY <2>1, <2>2, BoundIs
  <2>4. /\ Len(tiers[0]) \in Nat /\ Len(tiers[1]) \in Nat
        /\ Len(tiers[2]) \in Nat /\ Len(tiers[3]) \in Nat
        /\ Len(tiers[0]) <= t /\ Len(tiers[1]) <= t
        /\ Len(tiers[2]) <= t /\ Len(tiers[3]) <= t
    BY <1>1, <2>3, IInvIs, TierAt, TierFacts
  <2>5. Len(Ranking) = Len(tiers[0]) + Len(tiers[1]) + Len(tiers[2]) + Len(tiers[3])
    BY <1>1, IInvIs, RankingHolds
  <2>6. PICK n0 \in Nat, n1 \in Nat, n2 \in Nat, n3 \in Nat :
           /\ Len(tiers[0]) = n0 /\ Len(tiers[1]) = n1
           /\ Len(tiers[2]) = n2 /\ Len(tiers[3]) = n3
    BY <2>4
  <2>7. n0 + n1 + n2 + n3 <= s
    BY <2>1, <2>2, <2>4, <2>6
  <2>8. QED  BY <2>1, <2>5, <2>6, <2>7 DEF CapacityRespected
<1>2. IInv => CapacityOfLargeZones
  BY <1>1 DEF CapacityOfLargeZones
<1>3. QED  BY <1>2, IInvHolds, PTL

\* An eviction only deletes the part of an object that leaves the cache.
LEMMA InsertKeepsCached ==
    ASSUME LInv, NEW o \in Objects, lookup[o] = Absent, NEW saved, Insert(o, saved),
           NEW x \in files \ files'
    PROVE  lookup'[x] = Absent
<1>1. CASE files' = files \cup saved
  BY <1>1
<1>2. CASE /\ LastIsFull
           /\ PushNew(o, [tiers EXCEPT ![LastTier] = Front(@)],
                         [lookup EXCEPT ![Last(tiers[LastTier])] = Absent])
           /\ files' = (files \ {Last(tiers[LastTier])}) \cup saved
  <2> DEFINE victim == Last(tiers[LastTier])
  <2>1. victim \in Objects /\ lookup[victim] = LastTier
    BY <1>2, EvictConsistent
  <2>2. x = victim /\ victim # o
    BY <1>2, <2>1, TierFacts
  <2>3. lookup' = [[lookup EXCEPT ![victim] = Absent] EXCEPT ![o] = LastTier]
    BY <1>2 DEF PushNew
  <2> HIDE DEF victim
  <2>4. QED  BY <2>1, <2>2, <2>3, TierAt
<1>3. QED  BY <1>1, <1>2 DEF Insert

\* No step of the LRU deletes the part of an object that it still lists: not
\* the evictions, and not the bulks of throttledRemove, whatever was added
\* again between the resize that dropped an object and its turn.
THEOREM LRUNeverDeletesCached == Spec => NeverDeletesCached
<1> DEFINE Kept == \A o \in files \ files' : lookup'[o] = Absent
<1>1. ASSUME IInv, [Next]_vars PROVE [Kept]_vars
  <2> SUFFICES ASSUME Next, NEW x \in files \ files' PROVE lookup'[x] = Absent
    BY <1>1
  <2>1. LInv /\ files \subseteq Objects
    BY <1>1, IInvIs
  <2>2. ASSUME NEW o \in Objects, AddObject(o) PROVE lookup'[x] = Absent
    BY <2>1, <2>2, InsertKeepsCached DEF AddObject
  <2>3. ASSUME NEW o \in Objects, NEW p \in Promoters, PromoteAdd(p, o)
        PROVE  lookup'[x] = Absent
    BY <2>1, <2>3, InsertKeepsCached DEF PromoteAdd
  <2>4. ASSUME NEW S \in SUBSET Objects, RemoveObjects(S) PROVE lookup'[x] = Absent
    BY <2>1, <2>4 DEF RemoveObjects
  <2>5. ASSUME NEW r \in Removers, RemoveBulk(r) PROVE lookup'[x] = Absent
    BY <2>5 DEF RemoveBulk, Missing
  <2>6. \/ \E o \in Objects : \/ AddObject(o)
                              \/ \E p \in Promoters : PromoteAdd(p, o)
        \/ \E S \in SUBSET Objects : RemoveObjects(S)
        \/ \E r \in Removers : RemoveBulk(r)
    BY DEF Next, AddCachedObject, PromoteObject, PromoteInTop, PromoteIntoRoom,
           PromoteBySwap, PromoteMiss, ChangeConfig, WakeUp
  <2>7. QED  BY <2>2, <2>3, <2>4, <2>5, <2>6
<1>2. QED  BY <1>1, IInvHolds, PTL DEF Spec, NeverDeletesCached

-----------------------------------------------------------------------------
(* No file is forgotten *)

\* The part of an object that is not cached after AddObject was there before, uncached.
LEMMA InsertOrphans ==
    ASSUME LInv, NEW o \in Objects, lookup[o] = Absent, NEW saved, saved \subseteq {o},
           Insert(o, saved), files \subseteq Objects,
           NEW x \in files', lookup'[x] = Absent
    PROVE  x \in files /\ lookup[x] = Absent
<1>1. LastTier \in Tiers /\ LastTier # Absent
  BY TierFacts
<1>2. ASSUME NEW mk, mk \in [Objects -> Tiers \cup {Absent}],
             lookup' = [mk EXCEPT ![o] = LastTier]
      PROVE  x # o /\ (x \in Objects => mk[x] = Absent)
  BY <1>1, <1>2
<1>3. CASE PushNew(o, tiers, lookup) /\ files' = files \cup saved
  BY <1>2, <1>3, TierAt DEF PushNew
<1>4. CASE /\ LastIsFull /\ FreeLists # {}
           /\ PushNew(o, Cascade(Max(FreeLists)), CascadeLookup(Max(FreeLists)))
           /\ files' = files \cup saved
  <2>1. PICK f \in FreeLists : f = Max(FreeLists) /\ \A i \in FreeLists : i <= f
    BY <1>4, LastFree
  <2>2. /\ \A y \in Objects : lookup[y] = Absent <=> CascadeLookup(f)[y] = Absent
        /\ CascadeLookup(f) \in [Objects -> Tiers \cup {Absent}]
    BY <1>4, <2>1, CascadeConsistent DEF Consistent
  <2>3. lookup' = [CascadeLookup(f) EXCEPT ![o] = LastTier]
    BY <1>4, <2>1 DEF PushNew
  <2>4. QED  BY <1>2, <1>4, <2>2, <2>3
<1>5. CASE /\ LastIsFull
           /\ PushNew(o, [tiers EXCEPT ![LastTier] = Front(@)],
                         [lookup EXCEPT ![Last(tiers[LastTier])] = Absent])
           /\ files' = (files \ {Last(tiers[LastTier])}) \cup saved
  <2> DEFINE victim == Last(tiers[LastTier])
             mk == [lookup EXCEPT ![victim] = Absent]
  <2>1. mk \in [Objects -> Tiers \cup {Absent}] /\ lookup' = [mk EXCEPT ![o] = LastTier]
    BY <1>5, TierAt DEF PushNew
  <2>2. x # o /\ (x \in Objects => mk[x] = Absent)
    BY <1>2, <2>1
  <2>3. x # victim /\ x \in files
    BY <1>5, <2>2
  <2>4. QED  BY <2>2, <2>3, TierAt
<1>6. QED  BY <1>3, <1>4, <1>5 DEF Insert

\* The elements of a slice.
LEMMA SliceElements ==
    ASSUME NEW s \in Seq(Objects), NEW m \in Nat, NEW n \in Nat, m >= 1, n <= Len(s)
    PROVE  ToSet(SubSeq(s, m, n)) = {s[k] : k \in m .. n}
<1> DEFINE t == SubSeq(s, m, n)
<1>1. /\ Len(s) \in Nat /\ \A k \in m .. n : s[k] \in Objects
      /\ t \in Seq(Objects) /\ Len(t) = IF m <= n THEN n - m + 1 ELSE 0
      /\ \A k \in 1 .. n - m + 1 : t[k] = s[m + k - 1]
  BY SubSeqProperties
<1>2. DOMAIN t = 1 .. Len(t) /\ Len(t) \in Nat
  BY <1>1
<1> HIDE DEF t
<1>3. 1 .. Len(t) = 1 .. n - m + 1
  BY <1>1, <1>2
<1>4. \A k \in m .. n : k - m + 1 \in 1 .. n - m + 1 /\ t[k - m + 1] = s[k]
  <2>1. TAKE k \in m .. n
  <2>2. k - m + 1 \in 1 .. n - m + 1 /\ m + (k - m + 1) - 1 = k
    OBVIOUS
  <2>3. QED  BY <1>1, <2>2
<1>5. \A k \in 1 .. n - m + 1 : m + k - 1 \in m .. n
  OBVIOUS
<1>6. ToSet(t) = {t[k] : k \in 1 .. n - m + 1}
  BY <1>2, <1>3 DEF ToSet
<1>7. \A k \in m .. n : s[k] \in ToSet(t)
  BY <1>4, <1>6
<1>8. \A x \in ToSet(t) : \E k \in m .. n : x = s[k]
  BY <1>1, <1>5, <1>6
<1>9. QED  BY <1>7, <1>8 DEF t

\* Where in its slice a removal goroutine still has to look.
Unseen(job, bulk) ==
    {job.indexes[k] : k \in job.i + 1 + (IF job.asleep THEN bulk ELSE 0) .. Len(job.indexes)}

LEMMA PendingIs ==
    ASSUME IInv, NEW r \in Removers
    PROVE  PendingRemoval(r) = Unseen(jobs[r], bulkRemoveCount)
<1>1. jobs[r].indexes \in Seq(Objects) /\ jobs[r].i \in Nat /\ jobs[r].asleep \in BOOLEAN
      /\ bulkRemoveCount \in Nat /\ Len(jobs[r].indexes) \in Nat
  BY IInvIs DEF JobType
<1> DEFINE m == jobs[r].i + 1 + (IF jobs[r].asleep THEN bulkRemoveCount ELSE 0)
<1>2. m \in Nat /\ m >= 1
  BY <1>1
<1> HIDE DEF m
<1>3. ToSet(SubSeq(jobs[r].indexes, m, Len(jobs[r].indexes)))
        = {jobs[r].indexes[k] : k \in m .. Len(jobs[r].indexes)}
  BY <1>1, <1>2, SliceElements
<1>4. QED  BY <1>3 DEF m, PendingRemoval, Unseen

\* A step that leaves the removals alone forgets no file if it uncaches none.
LEMMA NoneForgotten ==
    ASSUME NoOrphanFile, UNCHANGED <<jobs, bulkRemoveCount>>, files' \subseteq Objects,
           \A x \in files' : lookup'[x] = Absent => x \in files /\ lookup[x] = Absent
    PROVE  NoOrphanFile'
<1>1. \A r \in Removers : PendingRemoval(r)' = PendingRemoval(r)
  BY DEF PendingRemoval
<1>2. \A x \in files : lookup[x] # Absent \/ \E r \in Removers : x \in PendingRemoval(r)
  BY DEF NoOrphanFile, Cached
<1>3. \A x \in files' : x \in Cached' \/ \E r \in Removers : x \in PendingRemoval(r)'
  BY <1>1, <1>2 DEF Cached
<1>4. QED  BY <1>3 DEF NoOrphanFile

\* What a resize drops is handed to a goroutine.
LEMMA ResizeForgetsNone ==
    ASSUME IInv, NoOrphanFile, NEW n \in Sizes, ChangeConfig(n, bulkRemoveCount)
    PROVE  NoOrphanFile'
<1>1. LInv /\ n \in Nat /\ jobs \in [Removers -> JobType] /\ files \subseteq Objects
  BY IInvIs, LRUAssumption
<1>2. bulkRemoveCount' = bulkRemoveCount /\ files' = files /\ IInv'
  BY IInvIs, ConfigIInv DEF ChangeConfig
<1>3. CASE UNCHANGED <<tiers, lookup, jobs>>
  BY <1>1, <1>2, <1>3, NoneForgotten
<1>4. CASE lookup' = [o \in Objects |->
                IF o \in ToSet(Dropped(n)) THEN Absent
                ELSE IF \E i \in Tiers : o \in ToSet(ResizedTiers(n)[i])
                THEN CHOOSE i \in Tiers : o \in ToSet(ResizedTiers(n)[i])
                ELSE lookup[o]]
  <2>1. \A x \in Objects : lookup'[x] = Absent => x \in ToSet(Dropped(n)) \/ lookup[x] = Absent
    <3>1. SUFFICES ASSUME NEW x \in Objects, x \notin ToSet(Dropped(n)), lookup'[x] = Absent
                   PROVE  lookup[x] = Absent
      OBVIOUS
    <3>2. CASE \E i \in Tiers : x \in ToSet(ResizedTiers(n)[i])
      <4>1. lookup'[x] \in Tiers
        BY <1>4, <3>1, <3>2
      <4>2. QED  BY <3>1, <4>1, TierFacts
    <3>3. QED  BY <1>4, <3>1, <3>2
  <2>2. CASE Dropped(n) = <<>> /\ UNCHANGED jobs
    <3>1. ToSet(Dropped(n)) = {}
      BY <2>2 DEF ToSet
    <3>2. QED  BY <1>1, <1>2, <2>1, <2>2, <3>1, NoneForgotten
  <2>3. ASSUME NEW r \in Removers, ~Running(r),
               jobs' = [jobs EXCEPT ![r] = [indexes |-> Dropped(n), i |-> 0, asleep |-> FALSE]]
        PROVE  NoOrphanFile'
    <3>1. Dropped(n) \in Seq(Objects)
      BY <1>1, ResizeConsistent
    <3>2. /\ jobs'[r] = [indexes |-> Dropped(n), i |-> 0, asleep |-> FALSE]
          /\ \A q \in Removers : q # r => jobs'[q] = jobs[q]
      BY <1>1, <2>3
    <3>3. PendingRemoval(r)' = ToSet(Dropped(n))
      <4>1. jobs'[r].i + 1 + (IF jobs'[r].asleep THEN bulkRemoveCount' ELSE 0) = 1
        BY <3>2
      <4>2. PendingRemoval(r)' = ToSet(SubSeq(Dropped(n), 1, Len(Dropped(n))))
        BY <3>2, <4>1 DEF PendingRemoval
      <4>3. QED  BY <3>1, <4>2, SubSeqFull
    <3>4. PendingRemoval(r) = {}
      <4>1. Len(jobs[r].indexes) = 0 /\ jobs[r].i \in Nat /\ bulkRemoveCount \in Nat
        BY <1>1, <2>3, IInvIs DEF Running, JobType
      <4>2. Unseen(jobs[r], bulkRemoveCount) = {}
        BY <4>1 DEF Unseen
      <4>3. QED  BY <4>2, PendingIs
    <3>5. \A q \in Removers : q # r => PendingRemoval(q)' = PendingRemoval(q)
      BY <1>2, <3>2 DEF PendingRemoval
    <3>6. ASSUME NEW x \in files'
          PROVE  x \in Cached' \/ \E q \in Removers : x \in PendingRemoval(q)'
      <4>1. x \in Objects /\ x \in files
        BY <1>1, <1>2, <3>6
      <4>2. CASE x \in ToSet(Dropped(n))
        BY <3>3, <4>2
      <4>3. CASE x \notin ToSet(Dropped(n)) /\ lookup[x] # Absent
        BY <2>1, <4>1, <4>3 DEF Cached
      <4>4. CASE lookup[x] = Absent
        <5>1. PICK q \in Removers : x \in PendingRemoval(q)
          BY <4>1, <4>4 DEF NoOrphanFile, Cached
        <5>2. q # r
          BY <3>4, <5>1
        <5>3. QED  BY <3>5, <5>1, <5>2
      <4>5. QED  BY <4>2, <4>3, <4>4
    <3>7. QED  BY <3>6 DEF NoOrphanFile
  <2>4. QED  BY <1>4, <2>2, <2>3, <1>3 DEF ChangeConfig
<1>5. QED  BY <1>3, <1>4 DEF ChangeConfig

\* No throttledRemove steps over a file: its bulk removes what is not cached again.
LEMMA RemovalForgetsNone ==
    ASSUME IInv, NoOrphanFile, NEW r \in Removers, RemoveBulk(r) \/ WakeUp(r)
    PROVE  NoOrphanFile'
<1>1. /\ jobs \in [Removers -> JobType] /\ bulkRemoveCount \in Nat
      /\ UNCHANGED <<lookup, bulkRemoveCount>> /\ files' \subseteq files
  BY IInvIs DEF RemoveBulk, WakeUp, config
<1> DEFINE s == jobs[r].indexes
           i == jobs[r].i
           b == bulkRemoveCount
<1>2. s \in Seq(Objects) /\ i \in Nat /\ jobs[r].asleep \in BOOLEAN /\ Len(s) \in Nat
  BY <1>1 DEF JobType
<1>3. IInv'
  BY RemoverIInv
<1>4. /\ \A q \in Removers : PendingRemoval(q) = Unseen(jobs[q], b)
      /\ \A q \in Removers : PendingRemoval(q)' = Unseen(jobs'[q], b)
  <2>1. \A q \in Removers : PendingRemoval(q) = Unseen(jobs[q], bulkRemoveCount)
    BY PendingIs
  <2>2. \A q \in Removers : PendingRemoval(q)' = Unseen(jobs'[q], bulkRemoveCount')
    <3>1. TAKE q \in Removers
    <3>2. jobs'[q].indexes \in Seq(Objects) /\ jobs'[q].i \in Nat /\ jobs'[q].asleep \in BOOLEAN
          /\ bulkRemoveCount' \in Nat /\ Len(jobs'[q].indexes) \in Nat
      BY <1>1, <1>3 DEF IInv, TypeOK
    <3> DEFINE m == jobs'[q].i + 1 + (IF jobs'[q].asleep THEN bulkRemoveCount' ELSE 0)
    <3>3. m \in Nat /\ m >= 1
      BY <3>2
    <3> HIDE DEF m
    <3>4. ToSet(SubSeq(jobs'[q].indexes, m, Len(jobs'[q].indexes)))
            = {jobs'[q].indexes[k] : k \in m .. Len(jobs'[q].indexes)}
      BY <3>2, <3>3, SliceElements
    <3>5. QED  BY <3>4 DEF m, PendingRemoval, Unseen
  <2>3. QED  BY <1>1, <2>1, <2>2
<1>5. \A q \in Removers : q # r => jobs'[q] = jobs[q]
  BY <1>1 DEF RemoveBulk, WakeUp
<1>6. ASSUME NEW x \in files', lookup'[x] = Absent, x \in Unseen(jobs[r], b)
      PROVE  x \in Unseen(jobs'[r], b)
  <2>1. CASE RemoveBulk(r)
    <3>1. /\ ~jobs[r].asleep /\ jobs'[r] = [jobs[r] EXCEPT !.asleep = TRUE]
          /\ files' = files \ Missing(ToSet(Bulk(r)))
      BY <1>1, <2>1 DEF RemoveBulk
    <3>2. jobs'[r].indexes = s /\ jobs'[r].i = i /\ jobs'[r].asleep
      BY <1>1, <3>1 DEF JobType
    <3>3. PICK k \in i + 1 .. Len(s) : x = s[k]
      BY <1>2, <1>6, <3>1 DEF Unseen
    <3>4. x \notin ToSet(Bulk(r))
      BY <1>1, <1>6, <3>1 DEF Missing
    <3> DEFINE n == Min({i + b, Len(s)})
    <3>5. n \in Nat /\ n <= Len(s) /\ n <= i + b /\ n \in {i + b, Len(s)}
      <4>1. \E y \in {i + b, Len(s)} : \A z \in {i + b, Len(s)} : y <= z
        BY <1>1, <1>2
      <4>2. n \in {i + b, Len(s)} /\ \A z \in {i + b, Len(s)} : n <= z
        BY <4>1 DEF Min
      <4>3. QED  BY <1>1, <1>2, <4>2
    <3> HIDE DEF n
    <3>6. ToSet(Bulk(r)) = {s[j] : j \in i + 1 .. n}
      <4>1. Bulk(r) = SubSeq(s, i + 1, n)
        BY DEF Bulk, n
      <4>2. i + 1 \in Nat /\ i + 1 >= 1
        BY <1>2
      <4>3. ToSet(SubSeq(s, i + 1, n)) = {s[j] : j \in i + 1 .. n}
        <5> HIDE DEF s, i
        <5>1. QED  BY <1>2, <3>5, <4>2, SliceElements
      <4>4. QED  BY <4>1, <4>3
    <3>7. k \in i + 1 + b .. Len(s)
      <4>1. k \notin i + 1 .. n
        BY <3>3, <3>4, <3>6
      <4>2. QED  BY <1>1, <1>2, <3>3, <3>5, <4>1
    <3>8. QED  BY <3>2, <3>3, <3>7 DEF Unseen
  <2>2. CASE WakeUp(r)
    <3>1. /\ jobs[r].asleep /\ Advanced(r) = i + b
          /\ jobs'[r] = IF i + b < Len(s) THEN [jobs[r] EXCEPT !.i = i + b, !.asleep = FALSE]
                        ELSE NoJob
      BY <1>1, <2>2 DEF WakeUp, Advanced
    <3>2. PICK k \in i + 1 + b .. Len(s) : x = s[k]
      BY <1>2, <1>6, <3>1 DEF Unseen
    <3>3. i + b < Len(s)
      BY <1>1, <1>2, <3>2
    <3>4. jobs'[r].indexes = s /\ jobs'[r].i = i + b /\ jobs'[r].asleep = FALSE
      BY <1>1, <3>1, <3>3 DEF JobType
    <3>5. k \in (i + b) + 1 + 0 .. Len(s)
      BY <1>1, <1>2, <3>2
    <3>6. QED  BY <3>2, <3>4, <3>5 DEF Unseen
  <2>3. QED  BY <2>1, <2>2
<1>7. ASSUME NEW x \in files' PROVE x \in Cached' \/ \E q \in Removers : x \in PendingRemoval(q)'
  <2>1. x \in Objects /\ x \in files
    BY <1>1, <1>7, IInvIs
  <2>2. CASE lookup[x] # Absent
    BY <1>1, <2>1, <2>2 DEF Cached
  <2>3. CASE lookup[x] = Absent
    <3>1. PICK q \in Removers : x \in PendingRemoval(q)
      BY <2>1, <2>3 DEF NoOrphanFile, Cached
    <3>2. QED  BY <1>1, <1>4, <1>5, <1>6, <2>3, <3>1
  <2>4. QED  BY <2>2, <2>3
<1>8. QED  BY <1>7 DEF NoOrphanFile

\* However often a zone is resized, and whatever is added, promoted, evicted or removed
\* while the goroutines of throttledRemove sleep, every part on disk is cached or still
\* ahead of one of them, as long as all configurations have one bulk_remove_count
\* (lru.go:346; MCTieredLRU_bulkcount.cfg shows what happens when it changes).
THEOREM LRUNoOrphanFile ==
    ASSUME NEW CONSTANT count, BulkCounts = {count}
    PROVE  Spec => []NoOrphanFile
<1>1. Init => NoOrphanFile
  BY DEF Init, NoOrphanFile
<1>2. ASSUME IInv, NoOrphanFile, [Next]_vars PROVE NoOrphanFile'
  <2>1. LInv /\ files \subseteq Objects /\ bulkRemoveCount = count
    BY <1>2, IInvIs
  <2>2. files' \subseteq Objects /\ IInv'
    BY <1>2, NextIInv DEF IInv, TypeOK
  <2>3. ASSUME NEW o \in Objects, AddObject(o) PROVE NoOrphanFile'
    <3>1. UNCHANGED <<jobs, bulkRemoveCount>>
      BY <2>3 DEF AddObject, config
    <3>2. \A x \in files' : lookup'[x] = Absent => x \in files /\ lookup[x] = Absent
      BY <2>1, <2>3, InsertOrphans DEF AddObject
    <3>3. QED  BY <1>2, <2>2, <3>1, <3>2, NoneForgotten
  <2>4. ASSUME NEW o \in Objects, AddCachedObject(o) PROVE NoOrphanFile'
    BY <1>2, <2>2, <2>4, NoneForgotten DEF AddCachedObject, config
  <2>5. ASSUME NEW o \in Objects, PromoteObject(o) PROVE NoOrphanFile'
    <3>1. UNCHANGED <<jobs, bulkRemoveCount, files>>
      BY <2>5 DEF PromoteObject, PromoteInTop, PromoteIntoRoom, PromoteBySwap, config
    <3>2. \A x \in Objects : lookup'[x] = Absent => lookup[x] = Absent
      <4>1. CASE PromoteInTop(o)
        BY <4>1 DEF PromoteInTop
      <4>2. CASE PromoteIntoRoom(o)
        BY <2>1, <4>2, TierAt, TierFacts DEF PromoteIntoRoom
      <4>3. CASE PromoteBySwap(o)
        BY <2>1, <4>3, TierAt, TierFacts DEF PromoteBySwap, SwappedLookup
      <4>4. QED  BY <2>5, <4>1, <4>2, <4>3 DEF PromoteObject
    <3>3. QED  BY <1>2, <2>1, <2>2, <3>1, <3>2, NoneForgotten
  <2>6. ASSUME NEW o \in Objects, NEW p \in Promoters, PromoteMiss(p, o) \/ PromoteAdd(p, o)
        PROVE  NoOrphanFile'
    <3>1. UNCHANGED <<jobs, bulkRemoveCount>>
      BY <2>6 DEF PromoteMiss, PromoteAdd, config
    <3>2. \A x \in files' : lookup'[x] = Absent => x \in files /\ lookup[x] = Absent
      <4>1. CASE lookup[o] = Absent /\ Insert(o, {})
        BY <2>1, <4>1, InsertOrphans
      <4>2. CASE UNCHANGED <<lookup, files>>
        BY <4>2
      <4>3. QED  BY <2>6, <4>1, <4>2 DEF PromoteMiss, PromoteAdd
    <3>3. QED  BY <1>2, <2>2, <3>1, <3>2, NoneForgotten
  <2>7. ASSUME NEW S \in SUBSET Objects, RemoveObjects(S) PROVE NoOrphanFile'
    BY <1>2, <2>1, <2>2, <2>7, NoneForgotten DEF RemoveObjects, config
  <2>8. ASSUME NEW n \in Sizes, NEW c \in BulkCounts, ChangeConfig(n, c) PROVE NoOrphanFile'
    BY <1>2, <2>1, <2>8, ResizeForgetsNone
  <2>9. ASSUME NEW r \in Removers, RemoveBulk(r) \/ WakeUp(r) PROVE NoOrphanFile'
    BY <1>2, <2>9, RemovalForgetsNone
  <2>10. CASE UNCHANGED vars
    BY <1>2, <2>2, <2>10, NoneForgotten DEF vars
  <2>11. QED
    BY <1>2, <2>3, <2>4, <2>5, <2>6, <2>7, <2>8, <2>9, <2>10 DEF Next
<1>3. QED  BY <1>1, <1>2, IInvHolds, PTL DEF Spec

-----------------------------------------------------------------------------
(* Cutting and joining lists *)

\* Where two lists were joined they come apart.
LEMMA CutAtJoint ==
    ASSUME NEW T, NEW X \in Seq(T), NEW Y \in Seq(T)
    PROVE  /\ X \o Y \in Seq(T) /\ Len(X \o Y) = Len(X) + Len(Y)
           /\ SubSeq(X \o Y, 1, Len(X)) = X
           /\ SubSeq(X \o Y, Len(X) + 1, Len(X \o Y)) = Y
<1> DEFINE s == X \o Y
           m == Len(X)
           n == Len(Y)
<1>1. /\ s \in Seq(T) /\ Len(s) = m + n /\ m \in Nat /\ n \in Nat
      /\ \A i \in 1 .. m + n : s[i] = IF i <= m THEN X[i] ELSE Y[i - m]
      /\ \A i \in 1 .. m + n : s[i] \in T
  BY ConcatProperties, ElementOfSeq
<1> HIDE DEF s
<1>2. SubSeq(s, 1, m) = X
  <2> DEFINE t == SubSeq(s, 1, m)
  <2>1. /\ t \in Seq(T) /\ Len(t) = m
        /\ \A i \in 1 .. m : t[i] = s[i]
    BY <1>1, SubSeqProperties
  <2>2. \A i \in 1 .. Len(t) : t[i] = X[i]
    BY <1>1, <2>1
  <2> HIDE DEF t
  <2>3. t = X
    BY <2>1, <2>2, SeqEqual
  <2>4. QED  BY <2>3 DEF t
<1>3. SubSeq(s, m + 1, Len(s)) = Y
  <2> DEFINE t == SubSeq(s, m + 1, m + n)
  <2>1. /\ t \in Seq(T) /\ Len(t) = n
        /\ \A i \in 1 .. n : t[i] = s[m + i]
    <3>1. \A i \in m + 1 .. m + n : s[i] \in T
      BY <1>1
    <3>2. /\ t \in Seq(T) /\ Len(t) = IF m + 1 <= m + n THEN (m + n) - (m + 1) + 1 ELSE 0
          /\ \A i \in 1 .. (m + n) - (m + 1) + 1 : t[i] = s[(m + 1) + i - 1]
      BY <1>1, <3>1, SubSeqProperties
    <3> HIDE DEF t
    <3>3. QED  BY <1>1, <3>2
  <2>2. \A i \in 1 .. Len(t) : t[i] = Y[i]
    <3> HIDE DEF t
    <3>1. TAKE i \in 1 .. Len(t)
    <3>2. m + i \in 1 .. m + n /\ ~(m + i <= m) /\ (m + i) - m = i /\ i \in 1 .. n
      BY <1>1, <2>1
    <3>3. QED  BY <1>1, <2>1, <3>2
  <2> HIDE DEF t
  <2>3. t = Y
    BY <2>1, <2>2, SeqEqual
  <2>4. SubSeq(s, m + 1, m + n) = Y
    BY <2>3 DEF t
  <2>5. QED  BY <1>1, <2>4
<1>4. QED  BY <1>1, <1>2, <1>3 DEF s

\* Insertion between two lists.
LEMMA InsertAtJoint ==
    ASSUME NEW T, NEW X \in Seq(T), NEW Y \in Seq(T), NEW o \in T
    PROVE  InsertAt(X \o Y, Len(X) + 1, o) = X \o <<o>> \o Y
<1>1. (Len(X) + 1) - 1 = Len(X)
  OBVIOUS
<1>2. SubSeq(X \o Y, 1, (Len(X) + 1) - 1) = X
  BY <1>1, CutAtJoint
<1>3. SubSeq(X \o Y, Len(X) + 1, Len(X \o Y)) = Y
  BY CutAtJoint
<1>4. QED  BY <1>2, <1>3 DEF InsertAt

\* Removal between two lists.
LEMMA RemoveAtJoint ==
    ASSUME NEW T, NEW X \in Seq(T), NEW Y \in Seq(T), NEW o \in T
    PROVE  RemoveAt(X \o <<o>> \o Y, Len(X) + 1) = X \o Y
<1> DEFINE s == X \o <<o>>
           k == Len(X) + 1
<1>1. s \in Seq(T) /\ Len(s) = k /\ <<o>> \o Y \in Seq(T) /\ Len(X) \in Nat /\ k - 1 = Len(X)
  BY CutAtJoint
<1>2. s \o Y = X \o (<<o>> \o Y)
  BY ConcatAssociative
<1>3. SubSeq(s \o Y, 1, k - 1) = X
  BY <1>1, <1>2, CutAtJoint
<1>4. SubSeq(s \o Y, k + 1, Len(s \o Y)) = Y
  BY <1>1, CutAtJoint
<1>5. QED  BY <1>3, <1>4 DEF RemoveAt

\* The last element of a joined list is that of its second part.
LEMMA FrontOfJoined ==
    ASSUME NEW T, NEW X \in Seq(T), NEW Y \in Seq(T), Y # <<>>
    PROVE  /\ Y = Front(Y) \o <<Last(Y)>> /\ Front(Y) \in Seq(T) /\ Last(Y) \in T
           /\ Front(X \o Y) = X \o Front(Y)
<1> DEFINE n == Len(Y)
<1>1. n \in Nat /\ n >= 1 /\ n \in 1 .. n /\ 1 \in 1 .. n
  OBVIOUS
<1>2. SubSeq(Y, 1, n) = SubSeq(Y, 1, n - 1) \o <<Y[n]>>
  BY <1>1, SubSeqRecursiveSecond
<1>3. Y = Front(Y) \o <<Last(Y)>> /\ Front(Y) \in Seq(T) /\ Last(Y) \in T
  <2>1. \A i \in 1 .. n - 1 : Y[i] \in T
    OBVIOUS
  <2>2. SubSeq(Y, 1, n - 1) \in Seq(T)
    BY <1>1, <2>1, SubSeqProperties
  <2>3. QED  BY <1>1, <1>2, <2>2, SubSeqFull DEF Front, Last
<1>4. PICK F \in Seq(T), l \in T : F = Front(Y) /\ l = Last(Y)
  BY <1>3
<1>5. Y = F \o <<l>> /\ <<l>> \in Seq(T)
  BY <1>3, <1>4
<1>6. X \o Y = (X \o F) \o <<l>> /\ X \o F \in Seq(T)
  <2>1. X \o (F \o <<l>>) = (X \o F) \o <<l>>
    BY <1>5, ConcatAssociative
  <2>2. QED  BY <1>5, <2>1, ConcatProperties
<1>7. SubSeq(X \o Y, 1, Len(X \o Y) - 1) = X \o F
  <2>1. Len((X \o F) \o <<l>>) = Len(X \o F) + 1
    BY <1>6
  <2>2. \A G, H \in Seq(T) : SubSeq(G \o H, 1, Len(G)) = G
    BY CutAtJoint
  <2>3. Len(X \o Y) - 1 = Len(X \o F)
    BY <1>6, <2>1
  <2>4. QED  BY <1>5, <1>6, <2>2, <2>3
<1>8. QED  BY <1>3, <1>4, <1>7 DEF Front

\* A list apart at one of its elements.
LEMMA CutAtElement ==
    ASSUME NEW T, NEW s \in Seq(T), NEW k \in 1 .. Len(s)
    PROVE  \E X, Y \in Seq(T) : /\ s = X \o <<s[k]>> \o Y
                                /\ X = SubSeq(s, 1, k - 1) /\ Y = SubSeq(s, k + 1, Len(s))
<1> DEFINE X == SubSeq(s, 1, k - 1)
           Y == SubSeq(s, k + 1, Len(s))
<1>1. k \in Nat /\ Len(s) \in Nat /\ 1 <= k /\ k <= Len(s)
  OBVIOUS
<1>2. X \in Seq(T) /\ Y \in Seq(T)
  <2>1. (\A i \in 1 .. k - 1 : s[i] \in T) /\ (\A i \in k + 1 .. Len(s) : s[i] \in T)
    OBVIOUS
  <2>2. QED  BY <1>1, <2>1, SubSeqProperties
<1>3. SubSeq(s, 1, k) = X \o <<s[k]>>
  BY <1>1, SubSeqRecursiveSecond
<1>4. SubSeq(s, 1, k) \o Y = SubSeq(s, 1, Len(s))
  BY <1>1, ConcatAdjacentSubSeq
<1>5. s = (X \o <<s[k]>>) \o Y
  BY <1>3, <1>4, SubSeqFull
<1> HIDE DEF X, Y
<1>6. QED  BY <1>2, <1>5 DEF X, Y

\* An element appended to the second part of a joined list.
LEMMA AppendJoined ==
    ASSUME NEW T, NEW u \in Seq(T), NEW v \in Seq(T), NEW y \in T
    PROVE  u \o Append(v, y) = Append(u \o v, y)
<1>1. <<y>> \in Seq(T) /\ u \o v \in Seq(T)
  BY ConcatProperties
<1>2. (u \o v) \o <<y>> = u \o (v \o <<y>>)
  BY <1>1, ConcatAssociative
<1>3. QED  BY <1>1, <1>2, AppendIsConcat

\* The head of the second part of a joined list goes to the first.
LEMMA HeadPushedUp ==
    ASSUME NEW T, NEW A \in Seq(T), NEW B \in Seq(T), B # <<>>
    PROVE  Append(A, Head(B)) \o Tail(B) = A \o B
<1>1. /\ Head(B) \in T /\ Tail(B) \in Seq(T) /\ Tail(B) = SubSeq(B, 2, Len(B))
      /\ Len(B) \in Nat /\ 1 \in 1 .. Len(B) /\ Len(B) \in 1 .. Len(B) /\ Head(B) = B[1]
  BY HeadTailProperties, TailIsSubSeq
<1>2. B = <<Head(B)>> \o Tail(B)
  <2>1. SubSeq(B, 1, Len(B)) = <<B[1]>> \o SubSeq(B, 1 + 1, Len(B))
    BY <1>1, SubSeqRecursiveFirst
  <2>2. QED  BY <1>1, <2>1, SubSeqFull
<1>3. PICK h \in T, R \in Seq(T) : h = Head(B) /\ R = Tail(B)
  BY <1>1
<1>4. (A \o <<h>>) \o R = A \o (<<h>> \o R)
  <2>1. <<h>> \in Seq(T)
    OBVIOUS
  <2>2. QED  BY <2>1, ConcatAssociative
<1>5. Append(A, h) = A \o <<h>>
  BY AppendIsConcat
<1>6. QED  BY <1>2, <1>3, <1>4, <1>5

\* The same when the second part gets another element at its back.
LEMMA HeadPushedOn ==
    ASSUME NEW T, NEW A \in Seq(T), NEW B \in Seq(T), B # <<>>, NEW x \in T
    PROVE  Append(A, Head(B)) \o Tail(Append(B, x)) = Append(A \o B, x)
<1>1. Head(B) \in T /\ Tail(B) \in Seq(T)
  BY HeadTailProperties
<1>2. Tail(Append(B, x)) = Append(Tail(B), x)
  BY HeadTailAppend
<1>3. Append(A, Head(B)) \in Seq(T)
  BY <1>1
<1>4. Append(A, Head(B)) \o Append(Tail(B), x) = Append(Append(A, Head(B)) \o Tail(B), x)
  BY <1>1, <1>3, AppendJoined
<1>5. QED  BY <1>2, <1>4, HeadPushedUp

\* Removal from a joined list is removal from its parts.
LEMMA WithoutJoined ==
    ASSUME NEW T, NEW X \in Seq(T), NEW Y \in Seq(T), NEW S
    PROVE  Without(X \o Y, S) = Without(X, S) \o Without(Y, S)
<1> DEFINE s == X \o Y
           m == Len(X)
           n == Len(Y)
<1>1. /\ s \in Seq(T) /\ Len(s) = m + n /\ m \in Nat /\ n \in Nat
      /\ \A i \in 1 .. m + n : s[i] = IF i <= m THEN X[i] ELSE Y[i - m]
      /\ \A i \in 1 .. n : Y[i] \in T
  BY ConcatProperties
<1>2. PICK f : IsKept(f, s, S, m + n) /\ Without(s, S) = f[m + n]
  <2> HIDE DEF s, m, n
  <2>1. Len(s) \in Nat
    BY <1>1
  <2>2. PICK f : IsKept(f, s, S, Len(s)) /\ Without(s, S) = f[Len(s)]
    BY <2>1, WithoutDef
  <2>3. QED  BY <1>1, <2>2
<1>3. PICK g : IsKept(g, X, S, m) /\ Without(X, S) = g[m]
  BY <1>1, WithoutDef
<1>4. PICK h : IsKept(h, Y, S, n) /\ Without(Y, S) = h[n]
  BY <1>1, WithoutDef
<1> HIDE DEF s, m, n
<1>5. /\ \A i \in 0 .. m + n : f[i] = Keep(f, s, S, i)
      /\ \A i \in 0 .. m : g[i] = Keep(g, X, S, i)
      /\ \A i \in 0 .. n : h[i] = Keep(h, Y, S, i)
  BY <1>1, <1>2, <1>3, <1>4 DEF IsKept
<1>6. \A i \in 0 .. m : f[i] = g[i]
  <2> DEFINE Bad == {i \in 0 .. m : f[i] # g[i]}
  <2>1. SUFFICES ASSUME Bad # {} PROVE FALSE
    OBVIOUS
  <2>2. Bad \subseteq Nat
    BY <1>1
  <2>3. PICK i \in Bad : \A k \in Bad : i <= k
    <3> HIDE DEF Bad
    <3>1. QED  BY <2>1, <2>2, LeastNat
  <2>4. i \in 0 .. m /\ f[i] # g[i] /\ i \in Nat /\ i \in 0 .. m + n
    BY <1>1, <2>3
  <2>5. CASE i = 0
    BY <1>5, <2>4, <2>5 DEF Keep
  <2>6. CASE i # 0
    <3>1. i - 1 \in 0 .. m /\ ~(i <= i - 1) /\ i \in 1 .. m + n /\ i <= m
      BY <1>1, <2>4, <2>6
    <3>2. f[i - 1] = g[i - 1]
      BY <2>3, <3>1
    <3>3. s[i] = X[i]
      BY <1>1, <3>1
    <3>4. QED  BY <1>5, <2>4, <3>2, <3>3 DEF Keep
  <2>7. QED  BY <2>5, <2>6
<1>7. \A i \in 0 .. n : h[i] \in Seq(T)
  <2> DEFINE Bad == {i \in 0 .. n : h[i] \notin Seq(T)}
  <2>1. SUFFICES ASSUME Bad # {} PROVE FALSE
    OBVIOUS
  <2>2. Bad \subseteq Nat
    BY <1>1
  <2>3. PICK i \in Bad : \A k \in Bad : i <= k
    <3> HIDE DEF Bad
    <3>1. QED  BY <2>1, <2>2, LeastNat
  <2>4. i \in 0 .. n /\ h[i] \notin Seq(T) /\ i \in Nat
    BY <1>1, <2>3
  <2>5. CASE i = 0
    <3>1. h[i] = <<>> /\ <<>> \in Seq(T)
      BY <1>5, <2>4, <2>5 DEF Keep
    <3>2. QED  BY <2>4, <3>1
  <2>6. CASE i # 0
    <3>1. i - 1 \in 0 .. n /\ ~(i <= i - 1) /\ i \in 1 .. n
      BY <1>1, <2>4, <2>6
    <3>2. h[i - 1] \in Seq(T) /\ Y[i] \in T
      BY <1>1, <2>3, <3>1
    <3>3. h[i] = h[i - 1] \/ h[i] = Append(h[i - 1], Y[i])
      BY <1>5, <2>4, <2>6 DEF Keep
    <3>4. Append(h[i - 1], Y[i]) \in Seq(T)
      BY <3>2
    <3>5. QED  BY <2>4, <3>2, <3>3, <3>4
  <2>7. QED  BY <2>5, <2>6
<1>8. g[m] \in Seq(T)
  BY <1>3, WithoutIs
<1>9. \A i \in 0 .. n : f[m + i] = g[m] \o h[i]
  <2> DEFINE Good(i) == f[m + i] = g[m] \o h[i]
             Bad == {i \in 0 .. n : ~Good(i)}
  <2> HIDE DEF Good
  <2>1. SUFFICES ASSUME Bad # {} PROVE FALSE
    BY DEF Good
  <2>2. Bad \subseteq Nat
    BY <1>1
  <2>3. PICK i \in Bad : \A k \in Bad : i <= k
    <3> HIDE DEF Bad
    <3>1. QED  BY <2>1, <2>2, LeastNat
  <2>4. i \in 0 .. n /\ ~Good(i) /\ i \in Nat
    BY <1>1, <2>3
  <2>5. CASE i = 0
    <3>1. h[i] = <<>> /\ m + i = m /\ m \in 0 .. m
      BY <1>1, <1>5, <2>4, <2>5 DEF Keep
    <3>2. g[m] \o <<>> = g[m]
      BY <1>8, ConcatEmptySeq
    <3>3. QED  BY <1>6, <2>4, <3>1, <3>2 DEF Good
  <2>6. CASE i # 0
    <3>1. /\ i - 1 \in 0 .. n /\ ~(i <= i - 1) /\ i \in 1 .. n
          /\ m + i \in 1 .. m + n /\ m + i \in 0 .. m + n /\ m + i # 0 /\ ~(m + i <= m)
          /\ (m + i) - m = i /\ (m + i) - 1 = m + (i - 1)
      BY <1>1, <2>4, <2>6
    <3>2. f[m + (i - 1)] = g[m] \o h[i - 1]
      BY <2>3, <3>1 DEF Good
    <3>3. s[m + i] = Y[i] /\ Y[i] \in T
      BY <1>1, <3>1
    <3>4. f[m + i] = IF Y[i] \in S THEN g[m] \o h[i - 1] ELSE Append(g[m] \o h[i - 1], Y[i])
      BY <1>5, <3>1, <3>2, <3>3 DEF Keep
    <3>5. h[i] = IF Y[i] \in S THEN h[i - 1] ELSE Append(h[i - 1], Y[i])
      BY <1>5, <2>4, <2>6 DEF Keep
    <3>6. \A u, v \in Seq(T), y \in T : u \o Append(v, y) = Append(u \o v, y)
      BY AppendJoined
    <3>7. h[i - 1] \in Seq(T)
      BY <1>7, <3>1
    <3>8. f[m + i] = g[m] \o h[i]
      <4>1. CASE Y[i] \in S
        BY <3>4, <3>5, <4>1
      <4>2. CASE Y[i] \notin S
        <5>1. Append(g[m] \o h[i - 1], Y[i]) = g[m] \o Append(h[i - 1], Y[i])
          BY <1>8, <3>3, <3>6, <3>7
        <5>2. QED  BY <3>4, <3>5, <4>2, <5>1
      <4>3. QED  BY <4>1, <4>2
    <3>9. QED  BY <2>4, <3>8 DEF Good
  <2>7. QED  BY <2>5, <2>6
<1>10. n \in 0 .. n
  BY <1>1
<1>11. Without(s, S) = Without(X, S) \o Without(Y, S)
  BY <1>2, <1>3, <1>4, <1>9, <1>10
<1>12. QED  BY <1>11 DEF s

\* Removal of what is not in the list.
LEMMA WithoutNone ==
    ASSUME NEW T, NEW s \in Seq(T), NEW S, \A i \in 1 .. Len(s) : s[i] \notin S
    PROVE  Without(s, S) = s
<1> DEFINE n == Len(s)
<1>1. n \in Nat /\ \A i \in 1 .. n : s[i] \in T
  OBVIOUS
<1>2. PICK f : IsKept(f, s, S, n) /\ Without(s, S) = f[n]
  BY <1>1, WithoutDef
<1>3. \A i \in 0 .. n : f[i] = Keep(f, s, S, i)
  BY <1>1, <1>2 DEF IsKept
<1>4. \A i \in 0 .. n : f[i] = SubSeq(s, 1, i)
  <2> DEFINE Bad == {i \in 0 .. n : f[i] # SubSeq(s, 1, i)}
  <2>1. SUFFICES ASSUME Bad # {} PROVE FALSE
    OBVIOUS
  <2>2. Bad \subseteq Nat
    BY <1>1
  <2>3. PICK i \in Bad : \A k \in Bad : i <= k
    <3> HIDE DEF Bad
    <3>1. QED  BY <2>1, <2>2, LeastNat
  <2>4. i \in 0 .. n /\ f[i] # SubSeq(s, 1, i) /\ i \in Nat
    BY <1>1, <2>3
  <2>5. CASE i = 0
    <3>1. SubSeq(s, 1, 0) = <<>>
      BY SubSeqEmpty
    <3>2. QED  BY <1>3, <2>4, <2>5, <3>1 DEF Keep
  <2>6. CASE i # 0
    <3>1. i - 1 \in 0 .. n /\ ~(i <= i - 1) /\ i \in 1 .. n /\ 1 \in 1 .. n /\ i \in 1 .. Len(s)
      BY <1>1, <2>4, <2>6
    <3>2. f[i - 1] = SubSeq(s, 1, i - 1)
      BY <2>3, <3>1
    <3>3. f[i] = Append(SubSeq(s, 1, i - 1), s[i])
      BY <1>3, <2>4, <2>6, <3>1, <3>2 DEF Keep
    <3>4. SubSeq(s, 1, i - 1) \in Seq(T)
      <4>1. \A k \in 1 .. i - 1 : s[k] \in T
        BY <1>1, <3>1
      <4>2. QED  BY <2>4, <4>1, SubSeqProperties
    <3>5. Append(SubSeq(s, 1, i - 1), s[i]) = SubSeq(s, 1, i - 1) \o <<s[i]>>
      BY <1>1, <3>1, <3>4, AppendIsConcat
    <3>6. SubSeq(s, 1, i) = SubSeq(s, 1, i - 1) \o <<s[i]>>
      BY <3>1, SubSeqRecursiveSecond
    <3>7. QED  BY <2>4, <3>3, <3>5, <3>6
  <2>7. QED  BY <2>5, <2>6
<1>5. n \in 0 .. n /\ SubSeq(s, 1, n) = s
  BY <1>1, SubSeqFull
<1>6. QED  BY <1>2, <1>4, <1>5

\* No element is in the list twice.
Distinct(s) == \A i, j \in 1 .. Len(s) : s[i] = s[j] => i = j

\* s is X and Y with o between them, and without o it is X and Y.
IsCut(s, X, o, Y) == s = X \o <<o>> \o Y /\ Without(s, {o}) = X \o Y

\* Removal of the one element between two lists.
LEMMA WithoutOne ==
    ASSUME NEW T, NEW s \in Seq(T), Distinct(s), NEW k \in 1 .. Len(s)
    PROVE  \E X, Y \in Seq(T) : IsCut(s, X, s[k], Y)
<1> DEFINE S == {s[k]}
           n == Len(s)
<1>1. PICK X \in Seq(T), Y \in Seq(T) : /\ s = X \o <<s[k]>> \o Y
                                        /\ X = SubSeq(s, 1, k - 1) /\ Y = SubSeq(s, k + 1, n)
  BY CutAtElement
<1>2. /\ n \in Nat /\ k \in Nat /\ k <= n /\ 1 <= k
      /\ \A i \in 1 .. n : s[i] \in T
  OBVIOUS
<1>3. \A i \in 1 .. Len(X) : X[i] \notin S
  <2>1. Len(X) = (IF 1 <= k - 1 THEN (k - 1) - 1 + 1 ELSE 0)
        /\ \A i \in 1 .. (k - 1) - 1 + 1 : X[i] = s[1 + i - 1]
    <3>1. \A i \in 1 .. k - 1 : s[i] \in T
      BY <1>2
    <3>2. k - 1 \in Int
      BY <1>2
    <3>3. QED  BY <1>1, <3>1, <3>2, SubSeqProperties
  <2>2. TAKE i \in 1 .. Len(X)
  <2>3. i \in 1 .. n /\ i # k /\ X[i] = s[i]
    BY <1>2, <2>1
  <2>4. QED  BY <2>3 DEF Distinct
<1>4. \A i \in 1 .. Len(Y) : Y[i] \notin S
  <2>1. Len(Y) = (IF k + 1 <= n THEN n - (k + 1) + 1 ELSE 0)
        /\ \A i \in 1 .. n - (k + 1) + 1 : Y[i] = s[(k + 1) + i - 1]
    <3>1. \A i \in k + 1 .. n : s[i] \in T
      BY <1>2
    <3>2. PICK m \in Int : m = k + 1
      BY <1>2
    <3> HIDE DEF n
    <3>3. n \in Int /\ Y = SubSeq(s, m, n) /\ \A i \in m .. n : s[i] \in T
      <4>1. n \in Int /\ Y = SubSeq(s, k + 1, n)
        BY <1>1, <1>2
      <4>2. QED  BY <3>1, <3>2, <4>1
    <3>4. Len(Y) = (IF m <= n THEN n - m + 1 ELSE 0)
          /\ \A i \in 1 .. n - m + 1 : Y[i] = s[m + i - 1]
      BY <3>3, SubSeqProperties
    <3>5. QED  BY <3>2, <3>4
  <2>2. TAKE i \in 1 .. Len(Y)
  <2>3. k + i \in 1 .. n /\ k + i # k /\ Y[i] = s[k + i]
    BY <1>2, <2>1
  <2>4. QED  BY <2>3 DEF Distinct
<1>5. Without(X, S) = X /\ Without(Y, S) = Y
  BY <1>3, <1>4, WithoutNone
<1> DEFINE e == <<s[k]>>
<1>6. e \in Seq(T) /\ Len(e) = 1 /\ e[1] = s[k]
  BY <1>2
<1>7. Without(e, S) = <<>>
  <2>1. Without(e, S) \in Seq(T) /\ IsPartOf(Without(e, S), e, S, Len(e))
    BY <1>6, WithoutIs
  <2>2. Len(Without(e, S)) < 1
    <3>1. \E i \in 1 .. Len(e) : e[i] \in S
      BY <1>6
    <3>2. QED  BY <1>6, <2>1, <3>1 DEF IsPartOf
  <2>3. Len(Without(e, S)) = 0
    BY <2>1, <2>2
  <2>4. QED  BY <2>1, <2>3, EmptySeq
<1>8. X \o e \in Seq(T) /\ s = (X \o e) \o Y
  BY <1>1, <1>6, ConcatProperties
<1> HIDE DEF e, S
<1>9. Without(X \o e, S) = X
  <2>1. Without(X \o e, S) = Without(X, S) \o Without(e, S)
    BY <1>6, WithoutJoined
  <2>2. QED  BY <1>5, <1>7, <2>1, ConcatEmptySeq
<1>10. Without(s, S) = X \o Y
  <2>1. \A G \in Seq(T) : Without(G \o Y, S) = Without(G, S) \o Without(Y, S)
    BY WithoutJoined
  <2>2. Without((X \o e) \o Y, S) = Without(X \o e, S) \o Without(Y, S)
    BY <1>8, <2>1
  <2>3. QED  BY <1>5, <1>8, <1>9, <2>2
<1>11. QED  BY <1>1, <1>10 DEF S, IsCut

-----------------------------------------------------------------------------
(* The tiers implement a ranked cache *)

\* The tiers are lists of objects, and so is the ranking.
LEMMA RankingSeq ==
    ASSUME LInv
    PROVE  /\ \A i \in 0 .. 3 : tiers[i] \in Seq(Objects)
           /\ tiers[0] \o tiers[1] \in Seq(Objects)
           /\ tiers[0] \o tiers[1] \o tiers[2] \in Seq(Objects)
           /\ Ranking \in Seq(Objects)
           /\ ToSet(Ranking) = Cached
<1>1. \A i \in 0 .. 3 : tiers[i] \in Seq(Objects)
  BY TierAt, TierFacts DEF Holds
<1>2. tiers[0] \o tiers[1] \in Seq(Objects)
  BY <1>1, ConcatProperties
<1>3. tiers[0] \o tiers[1] \o tiers[2] \in Seq(Objects)
  BY <1>1, <1>2, ConcatProperties
<1>4. Holds(Ranking, Cached)
  BY RankingHolds
<1>5. QED  BY <1>1, <1>2, <1>3, <1>4, HoldsToSet DEF Holds

\* The operators of RankedCache are those used here.
LEMMA RankedOperators ==
    /\ \A s, k, o : Ranked!InsertAt(s, k, o) = InsertAt(s, k, o)
    /\ \A s, k : Ranked!RemoveAt(s, k) = RemoveAt(s, k)
    /\ \A s : Ranked!Front(s) = Front(s) /\ Ranked!ToSet(s) = ToSet(s)
    /\ \A s, S : Ranked!Drop(s, S) = Without(s, S)
    /\ Ranked!Ranked = ToSet(Ranking)
<1>1. \A s, k, o : Ranked!InsertAt(s, k, o) = InsertAt(s, k, o)
  BY DEF Ranked!InsertAt, InsertAt
<1>2. \A s, k : Ranked!RemoveAt(s, k) = RemoveAt(s, k)
  BY DEF Ranked!RemoveAt, RemoveAt
<1>3. \A s : Ranked!Front(s) = Front(s) /\ Ranked!ToSet(s) = ToSet(s)
  BY DEF Ranked!Front, Front, Ranked!ToSet, ToSet
<1>4. \A s, S : Ranked!Drop(s, S) = Without(s, S)
  BY DEF Ranked!Drop, Without
<1>5. Ranked!Ranked = ToSet(Ranking)
  BY <1>3 DEF Ranked!Ranked
<1>6. QED  BY <1>1, <1>2, <1>3, <1>4, <1>5

\* An object put between two parts of the ranking, which stays as it is.
LEMMA RankedInsert ==
    ASSUME NEW X \in Seq(Objects), NEW Y \in Seq(Objects), NEW o \in Objects,
           o \notin ToSet(Ranking), Ranking = X \o Y, Ranking' = X \o <<o>> \o Y,
           UNCHANGED tierListSize
    PROVE  Ranked!Add(o)
<1>1. Len(X) + 1 \in 1 .. Len(Ranking) + 1
  BY CutAtJoint
<1>2. Ranking' = InsertAt(Ranking, Len(X) + 1, o)
  BY InsertAtJoint
<1>3. QED  BY <1>1, <1>2, RankedOperators DEF Ranked!Add

\* The same when the worst ranked object makes room.
LEMMA RankedEvict ==
    ASSUME NEW X \in Seq(Objects), NEW Y \in Seq(Objects), NEW o \in Objects, Y # <<>>,
           o \notin ToSet(Ranking), Ranking = X \o Y, Ranking' = X \o <<o>> \o Front(Y),
           Len(Ranking) >= cacheTiers * tierListSize, UNCHANGED tierListSize
    PROVE  Ranked!Add(o)
<1>1. Front(Ranking) = X \o Front(Y) /\ Front(Y) \in Seq(Objects)
  BY FrontOfJoined
<1>2. Len(X) + 1 \in 1 .. Len(Ranking) /\ Ranking # <<>>
  <2>1. Len(Ranking) = Len(X) + Len(Y) /\ Len(X) \in Nat /\ Len(Y) \in Nat /\ Len(Y) >= 1
    BY CutAtJoint
  <2>2. QED  BY <2>1
<1>3. Ranking' = InsertAt(Front(Ranking), Len(X) + 1, o)
  <2>1. InsertAt(X \o Front(Y), Len(X) + 1, o) = X \o <<o>> \o Front(Y)
    BY <1>1, InsertAtJoint
  <2>2. QED  BY <1>1, <2>1
<1>4. QED  BY <1>2, <1>3, RankedOperators DEF Ranked!Add

\* An object that moves up past a part of the ranking.
LEMMA RankedMove ==
    ASSUME NEW P \in Seq(Objects), NEW M \in Seq(Objects), NEW S \in Seq(Objects),
           NEW o \in Objects, Ranking = P \o M \o <<o>> \o S, Ranking' = P \o <<o>> \o (M \o S),
           UNCHANGED tierListSize
    PROVE  Ranked!Promote(o)
<1> DEFINE X == P \o M
           k == Len(X) + 1
           j == Len(P) + 1
           e == <<o>>
<1>1. /\ X \in Seq(Objects) /\ Len(X) = Len(P) + Len(M) /\ Len(P) \in Nat /\ Len(M) \in Nat
      /\ e \in Seq(Objects) /\ X \o e \in Seq(Objects) /\ Len(X \o e) = k
      /\ M \o S \in Seq(Objects)
  <2>1. X \in Seq(Objects) /\ e \in Seq(Objects) /\ Len(e) = 1
    BY ConcatProperties
  <2>2. QED  BY <2>1, ConcatProperties
<1>2. j \in 1 .. k /\ k \in 1 .. Len(Ranking)
  <2>1. Len((X \o e) \o S) = Len(X \o e) + Len(S)
    BY <1>1, ConcatProperties
  <2>2. Len(S) \in Nat
    OBVIOUS
  <2> HIDE DEF X, e
  <2>3. QED  BY <1>1, <2>1, <2>2 DEF X, e
<1>3. Ranking[k] = o
  <2>1. (X \o e)[k] = o
    BY <1>1
  <2>2. k <= Len(X \o e) /\ k \in 1 .. Len(X \o e) + Len(S)
    BY <1>1
  <2> HIDE DEF X, e
  <2>3. ((X \o e) \o S)[k] = (X \o e)[k]
    BY <1>1, <2>2, ConcatProperties
  <2>4. QED  BY <2>1, <2>3 DEF X, e
<1>4. RemoveAt(Ranking, k) = X \o S
  BY <1>1, RemoveAtJoint
<1>5. X \o S = P \o (M \o S)
  BY ConcatAssociative
<1>6. Ranking' = InsertAt(P \o (M \o S), j, o)
  BY <1>1, InsertAtJoint
<1>7. Ranking' = InsertAt(RemoveAt(Ranking, k), j, o)
  BY <1>4, <1>5, <1>6
<1> HIDE DEF k, j
<1>8. QED  BY <1>2, <1>3, <1>7, RankedOperators DEF Ranked!Promote

\* PushFront to the last list.
LEMMA PushedRanking ==
    ASSUME NEW ts, NEW lk, NEW o \in Objects, PushNew(o, ts, lk), ts = [i \in Tiers |-> ts[i]],
           ts[0] \o ts[1] \o ts[2] \in Seq(Objects), ts[3] \in Seq(Objects)
    PROVE  Ranking' = (ts[0] \o ts[1] \o ts[2]) \o <<o>> \o ts[3]
<1>1. /\ tiers'[0] = ts[0] /\ tiers'[1] = ts[1] /\ tiers'[2] = ts[2]
      /\ tiers'[3] = <<o>> \o ts[3]
  BY TierFacts DEF PushNew
<1>2. Ranking' = (ts[0] \o ts[1] \o ts[2]) \o (<<o>> \o ts[3])
  BY <1>1 DEF Ranking
<1>3. \A X, Y, Z \in Seq(Objects) : (X \o Y) \o Z = X \o (Y \o Z)
  BY ConcatAssociative
<1>4. <<o>> \in Seq(Objects)
  OBVIOUS
<1> DEFINE X == ts[0] \o ts[1] \o ts[2]
           e == <<o>>
<1> HIDE DEF X, e
<1>5. X \in Seq(Objects) /\ e \in Seq(Objects)
  BY <1>4 DEF X, e
<1>6. X \o (e \o ts[3]) = (X \o e) \o ts[3]
  BY <1>3, <1>5
<1>7. QED  BY <1>2, <1>6 DEF X, e

\* all is what three lists hold together once the head of the fourth has gone up,
\* whichever of them the heads go up to.
IsPushedUp(all, a, b, c, d) ==
    /\ all \o Tail(d) = ((a \o b) \o c) \o d
    /\ (a \o b) \o Append(c, Head(d)) = all
    /\ c # <<>> => (a \o Append(b, Head(c))) \o Tail(Append(c, Head(d))) = all
    /\ b # <<>> /\ c # <<>> =>
         (Append(a, Head(b)) \o Tail(Append(b, Head(c)))) \o Tail(Append(c, Head(d))) = all

\* Heads that go up through four lists.
LEMMA HeadsPushedUp ==
    ASSUME NEW T, NEW a \in Seq(T), NEW b \in Seq(T), NEW c \in Seq(T), NEW d \in Seq(T),
           d # <<>>
    PROVE  \E all \in Seq(T) : Tail(d) \in Seq(T) /\ IsPushedUp(all, a, b, c, d)
<1> DEFINE ab  == a \o b
           abc == ab \o c
<1>1. ab \in Seq(T)
  BY ConcatProperties
<1> HIDE DEF ab
<1>2. abc \in Seq(T) /\ Head(d) \in T /\ Tail(d) \in Seq(T)
  BY <1>1, ConcatProperties, HeadTailProperties
<1> HIDE DEF abc
<1>3. Append(abc, Head(d)) \in Seq(T)
  BY <1>2
<1>4. Append(abc, Head(d)) \o Tail(d) = abc \o d
  BY <1>2, HeadPushedUp
<1>5. ab \o Append(c, Head(d)) = Append(abc, Head(d))
  BY <1>1, <1>2, AppendJoined DEF abc
<1>6. ASSUME c # <<>>
      PROVE  /\ Append(ab, Head(c)) \o Tail(Append(c, Head(d))) = Append(abc, Head(d))
             /\ a \o Append(b, Head(c)) = Append(ab, Head(c))
             /\ b # <<>> => Append(a, Head(b)) \o Tail(Append(b, Head(c))) = Append(ab, Head(c))
  <2>1. Head(c) \in T
    BY <1>6, HeadTailProperties
  <2>2. Append(ab, Head(c)) \o Tail(Append(c, Head(d))) = Append(abc, Head(d))
    BY <1>1, <1>2, <1>6, HeadPushedOn DEF abc
  <2>3. a \o Append(b, Head(c)) = Append(ab, Head(c))
    BY <2>1, AppendJoined DEF ab
  <2>4. b # <<>> => Append(a, Head(b)) \o Tail(Append(b, Head(c))) = Append(ab, Head(c))
    BY <2>1, HeadPushedOn DEF ab
  <2>5. QED  BY <2>2, <2>3, <2>4
<1>7. WITNESS Append(abc, Head(d)) \in Seq(T)
<1>8. QED  BY <1>2, <1>3, <1>4, <1>5, <1>6 DEF ab, abc, IsPushedUp

\* freeSpaceInLastList moves objects between tiers without reordering them.
LEMMA CascadeRanking ==
    ASSUME LInv, LastIsFull, NEW f \in FreeLists, \A i \in FreeLists : i <= f
    PROVE  LET us == Cascade(f) IN
           /\ us = [i \in Tiers |-> us[i]]
           /\ us[0] \o us[1] \o us[2] \in Seq(Objects) /\ us[3] \in Seq(Objects)
           /\ Ranking = (us[0] \o us[1] \o us[2]) \o us[3]
<1> DEFINE us == Cascade(f)
<1>1. PICK a \in Seq(Objects), b \in Seq(Objects), c \in Seq(Objects), d \in Seq(Objects) :
           tiers[0] = a /\ tiers[1] = b /\ tiers[2] = c /\ tiers[3] = d
  BY RankingSeq
<1>2. f \in {0, 1, 2} /\ tierListSize \in Nat /\ Len(tiers[f]) < tierListSize
  BY TierFacts DEF FreeLists, HasRoom, LInv
<1>3. d # <<>>
  BY <1>1, TierFacts DEF LastIsFull
<1>4. c # <<>> \/ f = 2
  <2>1. 2 \in FreeLists \/ ~(Len(c) < tierListSize)
    BY <1>1, TierFacts DEF FreeLists, HasRoom
  <2>2. f = 2 \/ 2 \notin FreeLists
    BY <1>2
  <2>3. tierListSize > 0
    BY <1>1, <1>2
  <2>4. QED  BY <2>1, <2>2, <2>3
<1>5. b # <<>> \/ f = 1 \/ f = 2
  <2>1. 1 \in FreeLists \/ ~(Len(b) < tierListSize)
    BY <1>1, TierFacts DEF FreeLists, HasRoom
  <2>2. f = 1 \/ f = 2 \/ 1 \notin FreeLists
    BY <1>2
  <2>3. tierListSize > 0
    BY <1>1, <1>2
  <2>4. QED  BY <2>1, <2>2, <2>3
<1>6. /\ us = [i \in Tiers |-> us[i]] /\ us[3] = Tail(d)
      /\ f = 2 => us[0] = a /\ us[1] = b /\ us[2] = Append(c, Head(d))
      /\ f = 1 => us[0] = a /\ us[1] = Append(b, Head(c)) /\ us[2] = Tail(Append(c, Head(d)))
      /\ f = 0 => /\ us[0] = Append(a, Head(b)) /\ us[1] = Tail(Append(b, Head(c)))
                  /\ us[2] = Tail(Append(c, Head(d)))
  <2> DEFINE u(i) == IF i < f THEN tiers[i]
                     ELSE IF i = f THEN Append(tiers[i], Head(tiers[i + 1]))
                     ELSE IF i < 3 THEN Tail(Append(tiers[i], Head(tiers[i + 1])))
                     ELSE Tail(tiers[i])
  <2>1. us = [i \in Tiers |-> u(i)]
    BY TierFacts DEF Cascade, PushedUp
  <2>2. us[0] = u(0) /\ us[1] = u(1) /\ us[2] = u(2) /\ us[3] = u(3) /\ us = [i \in Tiers |-> us[i]]
    <3> HIDE DEF u, us
    <3>1. QED  BY <2>1, TierFacts
  <2> HIDE DEF us
  <2>3. u(3) = Tail(d)
    BY <1>1, <1>2
  <2>4. f = 2 => u(0) = a /\ u(1) = b /\ u(2) = Append(c, Head(d))
    BY <1>1
  <2>5. f = 1 => u(0) = a /\ u(1) = Append(b, Head(c)) /\ u(2) = Tail(Append(c, Head(d)))
    BY <1>1
  <2>6. f = 0 => /\ u(0) = Append(a, Head(b)) /\ u(1) = Tail(Append(b, Head(c)))
                 /\ u(2) = Tail(Append(c, Head(d)))
    BY <1>1
  <2> HIDE DEF u
  <2>7. QED  BY <2>2, <2>3, <2>4, <2>5, <2>6
<1> HIDE DEF us
<1>7. PICK all \in Seq(Objects) :
           Tail(d) \in Seq(Objects) /\ IsPushedUp(all, a, b, c, d)
  BY <1>3, HeadsPushedUp
<1>8. us[0] \o us[1] \o us[2] = all
  <2>1. CASE f = 2
    BY <1>6, <1>7, <2>1 DEF IsPushedUp
  <2>2. CASE f = 1
    BY <1>4, <1>6, <1>7, <2>2 DEF IsPushedUp
  <2>3. CASE f = 0
    BY <1>4, <1>5, <1>6, <1>7, <2>3 DEF IsPushedUp
  <2>4. QED  BY <1>2, <2>1, <2>2, <2>3
<1>9. Ranking = ((a \o b) \o c) \o d
  BY <1>1 DEF Ranking
<1>10. QED  BY <1>6, <1>7, <1>8, <1>9 DEF us, IsPushedUp

\* AddObject ranks a new object, and evicts only the worst one of a full cache.
LEMMA InsertRanked ==
    ASSUME LInv, NEW o \in Objects, lookup[o] = Absent, NEW saved, Insert(o, saved),
           UNCHANGED tierListSize
    PROVE  Ranked!Add(o)
<1> DEFINE X == tiers[0] \o tiers[1] \o tiers[2]
<1>1. /\ X \in Seq(Objects) /\ tiers[3] \in Seq(Objects) /\ Ranking = X \o tiers[3]
      /\ o \notin ToSet(Ranking) /\ tiers = [i \in Tiers |-> tiers[i]]
  BY RankingSeq, TierAt DEF Ranking, Cached
<1>2. CASE ~LastIsFull
  <2>1. PushNew(o, tiers, lookup)
    BY <1>2 DEF Insert
  <2>2. Ranking' = X \o <<o>> \o tiers[3]
    BY <1>1, <2>1, PushedRanking
  <2>3. QED  BY <1>1, <2>2, RankedInsert
<1>3. CASE LastIsFull /\ FreeLists # {}
  <2>1. PICK f \in FreeLists : f = Max(FreeLists) /\ \A i \in FreeLists : i <= f
    BY <1>3, LastFree
  <2>2. PushNew(o, Cascade(f), CascadeLookup(f))
    BY <1>3, <2>1 DEF Insert
  <2> DEFINE us == Cascade(f)
             U  == us[0] \o us[1] \o us[2]
  <2>3. us = [i \in Tiers |-> us[i]] /\ U \in Seq(Objects) /\ us[3] \in Seq(Objects)
        /\ Ranking = U \o us[3]
    BY <1>3, <2>1, CascadeRanking
  <2> HIDE DEF us
  <2>4. Ranking' = U \o <<o>> \o us[3]
    BY <2>2, <2>3, PushedRanking DEF us
  <2>5. QED  BY <1>1, <2>3, <2>4, RankedInsert
<1>4. CASE LastIsFull /\ FreeLists = {}
  <2> DEFINE victim == Last(tiers[LastTier])
             us     == [tiers EXCEPT ![LastTier] = Front(@)]
  <2>1. PushNew(o, us, [lookup EXCEPT ![victim] = Absent])
    BY <1>4 DEF Insert
  <2>2. /\ tiers[3] # <<>> /\ Len(tiers[3]) >= tierListSize
        /\ \A i \in 0 .. 2 : ~(Len(tiers[i]) < tierListSize)
    BY <1>4, TierFacts DEF LastIsFull, FreeLists, HasRoom
  <2>3. /\ us = [i \in Tiers |-> us[i]] /\ us[3] = Front(tiers[3])
        /\ us[0] = tiers[0] /\ us[1] = tiers[1] /\ us[2] = tiers[2]
    <3>1. us = [i \in Tiers |-> IF i = 3 THEN Front(tiers[i]) ELSE tiers[i]]
      BY <1>1, TierFacts
    <3> HIDE DEF us
    <3>2. QED  BY <3>1, TierFacts
  <2>4. Front(tiers[3]) \in Seq(Objects)
    BY <1>1, <2>2, FrontOfJoined
  <2>5. Len(Ranking) >= cacheTiers * tierListSize
    <3>1. /\ Len(Ranking) = Len(tiers[0]) + Len(tiers[1]) + Len(tiers[2]) + Len(tiers[3])
          /\ \A i \in 0 .. 3 : Len(tiers[i]) \in Nat
          /\ tierListSize \in Nat
      BY RankingHolds, TierAt, TierFacts DEF LInv
    <3>2. PICK n0 \in Nat, n1 \in Nat, n2 \in Nat, n3 \in Nat :
             /\ Len(tiers[0]) = n0 /\ Len(tiers[1]) = n1
             /\ Len(tiers[2]) = n2 /\ Len(tiers[3]) = n3
      BY <3>1
    <3>3. /\ n0 >= tierListSize /\ n1 >= tierListSize
          /\ n2 >= tierListSize /\ n3 >= tierListSize
      BY <2>2, <3>1, <3>2
    <3>4. Len(Ranking) = n0 + n1 + n2 + n3
      BY <3>1, <3>2
    <3>5. n0 + n1 + n2 + n3 >= 4 * tierListSize
      BY <3>1, <3>3
    <3>6. QED  BY <3>4, <3>5 DEF cacheTiers
  <2> HIDE DEF us
  <2>6. Ranking' = X \o <<o>> \o Front(tiers[3])
    BY <1>1, <2>1, <2>3, <2>4, PushedRanking
  <2>7. QED  BY <1>1, <2>2, <2>5, <2>6, RankedEvict
<1>5. QED  BY <1>2, <1>3, <1>4

\* Remove takes the objects out of the ranking.
LEMMA RemoveRanked ==
    ASSUME LInv, NEW S, RemoveObjects(S)
    PROVE  Ranked!RemoveObjects(S)
<1> DEFINE t(i) == tiers[i]
           w(i) == Without(tiers[i], S)
<1>1. /\ t(0) \in Seq(Objects) /\ t(1) \in Seq(Objects)
      /\ t(2) \in Seq(Objects) /\ t(3) \in Seq(Objects)
      /\ t(0) \o t(1) \in Seq(Objects) /\ (t(0) \o t(1)) \o t(2) \in Seq(Objects)
  BY RankingSeq
<1>2. /\ Ranking = ((t(0) \o t(1)) \o t(2)) \o t(3)
      /\ Ranking' = ((w(0) \o w(1)) \o w(2)) \o w(3)
  <2>1. tiers'[0] = w(0) /\ tiers'[1] = w(1) /\ tiers'[2] = w(2) /\ tiers'[3] = w(3)
    BY TierFacts DEF RemoveObjects
  <2>2. QED  BY <2>1 DEF Ranking
<1>3. \A X, Y \in Seq(Objects) : Without(X \o Y, S) = Without(X, S) \o Without(Y, S)
  BY WithoutJoined
<1>4. Ranking' = Without(Ranking, S)
  <2>1. w(0) \o w(1) = Without(t(0) \o t(1), S)
    BY <1>1, <1>3
  <2>2. Without(t(0) \o t(1), S) \o w(2) = Without((t(0) \o t(1)) \o t(2), S)
    BY <1>1, <1>3
  <2>3. Without((t(0) \o t(1)) \o t(2), S) \o w(3) = Without(((t(0) \o t(1)) \o t(2)) \o t(3), S)
    BY <1>1, <1>3
  <2>4. QED  BY <1>2, <2>1, <2>2, <2>3
<1>5. UNCHANGED tierListSize
  BY DEF RemoveObjects, config
<1>6. QED  BY <1>4, <1>5, RankedOperators DEF Ranked!RemoveObjects

\* Lists of objects and their concatenation, as an algebra: the proofs below
\* use its laws only, and do not unfold what a list is.
Lists     == Seq(Objects)
Cat(x, y) == x \o y
Single(o) == <<o>>

\* Lists can be joined in any order.
LEMMA Joined ==
    /\ \A x, y \in Lists : Cat(x, y) \in Lists
    /\ \A x, y, z \in Lists : Cat(Cat(x, y), z) = Cat(x, Cat(y, z))
    /\ <<>> \in Lists
    /\ \A x \in Lists : Cat(<<>>, x) = x /\ Cat(x, <<>>) = x
    /\ \A o \in Objects : Single(o) \in Lists
<1>1. \A x, y \in Lists : Cat(x, y) \in Lists
  BY ConcatProperties DEF Lists, Cat
<1>2. \A x, y, z \in Lists : Cat(Cat(x, y), z) = Cat(x, Cat(y, z))
  BY ConcatAssociative DEF Lists, Cat
<1>3. <<>> \in Lists /\ \A x \in Lists : Cat(<<>>, x) = x /\ Cat(x, <<>>) = x
  BY ConcatEmptySeq DEF Lists, Cat
<1>4. \A o \in Objects : Single(o) \in Lists
  BY DEF Lists, Single
<1>5. QED  BY <1>1, <1>2, <1>3, <1>4

\* Four joined lists, joined in another order.
Four(a, b, c, d) == Cat(Cat(Cat(a, b), c), d)

LEMMA FourJoined ==
    \A a, b, c, d : a \in Lists /\ b \in Lists /\ c \in Lists /\ d \in Lists =>
        /\ Four(a, b, c, d) = Cat(a, Cat(Cat(b, c), d))
        /\ Four(a, b, c, d) = Cat(Cat(a, b), Cat(c, d))
BY Joined DEF Four

\* An object that moves to the front of a part of the ranking.
LEMMA RankedToFront ==
    ASSUME NEW P \in Lists, NEW M \in Lists, NEW Y \in Lists, NEW Q \in Lists,
           NEW o \in Objects,
           Ranking  = Cat(P, Cat(Cat(Cat(M, Single(o)), Y), Q)),
           Ranking' = Cat(P, Cat(Cat(Single(o), Cat(M, Y)), Q)),
           UNCHANGED tierListSize
    PROVE  Ranked!Promote(o)
<1> DEFINE e == Single(o)
           S == Cat(Y, Q)
<1>1. e \in Lists /\ S \in Lists
  BY Joined
<1>2. Ranking = Cat(Cat(Cat(P, M), e), S)
  <2>1. Cat(Cat(Cat(M, e), Y), Q) = Cat(M, Cat(e, S))
    BY <1>1, Joined
  <2>2. Cat(P, Cat(M, Cat(e, S))) = Cat(Cat(Cat(P, M), e), S)
    <3> HIDE DEF e, S
    <3>1. QED  BY <1>1, Joined
  <2>3. QED  BY <2>1, <2>2
<1>3. Ranking' = Cat(Cat(P, e), Cat(M, S))
  <2>1. Cat(Cat(e, Cat(M, Y)), Q) = Cat(e, Cat(M, S))
    BY <1>1, Joined
  <2>2. Cat(P, Cat(e, Cat(M, S))) = Cat(Cat(P, e), Cat(M, S))
    <3> HIDE DEF e, S
    <3>1. QED  BY <1>1, Joined
  <2>3. QED  BY <2>1, <2>2
<1> HIDE DEF S
<1>4. Ranking = ((P \o M) \o <<o>>) \o S /\ Ranking' = (P \o <<o>>) \o (M \o S)
  BY <1>2, <1>3 DEF Cat, Single
<1>5. /\ P \in Seq(Objects) /\ M \in Seq(Objects) /\ S \in Seq(Objects)
  BY <1>1 DEF Lists
<1>6. QED  BY <1>4, <1>5, RankedMove

\* Where an object is in the list of its tier.
LEMMA InItsTier ==
    ASSUME LInv, NEW o \in Objects, lookup[o] \in Tiers
    PROVE  \E X, Y \in Seq(Objects) : /\ tiers[lookup[o]] = (X \o <<o>>) \o Y
                                      /\ Without(tiers[lookup[o]], {o}) = X \o Y
<1> DEFINE s == tiers[lookup[o]]
<1>1. Holds(s, Members(lookup, lookup[o])) /\ o \in Members(lookup, lookup[o])
  BY TierAt DEF Members
<1> HIDE DEF s
<1>2. PICK k \in 1 .. Len(s) : s[k] = o
  BY <1>1 DEF Holds
<1>3. s \in Seq(Objects) /\ Distinct(s)
  BY <1>1 DEF Holds, Distinct
<1>4. \E X, Y \in Seq(Objects) : IsCut(s, X, s[k], Y)
  BY <1>3, WithoutOne
<1>5. QED  BY <1>2, <1>4 DEF s, IsCut

\* MoveToFront.
LEMMA TopRanked ==
    ASSUME LInv, NEW o \in Objects, PromoteInTop(o)
    PROVE  Ranked!Promote(o)
<1>1. lookup[o] = 0 /\ UNCHANGED tierListSize
  BY DEF PromoteInTop, config
<1>2. PICK X \in Lists, Y \in Lists :
           tiers[0] = (X \o <<o>>) \o Y /\ Without(tiers[0], {o}) = X \o Y
  BY <1>1, InItsTier, TierFacts DEF Lists
<1>3. PICK b \in Lists, c \in Lists, d \in Lists : tiers[1] = b /\ tiers[2] = c /\ tiers[3] = d
  BY RankingSeq DEF Lists
<1> DEFINE s == Cat(Cat(X, Single(o)), Y)
           t == Cat(Single(o), Cat(X, Y))
           Q == Cat(Cat(b, c), d)
<1>4. tiers'[0] = <<o>> \o (X \o Y) /\ tiers'[1] = b /\ tiers'[2] = c /\ tiers'[3] = d
  <2>1. tiers' = [i \in Tiers |-> IF i = 0 THEN <<o>> \o (X \o Y) ELSE tiers[i]]
    BY <1>2, TierAt DEF PromoteInTop
  <2>2. QED  BY <1>3, <2>1, TierFacts
<1>5. Ranking = Four(s, b, c, d) /\ Ranking' = Four(t, b, c, d)
  BY <1>2, <1>3, <1>4 DEF Ranking, Four, Cat, Single
<1>6. s \in Lists /\ t \in Lists /\ Q \in Lists
  BY Joined
<1> HIDE DEF s, t
<1>7. Ranking = Cat(s, Q) /\ Ranking' = Cat(t, Q)
  BY <1>5, <1>6, FourJoined
<1> HIDE DEF Q
<1>8. Ranking = Cat(<<>>, Cat(s, Q)) /\ Ranking' = Cat(<<>>, Cat(t, Q)) /\ <<>> \in Lists
  BY <1>6, <1>7, Joined
<1>9. QED  BY <1>1, <1>6, <1>8, RankedToFront DEF s, t

\* An object after a list and a part of another, and before them.
Behind(u, X, Y, o)  == Cat(Cat(Cat(u, X), Single(o)), Y)
InFront(u, X, Y, o) == Cat(Single(o), Cat(Cat(u, X), Y))

\* Two adjacent tiers of which the lower one gives an object to the upper one.
LEMMA PairMoved ==
    ASSUME NEW u, NEW X, NEW Y, NEW o,
           u \in Lists /\ X \in Lists /\ Y \in Lists /\ o \in Objects
    PROVE  /\ Cat(u, Cat(Cat(X, Single(o)), Y)) = Behind(u, X, Y, o)
           /\ Cat(Cat(Single(o), u), Cat(X, Y)) = InFront(u, X, Y, o)
           /\ u # <<>> => Cat(Cat(Single(o), Front(u)), Cat(Single(Last(u)), Cat(X, Y)))
                           = InFront(u, X, Y, o)
           /\ Behind(u, X, Y, o) \in Lists /\ InFront(u, X, Y, o) \in Lists
<1> DEFINE e == Single(o)
           M == Cat(u, X)
<1>1. e \in Lists
  BY Joined
<1> HIDE DEF e
<1>2. Cat(u, Cat(Cat(X, e), Y)) = Cat(Cat(M, e), Y)
  BY <1>1, Joined
<1>3. Cat(Cat(e, u), Cat(X, Y)) = Cat(e, Cat(M, Y))
  BY <1>1, Joined
<1>4. ASSUME u # <<>>
      PROVE  Cat(Cat(e, Front(u)), Cat(Single(Last(u)), Cat(X, Y))) = Cat(e, Cat(M, Y))
  <2>1. Front(u) \in Lists /\ Single(Last(u)) \in Lists /\ u = Cat(Front(u), Single(Last(u)))
    BY <1>4, FrontOfJoined, Joined DEF Lists, Cat, Single
  <2>2. PICK F \in Lists, g \in Lists : F = Front(u) /\ g = Single(Last(u))
    BY <2>1
  <2>3. PICK w \in Lists : w = Cat(X, Y)
    BY Joined
  <2>4. Cat(Cat(e, F), Cat(g, w)) = Cat(Cat(e, Cat(F, g)), w)
    BY <1>1, Joined
  <2>5. QED  BY <1>3, <2>1, <2>2, <2>3, <2>4
<1>5. Cat(Cat(M, e), Y) \in Lists /\ Cat(e, Cat(M, Y)) \in Lists
  BY <1>1, Joined
<1>6. QED  BY <1>2, <1>3, <1>4, <1>5 DEF e, Behind, InFront

\* A promotion to the tier above, whether it has room or not.
LEMMA UpRanked ==
    ASSUME LInv, NEW o \in Objects, PromoteIntoRoom(o) \/ PromoteBySwap(o)
    PROVE  Ranked!Promote(o)
<1> DEFINE i == lookup[o]
           u == tiers[i - 1]
<1>1. i \in {1, 2, 3} /\ UNCHANGED tierListSize
  BY TierAt, TierFacts DEF PromoteIntoRoom, PromoteBySwap, config
<1>2. PICK X \in Lists, Y \in Lists :
           tiers[i] = (X \o <<o>>) \o Y /\ Without(tiers[i], {o}) = X \o Y
  BY <1>1, InItsTier, TierFacts DEF Lists
<1>3. PICK a \in Lists, b \in Lists, c \in Lists, d \in Lists :
           tiers[0] = a /\ tiers[1] = b /\ tiers[2] = c /\ tiers[3] = d
  BY RankingSeq DEF Lists
<1>4. u \in Lists
  BY <1>1, <1>3
<1> DEFINE e  == Single(o)
           w  == Cat(X, Y)
           s  == Behind(u, X, Y, o)
           t  == InFront(u, X, Y, o)
           up == <<o>> \o u
           uf == <<o>> \o Front(u)
           dn == <<Last(u)>> \o (X \o Y)
<1>5. /\ i # 1 => tiers'[0] = a
      /\ i = 3 => tiers'[1] = b
      /\ i = 1 => tiers'[2] = c
      /\ i # 3 => tiers'[3] = d
      /\ \/ tiers'[i - 1] = up /\ tiers'[i] = X \o Y
         \/ u # <<>> /\ tiers'[i - 1] = uf /\ tiers'[i] = dn
  <2>1. CASE PromoteIntoRoom(o)
    <3>1. tiers' = [j \in Tiers |-> IF j = i - 1 THEN up ELSE IF j = i THEN X \o Y ELSE tiers[j]]
      BY <1>1, <1>2, <2>1, TierAt DEF PromoteIntoRoom
    <3> HIDE DEF up
    <3>2. QED  BY <1>1, <1>3, <3>1, TierFacts
  <2>2. CASE PromoteBySwap(o)
    <3>1. u # <<>> /\ tiers' = [j \in Tiers |-> IF j = i - 1 THEN uf ELSE IF j = i THEN dn ELSE tiers[j]]
      BY <1>1, <1>2, <2>2, TierAt DEF PromoteBySwap
    <3> HIDE DEF uf, dn
    <3>2. QED  BY <1>1, <1>3, <3>1, TierFacts
  <2>3. QED  BY <2>1, <2>2
<1>6. Cat(tiers[i - 1], tiers[i]) = s
  <2>1. tiers[i] = Cat(Cat(X, e), Y)
    BY <1>2 DEF Cat, Single
  <2>2. QED  BY <1>4, <2>1, PairMoved
<1>7. /\ tiers'[i - 1] \in Lists /\ tiers'[i] \in Lists
      /\ Cat(tiers'[i - 1], tiers'[i]) = t
  <2>1. up = Cat(e, u) /\ uf = Cat(e, Front(u)) /\ dn = Cat(Single(Last(u)), w) /\ X \o Y = w
    BY DEF Cat, Single
  <2> HIDE DEF up, uf, dn
  <2>2. CASE tiers'[i - 1] = up /\ tiers'[i] = X \o Y
    <3>1. Cat(Cat(e, u), w) = t
      BY <1>4, PairMoved
    <3>2. Cat(e, u) \in Lists /\ w \in Lists
      BY <1>4, Joined
    <3>3. QED  BY <2>1, <2>2, <3>1, <3>2
  <2>3. CASE u # <<>> /\ tiers'[i - 1] = uf /\ tiers'[i] = dn
    <3>1. Front(u) \in Lists /\ Last(u) \in Objects
      BY <1>4, <2>3, FrontOfJoined DEF Lists
    <3>2. Cat(Cat(e, Front(u)), Cat(Single(Last(u)), w)) = t
      BY <1>4, <2>3, PairMoved
    <3>3. Cat(e, Front(u)) \in Lists /\ Cat(Single(Last(u)), w) \in Lists
      BY <3>1, Joined
    <3>4. QED  BY <2>1, <2>3, <3>2, <3>3
  <2>4. QED  BY <1>5, <2>2, <2>3
<1>8. s \in Lists /\ t \in Lists
  BY <1>4, PairMoved
<1>9. /\ Ranking = Four(a, b, c, d)
      /\ Ranking' = Four(tiers'[0], tiers'[1], tiers'[2], tiers'[3])
  BY <1>3 DEF Ranking, Four, Cat
<1> HIDE DEF s, t, up, uf, dn, w, u
<1>10. \E P, Q \in Lists : Ranking = Cat(P, Cat(s, Q)) /\ Ranking' = Cat(P, Cat(t, Q))
  <2>1. CASE i = 1
    <3>1. Ranking = Cat(s, Cat(c, d)) /\ Ranking' = Cat(t, Cat(c, d))
      BY <1>3, <1>5, <1>6, <1>7, <1>9, <2>1, FourJoined
    <3>2. Cat(c, d) \in Lists /\ Cat(s, Cat(c, d)) \in Lists /\ Cat(t, Cat(c, d)) \in Lists
      BY <1>8, Joined
    <3>3. QED  BY <3>1, <3>2, Joined
  <2>2. CASE i = 2
    <3>1. Cat(b, c) = s /\ Ranking = Cat(a, Cat(Cat(b, c), d))
      BY <1>3, <1>6, <1>9, <2>2, FourJoined
    <3>2. PICK v \in Lists, z \in Lists :
             tiers'[1] = v /\ tiers'[2] = z /\ tiers'[0] = a /\ tiers'[3] = d /\ Cat(v, z) = t
      <4>1. i - 1 = 1 /\ i # 1 /\ i # 3
        BY <2>2
      <4>2. tiers'[0] = a /\ tiers'[3] = d
        BY <1>5, <4>1
      <4>3. tiers'[1] \in Lists /\ tiers'[2] \in Lists /\ Cat(tiers'[1], tiers'[2]) = t
        BY <1>7, <2>2, <4>1
      <4>4. QED  BY <4>2, <4>3
    <3>3. Ranking' = Cat(a, Cat(Cat(v, z), d))
      BY <1>9, <3>2, FourJoined
    <3>4. QED  BY <3>1, <3>2, <3>3
  <2>3. CASE i = 3
    <3>1. Ranking = Cat(Cat(a, b), s) /\ Ranking' = Cat(Cat(a, b), t)
      BY <1>3, <1>5, <1>6, <1>7, <1>9, <2>3, FourJoined
    <3>2. Cat(a, b) \in Lists /\ Cat(s, <<>>) = s /\ Cat(t, <<>>) = t /\ <<>> \in Lists
      BY <1>8, Joined
    <3>3. QED  BY <3>1, <3>2
  <2>4. QED  BY <1>1, <2>1, <2>2, <2>3
<1>11. PICK P \in Lists, Q \in Lists : Ranking = Cat(P, Cat(s, Q)) /\ Ranking' = Cat(P, Cat(t, Q))
  BY <1>10
<1>12. Cat(u, X) \in Lists
  BY <1>4, Joined
<1>13. QED  BY <1>1, <1>11, <1>12, RankedToFront DEF s, t, Behind, InFront

\* A resize keeps the best ranked objects, within the new capacity.
LEMMA ResizeRanked ==
    ASSUME LInv, NEW n \in Sizes, NEW count, ChangeConfig(n, count)
    PROVE  Ranked!Resize(cacheTiers * TierSize(n))
<1> DEFINE r == TierSize(n)
           e == ResizeEnd(n)
<1>1. /\ n \in Nat /\ r \in Nat /\ tierListSize \in Nat /\ tierListSize' = r
  BY LRUAssumption, TierSizeNat DEF ChangeConfig, LInv
<1>2. /\ e[1] \in Nat /\ e[2] \in Nat /\ e[3] \in Nat /\ e[4] \in Nat
      /\ e[1] <= e[2] /\ e[2] <= e[3] /\ e[3] <= e[4] /\ e[4] <= Len(Ranking)
      /\ e[1] <= r /\ e[2] - e[1] <= r /\ e[3] - e[2] <= r /\ e[4] - e[3] <= r
  BY <1>1, ResizeEnds
<1>3. Ranking \in Seq(Objects) /\ Len(Ranking) \in Nat
  BY RankingSeq
<1>4. CASE tierListSize <= r
  <2>1. Ranking' = Ranking
    <3>1. UNCHANGED tiers
      BY <1>1, <1>4 DEF ChangeConfig
    <3>2. QED  BY <3>1 DEF Ranking
  <2>2. Ranking' = SubSeq(Ranking, 1, Len(Ranking)) /\ Len(Ranking) \in 0 .. Len(Ranking)
    BY <1>3, <2>1, SubSeqFull
  <2>3. ~(cacheTiers * r < cacheTiers * tierListSize)
    BY <1>1, <1>4 DEF cacheTiers
  <2> HIDE DEF r
  <2>4. QED  BY <1>1, <2>2, <2>3 DEF Ranked!Resize, r
<1>5. CASE tierListSize > r
  <2> DEFINE R == Ranking
             a == e[1]
             b == e[2]
             c == e[3]
             d == e[4]
  <2>1. /\ tiers'[0] = SubSeq(R, 0 + 1, a) /\ tiers'[1] = SubSeq(R, a + 1, b)
        /\ tiers'[2] = SubSeq(R, b + 1, c) /\ tiers'[3] = SubSeq(R, c + 1, d)
    <3>1. tiers' = ResizedTiers(n)
      BY <1>1, <1>5 DEF ChangeConfig
    <3>2. ResizedTiers(n) = [i \in Tiers |-> SubSeq(R, (IF i = 0 THEN 0 ELSE e[i]) + 1, e[i + 1])]
      BY DEF ResizedTiers
    <3> DEFINE lo(i) == (IF i = 0 THEN 0 ELSE e[i]) + 1
    <3>3. \A i \in Tiers : tiers'[i] = SubSeq(R, lo(i), e[i + 1])
      <4> HIDE DEF e
      <4>1. QED  BY <3>1, <3>2
    <3>4. /\ tiers'[0] = SubSeq(R, lo(0), e[0 + 1]) /\ tiers'[1] = SubSeq(R, lo(1), e[1 + 1])
          /\ tiers'[2] = SubSeq(R, lo(2), e[2 + 1]) /\ tiers'[3] = SubSeq(R, lo(3), e[3 + 1])
      <4> HIDE DEF lo, e, R
      <4>1. QED  BY <3>3, TierFacts
    <3>5. lo(0) = 0 + 1 /\ lo(1) = a + 1 /\ lo(2) = b + 1 /\ lo(3) = c + 1
      OBVIOUS
    <3>6. 0 + 1 = 1 /\ 1 + 1 = 2 /\ 2 + 1 = 3 /\ 3 + 1 = 4
      OBVIOUS
    <3> HIDE DEF lo, e, R
    <3>7. QED  BY <3>4, <3>5, <3>6
  <2>2. Ranking' = ((SubSeq(R, 1, a) \o SubSeq(R, a + 1, b)) \o SubSeq(R, b + 1, c)) \o SubSeq(R, c + 1, d)
    BY <2>1 DEF Ranking
  <2>3. /\ R \in Seq(Objects) /\ Len(R) \in Nat
        /\ a \in Nat /\ b \in Nat /\ c \in Nat /\ d \in Nat
        /\ a <= b /\ b <= c /\ c <= d /\ d <= Len(R)
    BY <1>2, <1>3
  <2>4. d <= 4 * r
    BY <1>1, <1>2
  <2> HIDE DEF R, a, b, c, d
  <2>5. \A i, j \in Nat : i <= j /\ j <= Len(R) =>
           SubSeq(R, 1, i) \o SubSeq(R, i + 1, j) = SubSeq(R, 1, j)
    <3>1. TAKE i, j \in Nat
    <3>2. HAVE i <= j /\ j <= Len(R)
    <3>3. 1 \in 1 .. Len(R) + 1 /\ i \in 1 - 1 .. Len(R) /\ j \in i .. Len(R)
      BY <2>3, <3>2
    <3>4. QED  BY <2>3, <3>3, ConcatAdjacentSubSeq
  <2>6. Ranking' = SubSeq(R, 1, d)
    <3>1. b <= Len(R) /\ c <= Len(R)
      BY <2>3
    <3>2. SubSeq(R, 1, a) \o SubSeq(R, a + 1, b) = SubSeq(R, 1, b)
      BY <2>3, <2>5, <3>1
    <3>3. SubSeq(R, 1, b) \o SubSeq(R, b + 1, c) = SubSeq(R, 1, c)
      BY <2>3, <2>5, <3>1
    <3>4. SubSeq(R, 1, c) \o SubSeq(R, c + 1, d) = SubSeq(R, 1, d)
      BY <2>3, <2>5
    <3>5. QED  BY <2>2, <3>2, <3>3, <3>4
  <2>7. d \in 0 .. Len(R) /\ d <= cacheTiers * r
    BY <2>3, <2>4 DEF cacheTiers
  <2>8. ~(cacheTiers * r >= cacheTiers * tierListSize)
    BY <1>1, <1>5 DEF cacheTiers
  <2> HIDE DEF r
  <2>9. QED  BY <1>1, <2>6, <2>7, <2>8 DEF Ranked!Resize, R, r
<1>6. QED  BY <1>1, <1>4, <1>5

\* The steps of the tiers that leave the ranking and the capacity alone.
LEMMA Stutters ==
    ASSUME UNCHANGED <<tiers, tierListSize>>
    PROVE  UNCHANGED Ranked!vars
BY DEF Ranked!vars, Ranking

\* The initial state is an empty ranked cache.
LEMMA InitRanked ==
    ASSUME Init
    PROVE  Ranked!Init
<1>1. tiers[0] = <<>> /\ tiers[1] = <<>> /\ tiers[2] = <<>> /\ tiers[3] = <<>>
  BY TierFacts DEF Init
<1>2. <<>> \in Lists /\ Four(<<>>, <<>>, <<>>, <<>>) = <<>>
  BY Joined DEF Four
<1>3. Ranking = Four(tiers[0], tiers[1], tiers[2], tiers[3])
  BY DEF Ranking, Four, Cat
<1>4. Ranking = <<>>
  BY <1>1, <1>2, <1>3
<1>5. cacheTiers * tierListSize \in {cacheTiers * (n \div cacheTiers) : n \in Sizes}
  BY DEF Init, TierSize
<1>6. QED  BY <1>4, <1>5 DEF Ranked!Init

\* Whatever the requests, the evictions, the resizes and the goroutines of
\* throttledRemove do, the four tiers are a ranked cache: lru.go promises
\* that the objects it keeps are the best ranked ones, that only a full
\* cache evicts, and that no promotion or cascade reorders others.
THEOREM LRUImplementsRankedCache == Spec => ImplementsRankedCache
<1>1. Init => Ranked!Init
  BY InitRanked
<1>2. ASSUME IInv, [Next]_vars PROVE [Ranked!Next]_(Ranked!vars)
  <2>1. LInv
    BY <1>2, IInvIs
  <2>2. ASSUME NEW o \in Objects, AddObject(o) PROVE Ranked!Add(o)
    <3>1. UNCHANGED tierListSize
      BY <2>2 DEF AddObject, config
    <3>2. QED  BY <2>1, <2>2, <3>1, InsertRanked DEF AddObject
  <2>3. ASSUME NEW o \in Objects, AddCachedObject(o) PROVE UNCHANGED Ranked!vars
    BY <2>3, Stutters DEF AddCachedObject, config
  <2>4. ASSUME NEW o \in Objects, PromoteObject(o) PROVE Ranked!Promote(o)
    BY <2>1, <2>4, TopRanked, UpRanked DEF PromoteObject
  <2>5. ASSUME NEW o \in Objects, NEW p \in Promoters, PromoteMiss(p, o)
        PROVE  UNCHANGED Ranked!vars
    BY <2>5, Stutters DEF PromoteMiss, config
  <2>6. ASSUME NEW o \in Objects, NEW p \in Promoters, PromoteAdd(p, o)
        PROVE  Ranked!Add(o) \/ UNCHANGED Ranked!vars
    <3>1. UNCHANGED tierListSize
      BY <2>6 DEF PromoteAdd, config
    <3>2. CASE lookup[o] = Absent /\ Insert(o, {})
      BY <2>1, <3>1, <3>2, InsertRanked
    <3>3. CASE UNCHANGED tiers
      BY <3>1, <3>3, Stutters
    <3>4. QED  BY <2>6, <3>2, <3>3 DEF PromoteAdd
  <2>7. ASSUME NEW S \in SUBSET Objects, RemoveObjects(S) PROVE Ranked!RemoveObjects(S)
    BY <2>1, <2>7, RemoveRanked
  <2>8. ASSUME NEW n \in Sizes, NEW count \in BulkCounts, ChangeConfig(n, count)
        PROVE  \E m \in {cacheTiers * (k \div cacheTiers) : k \in Sizes} : Ranked!Resize(m)
    <3>1. Ranked!Resize(cacheTiers * TierSize(n))
      BY <2>1, <2>8, ResizeRanked
    <3>2. QED  BY <3>1 DEF TierSize
  <2>9. ASSUME NEW r \in Removers, RemoveBulk(r) \/ WakeUp(r) PROVE UNCHANGED Ranked!vars
    BY <2>9, Stutters DEF RemoveBulk, WakeUp, config
  <2>10. CASE UNCHANGED vars
    BY <2>10, Stutters DEF vars
  <2>11. CASE Next
    <3>1. \/ \E o \in Objects : Ranked!Add(o) \/ Ranked!Promote(o)
          \/ \E S \in SUBSET Objects : Ranked!RemoveObjects(S)
          \/ \E n \in {cacheTiers * (k \div cacheTiers) : k \in Sizes} : Ranked!Resize(n)
          \/ UNCHANGED Ranked!vars
      BY <2>2, <2>3, <2>4, <2>5, <2>6, <2>7, <2>8, <2>9, <2>11 DEF Next
    <3>2. QED  BY <3>1 DEF Ranked!Next
  <2>12. QED  BY <1>2, <2>10, <2>11
<1>3. QED  BY <1>1, <1>2, IInvHolds, PTL DEF Spec, ImplementsRankedCache, Ranked!Spec
====
