----------------------------- MODULE PagesProofs -----------------------------
(***************************************************************************)
(* The pages, for any number of updates, choices and timers in any order:  *)
(* a visible page with no drawing ahead of it shows what is known, and the *)
(* histories keep all that a view needs.  What the settings page says of   *)
(* the service's installation is true.                                     *)
(*                                                                         *)
(* A page's part of the invariant is restated for any state of that page   *)
(* (ProxiesFine(p), GraphFine(g)), since a handler goes through states     *)
(* between the one it began with and the one it leaves.  Facts about what  *)
(* a recursive function computes are proved by SetInduction: a set that    *)
(* has 0 and every successor is all of Nat.                                *)
(***************************************************************************)
EXTENDS MCPages, FiniteSetTheorems, WellFoundedInduction, TLAPS

-----------------------------------------------------------------------------
(* Induction, and the elements of a sequence that are in a set *)

\* The order of the natural numbers is well-founded,
LEMMA NatLess == IsWellFoundedOn({p \in Nat \X Nat : p[1] < p[2]}, Nat)
BY NatLessThanWellFounded DEF OpToRel

\* so a set that holds 0 and each successor of its numbers holds them all:
\* induction with the set in place of the predicate.
LEMMA SetInduction ==
    ASSUME NEW T, 0 \in T, \A n \in Nat : n \in T => n + 1 \in T
    PROVE  Nat \subseteq T
<1> DEFINE B == {n \in Nat : n \notin T}
           R == {p \in Nat \X Nat : p[1] < p[2]}
<1>1. SUFFICES ASSUME B # {} PROVE FALSE
  OBVIOUS
<1>2. PICK m \in B : \A y \in B : ~(<<y, m>> \in R)
  <2>1. IsWellFoundedOn(R, Nat) /\ B \subseteq Nat
    BY NatLess
  <2> HIDE DEF R, B
  <2> QED
    BY <1>1, <2>1, WFMin
<1>3. m # 0 /\ m \in Nat
  OBVIOUS
<1>4. m - 1 \in Nat /\ (m - 1) + 1 = m
  BY <1>3
<1>5. m - 1 \in T
  <2>1. SUFFICES ASSUME m - 1 \in B PROVE FALSE
    BY <1>4
  <2>2. <<m - 1, m>> \in R
    BY <1>3, <1>4
  <2> QED
    BY <1>2, <2>1, <2>2
<1> QED
  BY <1>3, <1>4, <1>5

\* A set that holds the empty sequence and, with a sequence, each longer by one
\* element holds every sequence.
LEMMA SequenceInduction ==
    ASSUME NEW T, NEW Q, <<>> \in Q,
           \A s \in Seq(T) : \A x \in T : s \in Q => Append(s, x) \in Q
    PROVE  Seq(T) \subseteq Q
<1> DEFINE L == {n \in Nat : \A s \in Seq(T) : Len(s) = n => s \in Q}
<1>1. 0 \in L
  <2>1. ASSUME NEW s \in Seq(T), Len(s) = 0
        PROVE  s = <<>>
    BY <2>1
  <2> QED
    BY <2>1
<1>2. ASSUME NEW n \in Nat, n \in L
      PROVE  n + 1 \in L
  <2>1. ASSUME NEW s \in Seq(T), Len(s) = n + 1
        PROVE  s \in Q
    <3> DEFINE f == SubSeq(s, 1, n)
               x == s[n + 1]
    <3>1. n + 1 \in 1 .. Len(s)
      BY <2>1
    <3>2. f \in Seq(T) /\ Len(f) = n /\ x \in T
      BY <2>1, <3>1
    <3>3. s = Append(f, x)
      <4>1. /\ Len(Append(f, x)) = n + 1 /\ Append(f, x) \in Seq(T)
            /\ \A i \in 1 .. n : f[i] = s[i]
        BY <2>1, <3>1, <3>2
      <4>2. \A i \in 1 .. n + 1 : Append(f, x)[i] = IF i <= n THEN f[i] ELSE x
        BY <3>2
      <4>3. \A i \in 1 .. n + 1 : i <= n \/ i = n + 1
        OBVIOUS
      <4> HIDE DEF f
      <4> QED
        BY <2>1, <4>1, <4>2, <4>3
    <3>4. f \in Q
      BY <1>2, <3>2
    <3> HIDE DEF f, x
    <3> QED
      BY <3>2, <3>3, <3>4
  <2> QED
    BY <2>1
<1>3. Nat \subseteq L
  <2> HIDE DEF L
  <2> QED
    BY <1>1, <1>2, SetInduction
<1> QED
  BY <1>3

-----------------------------------------------------------------------------
(* What Only keeps of a sequence *)

\* f holds what Only keeps of the first elements of s, up to the m-th.
Upto(f, m, s, S) ==
    f = [n \in 0 .. m |-> IF n = 0 THEN <<>>
                          ELSE IF s[n] \in S THEN Append(f[n - 1], s[n]) ELSE f[n - 1]]

\* The recursion of Only has a solution.
LEMMA UptoExists ==
    ASSUME NEW s, NEW S, NEW k \in Nat
    PROVE  \E f : Upto(f, k, s, S)
<1> DEFINE T == {m \in Nat : \E f : Upto(f, m, s, S)}
<1>1. 0 \in T
  <2>1. Upto([n \in 0 .. 0 |-> <<>>], 0, s, S)
    BY DEF Upto
  <2> QED
    BY <2>1
<1>2. ASSUME NEW m \in Nat, m \in T
      PROVE  m + 1 \in T
  <2>1. PICK f : Upto(f, m, s, S)
    BY <1>2
  <2> DEFINE new == IF s[m + 1] \in S THEN Append(f[m], s[m + 1]) ELSE f[m]
             g == [n \in 0 .. m + 1 |-> IF n = m + 1 THEN new ELSE f[n]]
  <2>2. ASSUME NEW n \in 0 .. m + 1
        PROVE  g[n] = IF n = 0 THEN <<>>
                      ELSE IF s[n] \in S THEN Append(g[n - 1], s[n]) ELSE g[n - 1]
    <3>1. CASE n = m + 1
      <4>1. n - 1 = m /\ m \in 0 .. m + 1 /\ m # m + 1 /\ n # 0
        BY <3>1
      <4>2. g[n] = new /\ g[n - 1] = f[m]
        BY <3>1, <4>1
      <4> HIDE DEF g
      <4> QED
        BY <3>1, <4>1, <4>2
    <3>2. CASE n = 0
      <4>1. n \in 0 .. m /\ n # m + 1
        BY <3>2
      <4>2. f[n] = <<>>
        BY <2>1, <3>2, <4>1 DEF Upto
      <4> QED
        BY <3>2, <4>1, <4>2
    <3>3. CASE n \in 1 .. m
      <4>1. n \in 0 .. m /\ n # m + 1 /\ n - 1 \in 0 .. m + 1 /\ n - 1 # m + 1 /\ n # 0
        BY <3>3
      <4>2. g[n] = f[n] /\ g[n - 1] = f[n - 1]
        BY <4>1
      <4>3. f[n] = IF s[n] \in S THEN Append(f[n - 1], s[n]) ELSE f[n - 1]
        BY <2>1, <4>1 DEF Upto
      <4> HIDE DEF g
      <4> QED
        BY <4>1, <4>2, <4>3
    <3> QED
      BY <3>1, <3>2, <3>3
  <2>3. g = [n \in 0 .. m + 1 |-> g[n]]
    OBVIOUS
  <2> HIDE DEF g
  <2>4. Upto(g, m + 1, s, S)
    BY <2>2, <2>3 DEF Upto
  <2> QED
    BY <2>4
<1>3. Nat \subseteq T
  <2> HIDE DEF T
  <2> QED
    BY <1>1, <1>2, SetInduction
<1> QED
  BY <1>3

\* Only is what that function gives at the end.
LEMMA OnlyIs ==
    ASSUME NEW s, NEW S, Len(s) \in Nat
    PROVE  \E f : Upto(f, Len(s), s, S) /\ Only(s, S) = f[Len(s)]
<1> DEFINE f == CHOOSE f : Upto(f, Len(s), s, S)
<1>1. Upto(f, Len(s), s, S)
  BY UptoExists
<1>2. Only(s, S) = f[Len(s)]
  BY DEF Only, Upto
<1> QED
  BY <1>1, <1>2

\* Nothing is kept of nothing,
LEMMA OnlyNil ==
    ASSUME NEW S
    PROVE  Only(<<>>, S) = <<>>
<1>1. Len(<<>>) = 0
  OBVIOUS
<1>2. PICK f : Upto(f, 0, <<>>, S) /\ Only(<<>>, S) = f[0]
  BY <1>1, OnlyIs
<1> QED
  BY <1>2 DEF Upto

\* and an element that is appended is kept if it is in the set.
LEMMA OnlyAppend ==
    ASSUME NEW T, NEW s \in Seq(T), NEW x \in T, NEW S
    PROVE  Only(Append(s, x), S) = IF x \in S THEN Append(Only(s, S), x) ELSE Only(s, S)
<1> DEFINE t == Append(s, x)
           k == Len(s)
<1>1. /\ k \in Nat /\ Len(t) = k + 1 /\ t[k + 1] = x
      /\ \A i \in 1 .. k : t[i] = s[i]
  OBVIOUS
<1>2. PICK f : Upto(f, k, s, S) /\ Only(s, S) = f[k]
  BY <1>1, OnlyIs
<1>3. PICK g : Upto(g, k + 1, t, S) /\ Only(t, S) = g[k + 1]
  <2> HIDE DEF t
  <2>1. PICK g : Upto(g, Len(t), t, S) /\ Only(t, S) = g[Len(t)]
    BY <1>1, OnlyIs
  <2> QED
    BY <1>1, <2>1
<1> HIDE DEF t, k
<1> DEFINE A == {n \in Nat : n <= k => g[n] = f[n]}
<1>4. 0 \in A
  BY <1>1, <1>2, <1>3 DEF Upto
<1>5. ASSUME NEW n \in Nat, n \in A
      PROVE  n + 1 \in A
  <2>1. SUFFICES ASSUME n + 1 <= k PROVE g[n + 1] = f[n + 1]
    OBVIOUS
  <2>2. /\ n + 1 \in 0 .. k /\ n + 1 \in 0 .. k + 1 /\ n + 1 # 0 /\ (n + 1) - 1 = n
        /\ n + 1 \in 1 .. k /\ n <= k
    BY <1>1, <2>1
  <2>3. f[n + 1] = IF s[n + 1] \in S THEN Append(f[n], s[n + 1]) ELSE f[n]
    BY <1>2, <2>2 DEF Upto
  <2>4. g[n + 1] = IF t[n + 1] \in S THEN Append(g[n], t[n + 1]) ELSE g[n]
    BY <1>3, <2>2 DEF Upto
  <2>5. g[n] = f[n] /\ t[n + 1] = s[n + 1]
    BY <1>1, <1>5, <2>2
  <2> QED
    BY <2>3, <2>4, <2>5
<1>6. k \in A
  <2> HIDE DEF A
  <2> QED
    BY <1>1, <1>4, <1>5, SetInduction
<1>7. k + 1 \in 0 .. k + 1 /\ k + 1 # 0 /\ (k + 1) - 1 = k /\ k <= k
  BY <1>1
<1>8. g[k + 1] = IF x \in S THEN Append(g[k], x) ELSE g[k]
  BY <1>1, <1>3, <1>7 DEF Upto
<1> QED
  BY <1>2, <1>3, <1>6, <1>7, <1>8 DEF t

\* What is kept is in the set.
LEMMA OnlyType ==
    ASSUME NEW T, NEW s \in Seq(T), NEW S
    PROVE  /\ Only(s, S) \in Seq(T)
           /\ \A i \in 1 .. Len(Only(s, S)) : Only(s, S)[i] \in S
<1> DEFINE Q == {q \in Seq(T) : Only(q, S) \in Seq(T \cap S)}
<1>1. <<>> \in Q
  <2>1. <<>> \in Seq(T)
    OBVIOUS
  <2>2. <<>> \in Seq(T \cap S)
    OBVIOUS
  <2>3. Only(<<>>, S) = <<>>
    BY OnlyNil
  <2> QED
    BY <2>1, <2>2, <2>3
<1>2. ASSUME NEW q \in Seq(T), NEW x \in T, q \in Q
      PROVE  Append(q, x) \in Q
  <2>1. Append(q, x) \in Seq(T)
    OBVIOUS
  <2>2. Only(q, S) \in Seq(T \cap S)
    BY <1>2
  <2>3. x \in S => Append(Only(q, S), x) \in Seq(T \cap S)
    BY <2>2
  <2>4. Only(Append(q, x), S) = IF x \in S THEN Append(Only(q, S), x) ELSE Only(q, S)
    BY OnlyAppend
  <2> QED
    BY <2>1, <2>2, <2>3, <2>4
<1>3. s \in Q
  <2> HIDE DEF Q
  <2> QED
    BY <1>1, <1>2, SequenceInduction
<1>4. Only(s, S) \in Seq(T \cap S)
  BY <1>3
<1> DEFINE o == Only(s, S)
<1>5. o \in Seq(T \cap S)
  BY <1>4
<1> HIDE DEF o
<1>6. o \in Seq(T) /\ \A i \in 1 .. Len(o) : o[i] \in S
  BY <1>5
<1> QED
  BY <1>6 DEF o

\* Of a sequence in the set all is kept,
LEMMA OnlyAll ==
    ASSUME NEW T, NEW s \in Seq(T), NEW S, \A i \in 1 .. Len(s) : s[i] \in S
    PROVE  Only(s, S) = s
<1> DEFINE Q == {q \in Seq(T) : (\A i \in 1 .. Len(q) : q[i] \in S) => Only(q, S) = q}
<1>1. <<>> \in Q
  BY OnlyNil
<1>2. ASSUME NEW q \in Seq(T), NEW x \in T, q \in Q
      PROVE  Append(q, x) \in Q
  <2> DEFINE t == Append(q, x)
  <2>1. t \in Seq(T) /\ Len(t) = Len(q) + 1 /\ t[Len(q) + 1] = x /\ Len(q) \in Nat
    OBVIOUS
  <2>2. \A i \in 1 .. Len(q) : t[i] = q[i]
    OBVIOUS
  <2>3. Only(t, S) = IF x \in S THEN Append(Only(q, S), x) ELSE Only(q, S)
    BY OnlyAppend
  <2>4. ASSUME \A i \in 1 .. Len(t) : t[i] \in S
        PROVE  x \in S /\ \A i \in 1 .. Len(q) : q[i] \in S
    <3> HIDE DEF t
    <3>1. /\ Len(q) + 1 \in 1 .. Len(t)
          /\ \A i \in 1 .. Len(q) : i \in 1 .. Len(t)
      BY <2>1
    <3> QED
      BY <2>1, <2>2, <2>4, <3>1
  <2> QED
    BY <1>2, <2>1, <2>3, <2>4
<1>3. s \in Q
  <2> HIDE DEF Q
  <2> QED
    BY <1>1, <1>2, SequenceInduction
<1> QED
  BY <1>3

\* and nothing of a sequence exactly when none of it is in the set.
LEMMA OnlyEmpty ==
    ASSUME NEW T, NEW s \in Seq(T), NEW S
    PROVE  Only(s, S) = <<>> <=> \A i \in 1 .. Len(s) : s[i] \notin S
<1> DEFINE Q == {q \in Seq(T) : Only(q, S) = <<>> <=> \A i \in 1 .. Len(q) : q[i] \notin S}
<1>1. <<>> \in Q
  BY OnlyNil
<1>2. ASSUME NEW q \in Seq(T), NEW x \in T, q \in Q
      PROVE  Append(q, x) \in Q
  <2> DEFINE t == Append(q, x)
  <2>1. t \in Seq(T) /\ Len(t) = Len(q) + 1 /\ t[Len(q) + 1] = x /\ Len(q) \in Nat
    OBVIOUS
  <2>2. \A i \in 1 .. Len(q) : t[i] = q[i]
    OBVIOUS
  <2>3. Only(t, S) = IF x \in S THEN Append(Only(q, S), x) ELSE Only(q, S)
    BY OnlyAppend
  <2>4. Only(q, S) \in Seq(T)
    BY OnlyType
  <2>5. Append(Only(q, S), x) # <<>>
    <3> DEFINE o == Only(q, S)
    <3>1. o \in Seq(T)
      BY <2>4
    <3> HIDE DEF o
    <3>2. Append(o, x) # <<>>
      BY ONLY x \in T, <3>1
    <3> QED
      BY <3>2 DEF o
  <2> HIDE DEF t
  <2>6. /\ Len(q) + 1 \in 1 .. Len(t)
        /\ \A i \in 1 .. Len(q) : i \in 1 .. Len(t)
        /\ \A i \in 1 .. Len(t) : i \in 1 .. Len(q) \/ i = Len(q) + 1
    BY <2>1
  <2>7. (\A i \in 1 .. Len(t) : t[i] \notin S)
           <=> (x \notin S /\ \A i \in 1 .. Len(q) : q[i] \notin S)
    BY <2>1, <2>2, <2>6
  <2>8. Only(q, S) = <<>> <=> \A i \in 1 .. Len(q) : q[i] \notin S
    BY <1>2
  <2>9. Only(t, S) = <<>> <=> \A i \in 1 .. Len(t) : t[i] \notin S
    BY <2>3, <2>5, <2>7, <2>8
  <2> QED
    BY <2>1, <2>9 DEF t
<1>3. s \in Q
  <2> HIDE DEF Q
  <2> QED
    BY <1>1, <1>2, SequenceInduction
<1> QED
  BY <1>3

\* What is kept of two sequences is what is kept of each.
LEMMA OnlyConcat ==
    ASSUME NEW T, NEW u \in Seq(T), NEW v \in Seq(T), NEW S
    PROVE  Only(u \o v, S) = Only(u, S) \o Only(v, S)
<1> DEFINE Q == {q \in Seq(T) : Only(u \o q, S) = Only(u, S) \o Only(q, S)}
<1>1. <<>> \in Q
  <2>1. u \o <<>> = u
    OBVIOUS
  <2>2. Only(u, S) \in Seq(T)
    BY OnlyType
  <2>3. Only(u, S) \o <<>> = Only(u, S)
    BY <2>2
  <2>4. <<>> \in Seq(T)
    OBVIOUS
  <2>5. Only(<<>>, S) = <<>>
    BY OnlyNil
  <2> QED
    BY <2>1, <2>3, <2>4, <2>5
<1>2. ASSUME NEW q \in Seq(T), NEW x \in T, q \in Q
      PROVE  Append(q, x) \in Q
  <2>1. Append(q, x) \in Seq(T) /\ u \o q \in Seq(T)
    OBVIOUS
  <2>2. u \o Append(q, x) = Append(u \o q, x)
    OBVIOUS
  <2>3. Only(u, S) \in Seq(T) /\ Only(q, S) \in Seq(T)
    BY OnlyType
  <2>4. Only(u, S) \o Append(Only(q, S), x) = Append(Only(u, S) \o Only(q, S), x)
    BY <2>3
  <2>5. Only(Append(q, x), S) = IF x \in S THEN Append(Only(q, S), x) ELSE Only(q, S)
    BY OnlyAppend
  <2>6. Only(Append(u \o q, x), S) = IF x \in S THEN Append(Only(u \o q, S), x) ELSE Only(u \o q, S)
    BY <2>1, OnlyAppend
  <2>7. Only(u \o q, S) = Only(u, S) \o Only(q, S)
    BY <1>2
  <2> QED
    BY <2>1, <2>2, <2>4, <2>5, <2>6, <2>7
<1>3. v \in Q
  <2> HIDE DEF Q
  <2> QED
    BY <1>1, <1>2, SequenceInduction
<1> QED
  BY <1>3

-----------------------------------------------------------------------------
(* The end of a sequence *)

\* Sequences of one length with the same elements are one.
LEMMA SameElements ==
    ASSUME NEW T, NEW u \in Seq(T), NEW v \in Seq(T), Len(u) = Len(v),
           \A i \in 1 .. Len(u) : u[i] = v[i]
    PROVE  u = v
OBVIOUS

\* What the end of a sequence is: how long, and which elements.
LEMMA NewestIs ==
    ASSUME NEW T, NEW s \in Seq(T), NEW n \in Nat
    PROVE  /\ Newest(s, n) \in Seq(T)
           /\ Len(Newest(s, n)) = IF Len(s) > n THEN n ELSE Len(s)
           /\ \A i \in 1 .. Len(Newest(s, n)) :
                 /\ (Len(s) - Len(Newest(s, n))) + i \in 1 .. Len(s)
                 /\ Newest(s, n)[i] = s[(Len(s) - Len(Newest(s, n))) + i]
           /\ Len(s) <= n => Newest(s, n) = s
<1>1. CASE Len(s) > n
  <2> DEFINE a == Len(s) - n + 1
  <2>1. Newest(s, n) = SubSeq(s, a, Len(s))
    BY <1>1 DEF Newest
  <2>2. /\ a \in 1 .. Len(s) + 1 /\ Len(s) \in Nat /\ Len(s) - a + 1 = n
        /\ a <= Len(s) + 1
    BY <1>1
  <2>3. /\ SubSeq(s, a, Len(s)) \in Seq(T) /\ Len(SubSeq(s, a, Len(s))) = n
        /\ \A i \in 1 .. n : SubSeq(s, a, Len(s))[i] = s[a + i - 1]
    <3>1. \A i \in a .. Len(s) : s[i] \in T
      BY <2>2
    <3> HIDE DEF a
    <3> QED
      BY <2>2, <3>1
  <2>4. /\ \A i \in 1 .. n : (Len(s) - n) + i \in 1 .. Len(s) /\ a + i - 1 = (Len(s) - n) + i
        /\ ~(Len(s) <= n)
    BY <1>1
  <2> HIDE DEF a
  <2> QED
    BY <1>1, <2>1, <2>3, <2>4
<1>2. CASE ~(Len(s) > n)
  <2>1. Newest(s, n) = SubSeq(s, 1, Len(s)) /\ Len(s) \in Nat
    BY <1>2 DEF Newest
  <2>2. SubSeq(s, 1, Len(s)) = s
    OBVIOUS
  <2>3. \A i \in 1 .. Len(s) : (Len(s) - Len(s)) + i = i
    OBVIOUS
  <2> QED
    BY <1>2, <2>1, <2>2, <2>3
<1> QED
  BY <1>1, <1>2

\* The end of a sequence that grew is the end of the end that grew.
LEMMA NewestAppend ==
    ASSUME NEW T, NEW s \in Seq(T), NEW x \in T, NEW n \in Nat \ {0}
    PROVE  Newest(Append(Newest(s, n), x), n) = Newest(Append(s, x), n)
<1> DEFINE e == Newest(s, n)
           a == Append(e, x)
           b == Append(s, x)
           c == Newest(a, n)
           d == Newest(b, n)
<1>1. /\ e \in Seq(T) /\ Len(e) = (IF Len(s) > n THEN n ELSE Len(s))
      /\ \A i \in 1 .. Len(e) :
            (Len(s) - Len(e)) + i \in 1 .. Len(s) /\ e[i] = s[(Len(s) - Len(e)) + i]
  BY NewestIs
<1> HIDE DEF e
<1>2. /\ a \in Seq(T) /\ Len(a) = Len(e) + 1 /\ a[Len(e) + 1] = x
      /\ \A i \in 1 .. Len(e) : a[i] = e[i]
  BY <1>1
<1>3. /\ b \in Seq(T) /\ Len(b) = Len(s) + 1 /\ b[Len(s) + 1] = x
      /\ \A i \in 1 .. Len(s) : b[i] = s[i]
  OBVIOUS
<1> HIDE DEF a, b
<1>4. /\ c \in Seq(T) /\ Len(c) = (IF Len(a) > n THEN n ELSE Len(a))
      /\ \A i \in 1 .. Len(c) :
            (Len(a) - Len(c)) + i \in 1 .. Len(a) /\ c[i] = a[(Len(a) - Len(c)) + i]
  BY <1>2, NewestIs
<1>5. /\ d \in Seq(T) /\ Len(d) = (IF Len(b) > n THEN n ELSE Len(b))
      /\ \A i \in 1 .. Len(d) :
            (Len(b) - Len(d)) + i \in 1 .. Len(b) /\ d[i] = b[(Len(b) - Len(d)) + i]
  BY <1>3, NewestIs
<1> HIDE DEF c, d
<1>6. Len(s) \in Nat /\ Len(e) \in Nat
  BY <1>1
<1>7. Len(c) = Len(d)
  BY <1>1, <1>2, <1>3, <1>4, <1>5, <1>6
<1>8. ASSUME NEW i \in 1 .. Len(c)
      PROVE  c[i] = d[i]
  <2> DEFINE j == (Len(a) - Len(c)) + i
             k == (Len(b) - Len(d)) + i
  <2>1. c[i] = a[j] /\ d[i] = b[k] /\ j \in 1 .. Len(a) /\ k \in 1 .. Len(b)
    BY <1>4, <1>5, <1>7
  <2>2. k = (Len(s) - Len(e)) + j
    <3>1. Len(a) = Len(e) + 1 /\ Len(b) = Len(s) + 1
      BY <1>2, <1>3
    <3>2. Len(c) \in Nat /\ i \in Nat
      BY <1>4
    <3> QED
      BY <1>6, <1>7, <3>1, <3>2
  <2> HIDE DEF j, k
  <2>3. CASE j = Len(e) + 1
    <3>1. k = Len(s) + 1
      BY <1>6, <2>2, <2>3
    <3> QED
      BY <1>2, <1>3, <2>1, <2>3, <3>1
  <2>4. CASE j \in 1 .. Len(e)
    <3>1. a[j] = e[j] /\ e[j] = s[k] /\ k \in 1 .. Len(s)
      BY <1>1, <1>2, <2>2, <2>4
    <3> QED
      BY <1>3, <2>1, <3>1
  <2> QED
    BY <1>2, <1>6, <2>1, <2>3, <2>4
<1>9. c = d
  BY <1>4, <1>5, <1>7, <1>8, SameElements
<1> QED
  BY <1>9 DEF c, d, a, b, e

\* Two sequences, one after the other.
LEMMA ConcatIs ==
    ASSUME NEW T, NEW u \in Seq(T), NEW v \in Seq(T)
    PROVE  /\ u \o v \in Seq(T) /\ Len(u \o v) = Len(u) + Len(v)
           /\ \A i \in 1 .. Len(u) + Len(v) :
                 (u \o v)[i] = IF i <= Len(u) THEN u[i] ELSE v[i - Len(u)]
<1>1. u \o v \in Seq(T) /\ Len(u \o v) = Len(u) + Len(v)
  OBVIOUS
<1>2. \A i \in 1 .. Len(u) + Len(v) :
         (u \o v)[i] = IF i <= Len(u) THEN u[i] ELSE v[i - Len(u)]
  OBVIOUS
<1> QED
  BY <1>1, <1>2

\* A sequence is what comes before its end, and its end.
LEMMA NewestSplits ==
    ASSUME NEW T, NEW s \in Seq(T), NEW k \in 0 .. Len(s)
    PROVE  \E u \in Seq(T) :
              /\ Len(u) = Len(s) - k /\ s = u \o Newest(s, k)
              /\ \A i \in 1 .. Len(u) : i \in 1 .. Len(s) /\ u[i] = s[i]
<1> DEFINE m == Len(s) - k
           u == SubSeq(s, 1, m)
           v == Newest(s, k)
<1>1. /\ k \in Nat /\ Len(s) \in Nat /\ m \in Nat /\ m = Len(s) - k /\ Len(s) = m + k
      /\ m <= Len(s) /\ k <= Len(s)
  OBVIOUS
<1>2. /\ v \in Seq(T) /\ Len(v) = k
      /\ \A i \in 1 .. k : m + i \in 1 .. Len(s) /\ v[i] = s[m + i]
  <2> HIDE DEF m, v
  <2>1. /\ v \in Seq(T) /\ Len(v) = (IF Len(s) > k THEN k ELSE Len(s))
        /\ \A i \in 1 .. Len(v) :
              (Len(s) - Len(v)) + i \in 1 .. Len(s) /\ v[i] = s[(Len(s) - Len(v)) + i]
    BY <1>1, NewestIs DEF v
  <2>2. Len(v) = k
    BY <1>1, <2>1
  <2> QED
    BY <1>1, <2>1, <2>2
<1>3. u \in Seq(T) /\ Len(u) = m /\ \A i \in 1 .. m : i \in 1 .. Len(s) /\ u[i] = s[i]
  <2> HIDE DEF m
  <2>1. \A i \in 1 .. m : i \in 1 .. Len(s)
    BY <1>1
  <2>2. \A i \in 1 .. m : s[i] \in T
    BY <2>1
  <2>3. SubSeq(s, 1, m) \in Seq(T)
    BY <1>1, <2>2
  <2>4. Len(SubSeq(s, 1, m)) = m
    BY <1>1
  <2>5. \A i \in 1 .. m : SubSeq(s, 1, m)[i] = s[i]
    BY <1>1
  <2> QED
    BY <2>1, <2>3, <2>4, <2>5
<1> HIDE DEF u, v, m
<1>4. /\ u \o v \in Seq(T) /\ Len(u \o v) = m + k
      /\ \A i \in 1 .. m + k : (u \o v)[i] = IF i <= m THEN u[i] ELSE v[i - m]
  <2>1. u \in Seq(T) /\ v \in Seq(T) /\ Len(u) = m /\ Len(v) = k
    BY <1>2, <1>3
  <2> QED
    BY <2>1, ConcatIs
<1>5. ASSUME NEW i \in 1 .. Len(s)
      PROVE  s[i] = (u \o v)[i]
  <2>1. CASE i <= m
    BY <1>1, <1>3, <1>4, <2>1
  <2>2. CASE ~(i <= m)
    <3>1. i - m \in 1 .. k /\ m + (i - m) = i
      BY <1>1, <2>2
    <3> QED
      BY <1>1, <1>2, <1>4, <2>2, <3>1
  <2> QED
    BY <2>1, <2>2
<1>6. s = u \o v
  BY <1>1, <1>4, <1>5, SameElements
<1> QED
  BY <1>3, <1>6 DEF v, m

-----------------------------------------------------------------------------
(* The logs *)

\* The types of LogsIInv.
LogsState ==
    [level : {1, 2}, filter : BOOLEAN, filterTimer : BOOLEAN, paused : BOOLEAN,
     entries : Seq(Entry), view : Seq(Entry)]

\* The lines to be seen are lines.
LEMMA VisibleIs ==
    ASSUME NEW l \in LogsState
    PROVE  VisibleLogs(l) \in Seq(Entry)
<1>1. l.entries \in Seq(Entry) /\ EntriesKept \in Nat
  BY PagesAssumption DEF LogsState
<1>2. Only(l.entries, Matching(l)) \in Seq(Entry)
  BY <1>1, OnlyType
<1> QED
  BY <1>1, <1>2, NewestIs DEF VisibleLogs

\* Drawing all lines shows those that pass.
LEMMA RenderEntriesIs ==
    ASSUME NEW l \in LogsState
    PROVE  LET k == RenderEntries(l) IN
           /\ k \in LogsState /\ k.view = VisibleLogs(k)
           /\ k.entries = l.entries /\ k.filterTimer = l.filterTimer
<1> DEFINE k == [l EXCEPT !.view = VisibleLogs(l)]
<1>1. VisibleLogs(l) \in Seq(Entry)
  BY VisibleIs
<1>2. /\ k \in LogsState /\ k.view = VisibleLogs(l) /\ k.entries = l.entries
      /\ k.filterTimer = l.filterTimer /\ k.level = l.level /\ k.filter = l.filter
  BY <1>1 DEF LogsState
<1>3. RenderEntries(l) = k
  BY DEF RenderEntries
<1> HIDE DEF k
<1>4. VisibleLogs(k) = VisibleLogs(l)
  BY <1>2 DEF VisibleLogs, Matching
<1> QED
  BY <1>2, <1>3, <1>4

\* A line that is appended to the view, or all of them drawn, is what passes.
LEMMA AppendKeeps ==
    ASSUME LogsIInv, NEW entry \in Entry, AppendEntry(entry)
    PROVE  LogsIInv'
<1> DEFINE m == Append(logs.entries, entry)
           l == [logs EXCEPT !.entries = m]
<1>1. /\ logs \in LogsState /\ logs.entries \in Seq(Entry) /\ Len(logs.entries) <= EntryLimit
      /\ logs.view \in Seq(Entry)
      /\ EntriesKept \in Nat \ {0} /\ EntryLimit \in Nat /\ EntriesKept <= EntryLimit
      /\ ~logs.filterTimer => logs.view = VisibleLogs(logs)
  BY PagesAssumption DEF LogsIInv, LogsState
<1>2. m \in Seq(Entry) /\ Len(m) = Len(logs.entries) + 1
  BY <1>1
<1>3. /\ l \in LogsState /\ l.entries = m /\ l.view = logs.view
      /\ l.filterTimer = logs.filterTimer /\ l.level = logs.level /\ l.filter = logs.filter
  BY <1>1, <1>2 DEF LogsState
<1>4. logs' = IF Len(l.entries) > EntryLimit
              THEN RenderEntries([l EXCEPT !.entries = Newest(@, EntriesKept)])
              ELSE IF entry \in Matching(l)
              THEN [l EXCEPT !.view = Newest(Append(@, entry), EntriesKept)] ELSE l
  BY DEF AppendEntry
<1> HIDE DEF l
<1>5. CASE Len(m) > EntryLimit
  <2> DEFINE k == [l EXCEPT !.entries = Newest(m, EntriesKept)]
  <2>1. /\ Newest(m, EntriesKept) \in Seq(Entry)
        /\ Len(Newest(m, EntriesKept)) <= EntryLimit
    <3> HIDE DEF m
    <3>1. /\ Newest(m, EntriesKept) \in Seq(Entry)
          /\ Len(Newest(m, EntriesKept)) = IF Len(m) > EntriesKept THEN EntriesKept ELSE Len(m)
      BY <1>1, <1>2, NewestIs
    <3>2. Len(m) > EntriesKept
      BY <1>1, <1>2, <1>5
    <3> QED
      BY <1>1, <3>1, <3>2
  <2>2. k \in LogsState /\ k.entries = Newest(m, EntriesKept)
    BY <1>3, <2>1 DEF LogsState
  <2>3. logs' = RenderEntries(k)
    BY <1>3, <1>4, <1>5
  <2> HIDE DEF k
  <2>4. /\ logs' \in LogsState /\ logs'.view = VisibleLogs(logs')
        /\ logs'.entries = k.entries
    BY <2>2, <2>3, RenderEntriesIs
  <2> QED
    BY <2>1, <2>2, <2>4 DEF LogsIInv, LogsState
<1>6. CASE ~(Len(m) > EntryLimit)
  <2>0. Len(m) <= EntryLimit
    BY <1>1, <1>2, <1>6
  <2> DEFINE o == Only(logs.entries, Matching(l))
  <2>1. Matching(l) = Matching(logs)
    BY <1>3 DEF Matching
  <2>2. /\ VisibleLogs(logs) = Newest(o, EntriesKept) /\ o \in Seq(Entry)
        /\ VisibleLogs(l) = Newest(Only(m, Matching(l)), EntriesKept)
    BY <1>1, <1>3, <2>1, OnlyType DEF VisibleLogs
  <2>3. Only(m, Matching(l)) = IF entry \in Matching(l) THEN Append(o, entry) ELSE o
    BY <1>1, OnlyAppend
  <2> HIDE DEF o
  <2>4. CASE entry \in Matching(l)
    <3> DEFINE n == Newest(Append(logs.view, entry), EntriesKept)
               k == [l EXCEPT !.view = n]
    <3>1. n \in Seq(Entry)
      <4>1. Append(logs.view, entry) \in Seq(Entry)
        BY <1>1
      <4> QED
        BY <1>1, <4>1, NewestIs
    <3>2. ~logs.filterTimer => n = VisibleLogs(l)
      <4>1. Newest(Append(Newest(o, EntriesKept), entry), EntriesKept)
               = Newest(Append(o, entry), EntriesKept)
        BY <1>1, <2>2, NewestAppend
      <4> QED
        BY <1>1, <2>2, <2>3, <2>4, <4>1
    <3> HIDE DEF n
    <3>3. /\ k \in LogsState /\ k.entries = m /\ k.view = n
          /\ k.filterTimer = logs.filterTimer /\ k.level = l.level /\ k.filter = l.filter
      BY <1>3, <3>1 DEF LogsState
    <3>4. logs' = k
      BY <1>3, <1>4, <1>6, <2>4 DEF n
    <3> HIDE DEF k
    <3>5. VisibleLogs(k) = VisibleLogs(l)
      BY <1>3, <3>3 DEF VisibleLogs, Matching
    <3> QED
      BY <2>0, <3>2, <3>3, <3>4, <3>5 DEF LogsIInv, LogsState
  <2>5. CASE entry \notin Matching(l)
    <3>1. logs' = l
      BY <1>3, <1>4, <1>6, <2>5
    <3>2. VisibleLogs(l) = VisibleLogs(logs)
      BY <2>2, <2>3, <2>5
    <3> QED
      BY <1>1, <1>3, <2>0, <3>1, <3>2 DEF LogsIInv, LogsState
  <2> QED
    BY <2>4, <2>5
<1> QED
  BY <1>5, <1>6

\* Every step of the logs keeps their part of the invariant.
LEMMA LogsKeep ==
    ASSUME LogsIInv, LogsNext
    PROVE  LogsIInv'
<1>1. /\ logs \in LogsState /\ Len(logs.entries) <= EntryLimit /\ EntryLimit \in Nat
      /\ ~logs.filterTimer => logs.view = VisibleLogs(logs)
  BY PagesAssumption DEF LogsIInv, LogsState
<1>2. CASE \E entry \in Entry : AppendEntry(entry)
  BY <1>2, AppendKeeps
<1>3. CASE PauseLogs
  <2> DEFINE k == [logs EXCEPT !.paused = ~@]
  <2>1. /\ k \in LogsState /\ k.entries = logs.entries /\ k.view = logs.view
        /\ k.filterTimer = logs.filterTimer /\ k.level = logs.level /\ k.filter = logs.filter
    BY <1>1 DEF LogsState
  <2>2. logs' = k
    BY <1>3 DEF PauseLogs
  <2> HIDE DEF k
  <2>3. VisibleLogs(k) = VisibleLogs(logs)
    BY <2>1 DEF VisibleLogs, Matching
  <2> QED
    BY <1>1, <2>1, <2>2, <2>3 DEF LogsIInv, LogsState
<1>4. CASE ClearLogs
  <2> DEFINE k == [logs EXCEPT !.entries = <<>>, !.view = <<>>]
  <2>0. <<>> \in Seq(Entry)
    OBVIOUS
  <2>1. k \in LogsState /\ k.entries = <<>> /\ k.view = <<>>
    BY <1>1, <2>0 DEF LogsState
  <2>2. logs' = k
    BY <1>4 DEF ClearLogs
  <2> HIDE DEF k
  <2>3. VisibleLogs(k) = <<>> /\ Len(<<>>) = 0
    <3>1. Only(<<>>, Matching(k)) = <<>>
      BY OnlyNil
    <3>2. Newest(<<>>, EntriesKept) = <<>>
      <4>1. EntriesKept \in Nat /\ Len(<<>>) <= EntriesKept
        BY PagesAssumption
      <4> QED
        BY <2>0, <4>1, NewestIs
    <3> QED
      BY <2>1, <3>1, <3>2 DEF VisibleLogs
  <2> QED
    BY <1>1, <2>1, <2>2, <2>3 DEF LogsIInv, LogsState
<1>5. CASE ChooseLevel \/ LogsTimer \/ RenderTheme
  <2>1. PICK l \in LogsState : logs' = RenderEntries(l) /\ l.entries = logs.entries
    <3>1. [logs EXCEPT !.level = 3 - @] \in LogsState
          /\ [logs EXCEPT !.level = 3 - @].entries = logs.entries
      BY <1>1 DEF LogsState
    <3>2. [logs EXCEPT !.filterTimer = FALSE] \in LogsState
          /\ [logs EXCEPT !.filterTimer = FALSE].entries = logs.entries
      BY <1>1 DEF LogsState
    <3> QED
      BY <1>1, <1>5, <3>1, <3>2 DEF ChooseLevel, LogsTimer, RenderTheme
  <2>2. logs' \in LogsState /\ logs'.view = VisibleLogs(logs') /\ logs'.entries = logs.entries
    BY <2>1, RenderEntriesIs
  <2> QED
    BY <1>1, <2>2 DEF LogsIInv, LogsState
<1>6. CASE FilterLogs
  <2> DEFINE k == [logs EXCEPT !.filter = ~@, !.filterTimer = TRUE]
  <2>1. k \in LogsState /\ k.entries = logs.entries /\ k.filterTimer
    BY <1>1 DEF LogsState
  <2>2. logs' = k
    BY <1>6 DEF FilterLogs
  <2> HIDE DEF k
  <2> QED
    BY <1>1, <2>1, <2>2 DEF LogsIInv, LogsState
<1> QED
  BY <1>2, <1>3, <1>4, <1>5, <1>6 DEF LogsNext

-----------------------------------------------------------------------------
(* The providers *)

\* The types of ProvidersIInv.
ProvidersState ==
    [visible : BOOLEAN, timer : BOOLEAN, kind : ProviderKinds,
     cachedKind : ProviderKinds, cached : Revision, dirty : BOOLEAN,
     rows : [kind : ProviderKinds, revision : Revision], loading : BOOLEAN,
     pending : SUBSET ProviderKinds, operating : SUBSET ProviderKinds]

\* ProvidersIInv of any state of the page.
ProvidersFine(v) ==
    /\ v \in ProvidersState
    /\ v.cachedKind = v.kind
    /\ ~v.dirty => v.rows = [kind |-> v.kind, revision |-> v.cached]
    /\ v.visible /\ ~v.timer => ~v.dirty
    /\ v.loading => v.kind \in v.pending

\* Asking for the list again keeps the page fine,
LEMMA RefreshKeeps ==
    ASSUME NEW v, v \in ProvidersState, v.cachedKind = v.kind,
           ~v.dirty => v.rows = [kind |-> v.kind, revision |-> v.cached],
           v.visible /\ ~v.timer => ~v.dirty
    PROVE  ProvidersFine(RefreshProviders(v))
<1> DEFINE w == [v EXCEPT !.loading = TRUE]
           k == [w EXCEPT !.pending = @ \cup {w.kind}]
<1>1. /\ k \in ProvidersState /\ k.loading = TRUE /\ k.kind = v.kind
      /\ k.pending = v.pending \cup {v.kind}
      /\ k.visible = v.visible /\ k.timer = v.timer /\ k.cachedKind = v.cachedKind
      /\ k.cached = v.cached /\ k.dirty = v.dirty /\ k.rows = v.rows
  BY DEF ProvidersState
<1>2. RefreshProviders(v) = k
  BY DEF RefreshProviders, Fetch, ProvidersState
<1> HIDE DEF k
<1> QED
  BY <1>1, <1>2 DEF ProvidersFine

\* so does the answer with the list, of the kind shown or of the other one,
LEMMA PopulateKeeps ==
    ASSUME NEW v, NEW kind \in ProviderKinds, NEW revision \in Revision, v \in ProvidersState,
           kind # v.kind => ProvidersFine(v),
           v.cachedKind = v.kind /\ ~v.dirty
               => v.rows = [kind |-> v.kind, revision |-> v.cached],
           v.visible /\ ~v.timer => ~v.dirty
    PROVE  LET k == Populate(v, kind, revision) IN
           /\ ProvidersFine(k) /\ k.kind = v.kind /\ k.visible = v.visible
<1>1. CASE kind # v.kind
  BY <1>1 DEF Populate
<1>2. CASE kind = v.kind /\ v.cachedKind = kind /\ v.cached = revision /\ ~v.dirty
  <2> DEFINE k == [v EXCEPT !.loading = FALSE]
  <2>1. /\ k \in ProvidersState /\ k.loading = FALSE /\ k.kind = v.kind
        /\ k.visible = v.visible /\ k.timer = v.timer /\ k.cachedKind = v.cachedKind
        /\ k.cached = v.cached /\ k.dirty = v.dirty /\ k.rows = v.rows
    BY DEF ProvidersState
  <2>2. Populate(v, kind, revision) = k
    BY <1>2 DEF Populate
  <2> HIDE DEF k
  <2> QED
    BY <1>2, <2>1, <2>2 DEF ProvidersFine
<1>3. CASE kind = v.kind /\ ~(v.cachedKind = kind /\ v.cached = revision /\ ~v.dirty)
  <2> DEFINE k == [v EXCEPT !.loading = FALSE, !.cachedKind = kind, !.cached = revision,
                            !.dirty = TRUE, !.timer = @ \/ v.visible]
  <2>1. /\ k \in ProvidersState /\ k.loading = FALSE /\ k.kind = v.kind
        /\ k.visible = v.visible /\ k.timer = (v.timer \/ v.visible) /\ k.cachedKind = kind
        /\ k.dirty = TRUE
    BY DEF ProvidersState
  <2>2. Populate(v, kind, revision) = k
    BY <1>3 DEF Populate
  <2> HIDE DEF k
  <2> QED
    BY <1>3, <2>1, <2>2 DEF ProvidersFine
<1> QED
  BY <1>1, <1>2, <1>3

\* and drawing, when a page that is shown has a mark without a timer.
LEMMA RenderProvidersKeeps ==
    ASSUME NEW v, v \in ProvidersState, v.cachedKind = v.kind,
           ~v.dirty => v.rows = [kind |-> v.kind, revision |-> v.cached],
           v.loading => v.kind \in v.pending
    PROVE  ProvidersFine(RenderProviders(v))
<1>1. CASE ~v.visible \/ ~v.dirty
  BY <1>1 DEF RenderProviders, ProvidersFine
<1>2. CASE v.visible /\ v.dirty
  <2> DEFINE k == [v EXCEPT !.timer = FALSE, !.dirty = FALSE,
                            !.rows = [kind |-> v.cachedKind, revision |-> v.cached]]
  <2>1. /\ k \in ProvidersState /\ k.loading = v.loading /\ k.kind = v.kind
        /\ k.cachedKind = v.cachedKind /\ k.cached = v.cached /\ k.dirty = FALSE
        /\ k.rows = [kind |-> v.cachedKind, revision |-> v.cached] /\ k.pending = v.pending
    BY DEF ProvidersState
  <2>2. RenderProviders(v) = k
    BY <1>2 DEF RenderProviders
  <2> HIDE DEF k
  <2> QED
    BY <2>1, <2>2 DEF ProvidersFine
<1> QED
  BY <1>1, <1>2 DEF ProvidersState

\* Every step of the providers keeps their part of the invariant.
LEMMA ProvidersKeep ==
    ASSUME ProvidersIInv, ProvidersNext
    PROVE  ProvidersIInv'
<1> DEFINE v == providers
<1>1. ProvidersFine(v)
  BY DEF ProvidersIInv, ProvidersFine, ProvidersState
<1> SUFFICES ProvidersFine(providers')
  BY DEF ProvidersIInv, ProvidersFine, ProvidersState
<1>2. CASE ShowProviders
  <2>1. CASE v.visible
    <3> DEFINE k == [v EXCEPT !.visible = FALSE]
    <3>1. /\ k \in ProvidersState /\ k.loading = v.loading /\ k.kind = v.kind
          /\ k.cachedKind = v.cachedKind /\ k.cached = v.cached /\ k.dirty = v.dirty
          /\ k.rows = v.rows /\ k.pending = v.pending /\ k.visible = FALSE
      BY <1>1 DEF ProvidersState, ProvidersFine
    <3>2. providers' = k
      BY <1>2, <2>1 DEF ShowProviders
    <3> HIDE DEF k
    <3> QED
      BY <1>1, <3>1, <3>2 DEF ProvidersFine
  <2>2. CASE ~v.visible
    <3> DEFINE k == [v EXCEPT !.visible = TRUE]
    <3>1. /\ k \in ProvidersState /\ k.loading = v.loading /\ k.kind = v.kind
          /\ k.cachedKind = v.cachedKind /\ k.cached = v.cached /\ k.dirty = v.dirty
          /\ k.rows = v.rows /\ k.pending = v.pending
      BY <1>1 DEF ProvidersState, ProvidersFine
    <3>2. providers' = RefreshProviders(RenderProviders(k))
      BY <1>2, <2>2 DEF ShowProviders
    <3> HIDE DEF k
    <3> DEFINE d == RenderProviders(k)
    <3>3. ProvidersFine(d)
      BY <1>1, <3>1, RenderProvidersKeeps DEF ProvidersFine
    <3> HIDE DEF d
    <3>4. ProvidersFine(RefreshProviders(d))
      BY <3>3, RefreshKeeps DEF ProvidersFine
    <3> QED
      BY <3>2, <3>4 DEF d
  <2> QED
    BY <2>1, <2>2
<1>3. CASE ClickRefresh
  BY <1>1, <1>3, RefreshKeeps DEF ClickRefresh, ProvidersFine
<1>4. CASE ChooseKind
  <2>1. PICK other \in ProviderKinds :
           providers' = RefreshProviders(Populate([v EXCEPT !.kind = other], other, 0))
           /\ other # v.kind
    <3>1. \E k \in ProviderKinds : k # v.kind
      BY DEF ProviderKinds
    <3> QED
      BY <1>4, <3>1 DEF ChooseKind
  <2> DEFINE k == [v EXCEPT !.kind = other]
  <2>2. /\ k \in ProvidersState /\ k.kind = other /\ k.cachedKind = v.cachedKind
        /\ k.dirty = v.dirty /\ k.visible = v.visible /\ k.timer = v.timer
    BY <1>1 DEF ProvidersState, ProvidersFine
  <2>3. k.cachedKind # k.kind
    BY <1>1, <2>1, <2>2 DEF ProvidersFine
  <2> HIDE DEF k
  <2>4. ProvidersFine(Populate(k, other, 0))
    <3>1. 0 \in Revision
      BY PagesAssumption
    <3>2. k.visible /\ ~k.timer => ~k.dirty
      BY <1>1, <2>2 DEF ProvidersFine
    <3> QED
      BY <2>2, <2>3, <3>1, <3>2, PopulateKeeps
  <2>5. ProvidersFine(RefreshProviders(Populate(k, other, 0)))
    BY <2>4, RefreshKeeps DEF ProvidersFine
  <2> QED
    BY <2>1, <2>5 DEF k
<1>5. ASSUME NEW kind \in ProviderKinds, ProvidersReply(kind)
      PROVE  ProvidersFine(providers')
  <2> DEFINE k == [v EXCEPT !.pending = @ \ {kind}]
  <2>1. /\ k \in ProvidersState /\ k.loading = v.loading /\ k.kind = v.kind
        /\ k.cachedKind = v.cachedKind /\ k.cached = v.cached /\ k.dirty = v.dirty
        /\ k.rows = v.rows /\ k.pending = v.pending \ {kind} /\ k.visible = v.visible
        /\ k.timer = v.timer
    BY <1>1 DEF ProvidersState, ProvidersFine
  <2>2. \/ \E revision \in Revision : providers' = Populate(k, kind, revision)
        \/ providers' = [k EXCEPT !.loading = FALSE]
    BY <1>5 DEF ProvidersReply
  <2> HIDE DEF k
  <2>3. kind # k.kind => ProvidersFine(k)
    BY <1>1, <2>1 DEF ProvidersFine
  <2>4. \A revision \in Revision : ProvidersFine(Populate(k, kind, revision))
    BY <1>1, <2>1, <2>3, PopulateKeeps DEF ProvidersFine
  <2> DEFINE d == [k EXCEPT !.loading = FALSE]
  <2>5. ProvidersFine(d)
    <3>1. /\ d \in ProvidersState /\ d.loading = FALSE /\ d.kind = k.kind
          /\ d.cachedKind = k.cachedKind /\ d.cached = k.cached /\ d.dirty = k.dirty
          /\ d.rows = k.rows /\ d.visible = k.visible /\ d.timer = k.timer
      BY <2>1 DEF ProvidersState
    <3> HIDE DEF d
    <3> QED
      BY <1>1, <2>1, <3>1 DEF ProvidersFine
  <2> QED
    BY <2>2, <2>4, <2>5
<1>6. CASE OperateProvider
  <2> DEFINE k == [v EXCEPT !.operating = {v.kind}]
  <2>1. /\ k \in ProvidersState /\ k.loading = v.loading /\ k.kind = v.kind
        /\ k.cachedKind = v.cachedKind /\ k.cached = v.cached /\ k.dirty = v.dirty
        /\ k.rows = v.rows /\ k.pending = v.pending /\ k.visible = v.visible
        /\ k.timer = v.timer
    BY <1>1 DEF ProvidersState, ProvidersFine
  <2>2. providers' = k
    BY <1>6 DEF OperateProvider
  <2> HIDE DEF k
  <2> QED
    BY <1>1, <2>1, <2>2 DEF ProvidersFine
<1>7. ASSUME NEW kind \in ProviderKinds, OperationReply(kind)
      PROVE  ProvidersFine(providers')
  <2>0. PICK operating \in {{}, v.operating} :
           LET k == [v EXCEPT !.operating = operating, !.loading = FALSE]
           IN providers' = k \/ providers' = Fetch(k, kind)
    BY <1>7 DEF OperationReply
  <2> DEFINE k == [v EXCEPT !.operating = operating, !.loading = FALSE]
             d == [k EXCEPT !.pending = @ \cup {kind}]
  <2>1. /\ k \in ProvidersState /\ k.loading = FALSE /\ k.kind = v.kind
        /\ k.cachedKind = v.cachedKind /\ k.cached = v.cached /\ k.dirty = v.dirty
        /\ k.rows = v.rows /\ k.visible = v.visible /\ k.timer = v.timer
    BY <1>1 DEF ProvidersState, ProvidersFine
  <2>2. /\ d \in ProvidersState /\ d.loading = FALSE /\ d.kind = v.kind
        /\ d.cachedKind = v.cachedKind /\ d.cached = v.cached /\ d.dirty = v.dirty
        /\ d.rows = v.rows /\ d.visible = v.visible /\ d.timer = v.timer
    BY <1>1 DEF ProvidersState, ProvidersFine
  <2>3. providers' = k \/ providers' = d
    BY <2>0 DEF Fetch
  <2> HIDE DEF k, d
  <2> QED
    BY <1>1, <2>1, <2>2, <2>3 DEF ProvidersFine
<1>8. CASE ProvidersEndpoint
  <2> DEFINE k == [v EXCEPT !.pending = {}, !.operating = {}]
             d == Populate(k, v.kind, 0)
  <2>1. /\ k \in ProvidersState /\ k.loading = v.loading /\ k.kind = v.kind
        /\ k.cachedKind = v.cachedKind /\ k.cached = v.cached /\ k.dirty = v.dirty
        /\ k.rows = v.rows /\ k.visible = v.visible /\ k.timer = v.timer
    BY <1>1 DEF ProvidersState, ProvidersFine
  <2>2. providers' = IF d.visible THEN RefreshProviders(d) ELSE d
    BY <1>8 DEF ProvidersEndpoint
  <2>3. v.kind \in ProviderKinds
    BY <1>1 DEF ProvidersState, ProvidersFine
  <2> HIDE DEF k
  <2>4. ProvidersFine(d)
    BY <1>1, <2>1, <2>3, PagesAssumption, PopulateKeeps DEF ProvidersFine
  <2> HIDE DEF d
  <2>5. ProvidersFine(RefreshProviders(d))
    BY <2>4, RefreshKeeps DEF ProvidersFine
  <2> QED
    BY <2>2, <2>4, <2>5
<1>9. CASE ProvidersTimer
  <2> DEFINE k == [v EXCEPT !.timer = FALSE]
  <2>1. /\ k \in ProvidersState /\ k.loading = v.loading /\ k.kind = v.kind
        /\ k.cachedKind = v.cachedKind /\ k.cached = v.cached /\ k.dirty = v.dirty
        /\ k.rows = v.rows /\ k.pending = v.pending
    BY <1>1 DEF ProvidersState, ProvidersFine
  <2>2. providers' = RenderProviders(k)
    BY <1>9 DEF ProvidersTimer
  <2> HIDE DEF k
  <2> QED
    BY <1>1, <2>1, <2>2, RenderProvidersKeeps DEF ProvidersFine
<1> QED
  BY <1>2, <1>3, <1>4, <1>5, <1>6, <1>7, <1>8, <1>9 DEF ProvidersNext

-----------------------------------------------------------------------------
(* The proxies *)

\* The types of ProxiesIInv.
ProxiesState ==
    [visible : BOOLEAN, timer : BOOLEAN, filterTimer : BOOLEAN, filter : BOOLEAN,
     byName : BOOLEAN, groups : GroupLists, delays : Revision,
     active : Names \cup {NoGroup}, groupsDirty : BOOLEAN,
     nodesDirty : BOOLEAN, list : GroupLists, nodes : NodeViews]

\* The groups that are shown are the present ones.
GroupsShown(p) ==
    /\ p.list = p.groups /\ (p.active = NoGroup) = (p.groups = <<>>)
    /\ p.groups # <<>> => Named(p.groups, p.active) # <<>>

\* What does not need a timer ahead.
ProxiesMarked(p) ==
    /\ p \in ProxiesState
    /\ p.groupsDirty => p.nodesDirty
    /\ ~p.groupsDirty => GroupsShown(p)
    /\ ~p.nodesDirty /\ ~p.filterTimer => p.nodes = NodesOf(p)

\* ProxiesIInv of any state of the page.
ProxiesFine(p) == ProxiesMarked(p) /\ (p.visible /\ ~p.timer => ~p.nodesDirty)

\* A list of groups is a sequence of groups.
LEMMA GroupListIs ==
    ASSUME NEW s \in GroupLists
    PROVE  s \in Seq(Group)
<1>1. PICK m \in 0 .. MaxGroups : s \in [1 .. m -> Group]
  BY DEF GroupLists, SeqOf
<1> QED
  BY <1>1

\* A group has a name exactly when the list holds one of that name.
LEMMA NamedIs ==
    ASSUME NEW groups \in GroupLists, NEW name
    PROVE  /\ Named(groups, name) \in Seq(Group)
           /\ Named(groups, name) # <<>>
                 <=> \E i \in 1 .. Len(groups) : groups[i].name = name
<1> DEFINE S == {g \in Group : g.name = name}
<1>1. groups \in Seq(Group)
  BY GroupListIs
<1>2. Named(groups, name) = Only(groups, S)
  BY DEF Named
<1>3. \A i \in 1 .. Len(groups) : groups[i] \in S <=> groups[i].name = name
  BY <1>1
<1> HIDE DEF S
<1>4. Only(groups, S) \in Seq(Group)
  BY <1>1, OnlyType
<1>5. Only(groups, S) = <<>> <=> \A i \in 1 .. Len(groups) : groups[i] \notin S
  BY <1>1, OnlyEmpty
<1> QED
  BY <1>2, <1>3, <1>4, <1>5

\* The nodes to be seen are those of a group, or none.
LEMMA NodesOfIs ==
    ASSUME NEW p \in ProxiesState
    PROVE  NodesOf(p) \in NodeViews
<1> DEFINE found == Named(p.groups, p.active)
<1>1. p.groups \in GroupLists /\ p.delays \in Revision /\ p.filter \in BOOLEAN
      /\ p.byName \in BOOLEAN
  BY DEF ProxiesState
<1>2. found \in Seq(Group)
  BY <1>1, NamedIs
<1>3. NodesOf(p) = IF found = <<>> THEN NoNodes
                   ELSE [group |-> Head(found), delays |-> p.delays, filter |-> p.filter,
                         byName |-> p.byName]
  BY DEF NodesOf
<1> HIDE DEF found
<1>4. found # <<>> => Head(found) \in Group
  BY <1>2
<1> QED
  BY <1>1, <1>3, <1>4 DEF NodeViews

\* The nodes depend on the groups, the chosen one and how they are listed.
LEMMA SameNodes ==
    ASSUME NEW p, NEW q, q.groups = p.groups, q.active = p.active, q.delays = p.delays,
           q.filter = p.filter, q.byName = p.byName
    PROVE  NodesOf(q) = NodesOf(p)
BY DEF NodesOf

\* The nodes to be seen depend on the groups, the choice and the options alone.
LEMMA SameGroups ==
    ASSUME NEW p, NEW q, q.groups = p.groups, q.active = p.active, q.list = p.list
    PROVE  GroupsShown(q) <=> GroupsShown(p)
BY DEF GroupsShown

\* Drawing the groups shows them, with one of them chosen.
LEMMA RenderGroupsIs ==
    ASSUME NEW p \in ProxiesState
    PROVE  LET q == RenderGroups(p) IN
           /\ q \in ProxiesState /\ ~q.groupsDirty /\ GroupsShown(q)
           /\ q.visible = p.visible /\ q.timer = p.timer /\ q.nodesDirty = p.nodesDirty
           /\ q.filterTimer = p.filterTimer
<1> DEFINE a == IF p.groups = <<>> THEN NoGroup
                ELSE IF Named(p.groups, p.active) # <<>> THEN p.active ELSE Head(p.groups).name
           q == [p EXCEPT !.list = p.groups, !.groupsDirty = FALSE, !.active = a]
<1>1. p.groups \in GroupLists /\ p.groups \in Seq(Group) /\ p.active \in Names \cup {NoGroup}
  BY GroupListIs DEF ProxiesState
<1>2. CASE p.groups = <<>>
  <2>1. a = NoGroup
    BY <1>2
  <2> HIDE DEF a
  <2>2. /\ q \in ProxiesState /\ ~q.groupsDirty /\ q.list = p.groups /\ q.groups = p.groups
        /\ q.active = NoGroup
        /\ q.visible = p.visible /\ q.timer = p.timer /\ q.nodesDirty = p.nodesDirty
        /\ q.filterTimer = p.filterTimer
    BY <1>1, <2>1 DEF ProxiesState
  <2>3. RenderGroups(p) = q
    BY DEF RenderGroups, a
  <2> HIDE DEF q
  <2> QED
    BY <1>2, <2>2, <2>3 DEF GroupsShown
<1>3. CASE p.groups # <<>>
  <2>1. /\ 1 \in 1 .. Len(p.groups) /\ Head(p.groups) = p.groups[1]
        /\ \A i \in 1 .. Len(p.groups) : p.groups[i] \in Group
    BY <1>1, <1>3
  <2>2. \A i \in 1 .. Len(p.groups) : p.groups[i].name \in Names
    BY <2>1 DEF Group
  <2>3. a \in Names /\ \E i \in 1 .. Len(p.groups) : p.groups[i].name = a
    <3>1. CASE Named(p.groups, p.active) # <<>>
      <4>1. \E i \in 1 .. Len(p.groups) : p.groups[i].name = p.active
        BY <1>1, <3>1, NamedIs
      <4>2. a = p.active
        BY <1>3, <3>1
      <4> QED
        BY <2>2, <4>1, <4>2
    <3>2. CASE ~(Named(p.groups, p.active) # <<>>)
      BY <1>3, <2>1, <2>2, <3>2
    <3> QED
      BY <3>1, <3>2
  <2> HIDE DEF a
  <2>4. /\ q \in ProxiesState /\ ~q.groupsDirty /\ q.list = p.groups /\ q.groups = p.groups
        /\ q.active = a
        /\ q.visible = p.visible /\ q.timer = p.timer /\ q.nodesDirty = p.nodesDirty
        /\ q.filterTimer = p.filterTimer
    BY <1>1, <2>3 DEF ProxiesState
  <2>5. RenderGroups(p) = q
    BY DEF RenderGroups, a
  <2> HIDE DEF q
  <2>6. a # NoGroup /\ Named(p.groups, a) # <<>>
    BY <1>1, <2>3, NamedIs, PagesAssumption
  <2> QED
    BY <1>3, <2>4, <2>5, <2>6 DEF GroupsShown
<1> QED
  BY <1>2, <1>3

\* Drawing the nodes shows those of the chosen group.
LEMMA RenderNodesIs ==
    ASSUME NEW p \in ProxiesState
    PROVE  LET q == RenderNodes(p) IN
           /\ q \in ProxiesState /\ ~q.nodesDirty /\ q.nodes = NodesOf(q)
           /\ q.groupsDirty = p.groupsDirty
           /\ GroupsShown(q) <=> GroupsShown(p)
<1> DEFINE q == [p EXCEPT !.nodes = NodesOf(p), !.nodesDirty = FALSE]
<1>1. NodesOf(p) \in NodeViews
  BY NodesOfIs
<1>2. /\ q \in ProxiesState /\ ~q.nodesDirty /\ q.nodes = NodesOf(p)
      /\ q.groupsDirty = p.groupsDirty /\ q.groups = p.groups /\ q.active = p.active
      /\ q.delays = p.delays /\ q.filter = p.filter /\ q.byName = p.byName /\ q.list = p.list
  BY <1>1 DEF ProxiesState
<1>3. RenderNodes(p) = q
  BY DEF RenderNodes
<1> HIDE DEF q
<1> QED
  BY <1>2, <1>3, SameNodes, SameGroups

\* Drawing what is marked leaves no mark on a page that is shown.
LEMMA RenderPendingKeeps ==
    ASSUME NEW p, ProxiesMarked(p)
    PROVE  ProxiesFine(RenderPending(p))
<1>1. CASE ~p.visible
  BY <1>1 DEF RenderPending, ProxiesFine
<1>2. CASE p.visible
  <2> DEFINE s == [p EXCEPT !.timer = FALSE]
             g == IF p.groupsDirty THEN RenderGroups(s) ELSE s
             r == IF p.nodesDirty THEN RenderNodes(g) ELSE g
  <2>1. RenderPending(p) = r
    BY <1>2 DEF RenderPending
  <2>2. /\ s \in ProxiesState /\ s.visible = p.visible /\ s.filterTimer = p.filterTimer
        /\ s.filter = p.filter /\ s.byName = p.byName /\ s.groups = p.groups
        /\ s.delays = p.delays /\ s.active = p.active /\ s.groupsDirty = p.groupsDirty
        /\ s.nodesDirty = p.nodesDirty /\ s.list = p.list /\ s.nodes = p.nodes
    BY DEF ProxiesMarked, ProxiesState
  <2> HIDE DEF s
  <2>3. NodesOf(s) = NodesOf(p) /\ (GroupsShown(s) <=> GroupsShown(p))
    BY <2>2, SameNodes, SameGroups
  <2>4. /\ g \in ProxiesState /\ ~g.groupsDirty /\ GroupsShown(g)
        /\ g.nodesDirty = p.nodesDirty
    <3>1. CASE p.groupsDirty
      BY <2>2, <3>1, RenderGroupsIs
    <3>2. CASE ~p.groupsDirty
      BY <2>2, <2>3, <3>2 DEF ProxiesMarked
    <3> QED
      BY <3>1, <3>2
  <2>5. CASE p.nodesDirty
    <3> HIDE DEF g
    <3>1. r = RenderNodes(g)
      BY <2>5
    <3>2. /\ r \in ProxiesState /\ ~r.nodesDirty /\ r.nodes = NodesOf(r)
          /\ r.groupsDirty = g.groupsDirty /\ (GroupsShown(r) <=> GroupsShown(g))
      BY <2>4, <3>1, RenderNodesIs
    <3> HIDE DEF r
    <3> QED
      BY <2>1, <2>4, <3>2 DEF ProxiesFine, ProxiesMarked
  <2>6. CASE ~p.nodesDirty
    <3>1. ~p.groupsDirty
      BY <2>6 DEF ProxiesMarked
    <3>2. r = s
      BY <2>6, <3>1
    <3> HIDE DEF r, g
    <3> QED
      BY <2>1, <2>2, <2>3, <2>6, <3>1, <3>2 DEF ProxiesFine, ProxiesMarked
  <2> QED
    BY <2>5, <2>6
<1> QED
  BY <1>1, <1>2 DEF ProxiesMarked, ProxiesState

\* Every step of the proxies keeps their part of the invariant.
LEMMA ProxiesKeep ==
    ASSUME ProxiesIInv, ProxiesNext
    PROVE  ProxiesIInv'
<1> DEFINE p == proxies
<1>1. ProxiesFine(p)
  BY DEF ProxiesIInv, ProxiesFine, ProxiesMarked, ProxiesState, GroupsShown
<1> SUFFICES ProxiesFine(proxies')
  BY DEF ProxiesIInv, ProxiesFine, ProxiesMarked, ProxiesState, GroupsShown
<1>2. /\ p \in ProxiesState /\ (p.groupsDirty => p.nodesDirty)
      /\ (~p.groupsDirty => GroupsShown(p))
      /\ (~p.nodesDirty /\ ~p.filterTimer => p.nodes = NodesOf(p))
      /\ (p.visible /\ ~p.timer => ~p.nodesDirty)
  BY <1>1 DEF ProxiesFine, ProxiesMarked
<1>3. ASSUME NEW groups \in GroupLists, NEW delays \in Revision,
             OnProxiesUpdated(groups, delays)
      PROVE  ProxiesFine(proxies')
  <2> DEFINE k == [p EXCEPT !.groups = groups, !.delays = delays, !.nodesDirty = TRUE,
                            !.groupsDirty = @ \/ groups # p.groups,
                            !.timer = @ \/ p.visible]
  <2>1. /\ k \in ProxiesState /\ k.groups = groups /\ k.nodesDirty
        /\ k.groupsDirty = (p.groupsDirty \/ groups # p.groups)
        /\ k.timer = (p.timer \/ p.visible)
        /\ k.visible = p.visible /\ k.active = p.active /\ k.list = p.list
    BY <1>2 DEF ProxiesState
  <2>2. proxies' = k
    BY <1>3 DEF OnProxiesUpdated
  <2> HIDE DEF k
  <2>3. ~k.groupsDirty => GroupsShown(k)
    BY <1>2, <2>1, SameGroups
  <2> QED
    BY <2>1, <2>2, <2>3 DEF ProxiesFine, ProxiesMarked
<1>4. CASE OnGroupRowChanged
  <2>1. PICK g \in ToSet(p.list) :
           proxies' = RenderPending([p EXCEPT !.active = g.name, !.nodesDirty = TRUE])
    BY <1>4 DEF OnGroupRowChanged
  <2>2. p.list \in GroupLists /\ p.list \in Seq(Group)
    BY <1>2, GroupListIs DEF ProxiesState
  <2>3. PICK i \in 1 .. Len(p.list) : g = p.list[i]
    BY <2>1, <2>2 DEF ToSet
  <2>4. g \in Group /\ g.name \in Names
    <3>1. p.list[i] \in Group
      BY <2>2
    <3> QED
      BY <2>3, <3>1 DEF Group
  <2> DEFINE k == [p EXCEPT !.active = g.name, !.nodesDirty = TRUE]
  <2>5. /\ k \in ProxiesState /\ k.groups = p.groups /\ k.nodesDirty
        /\ k.groupsDirty = p.groupsDirty /\ k.list = p.list /\ k.active = g.name
    BY <1>2, <2>4 DEF ProxiesState
  <2> HIDE DEF k
  <2>6. ~k.groupsDirty => GroupsShown(k)
    <3>1. SUFFICES ASSUME ~p.groupsDirty PROVE GroupsShown(k)
      BY <2>5
    <3>2. p.list = p.groups
      BY <1>2, <3>1 DEF GroupsShown
    <3>3. Named(p.groups, g.name) # <<>>
      BY <2>2, <2>3, <3>2, NamedIs
    <3>4. p.groups # <<>> /\ g.name # NoGroup
      <4>1. Len(p.groups) # 0
        BY <2>2, <2>3, <3>2
      <4> QED
        BY <2>4, <4>1, PagesAssumption
    <3> QED
      BY <2>5, <3>2, <3>3, <3>4 DEF GroupsShown
  <2>7. ProxiesMarked(k)
    BY <2>5, <2>6 DEF ProxiesMarked
  <2> QED
    BY <2>1, <2>7, RenderPendingKeeps DEF k
<1>5. CASE FilterNodes
  <2> DEFINE k == [p EXCEPT !.filter = ~@, !.filterTimer = TRUE]
  <2>1. /\ k \in ProxiesState /\ k.groups = p.groups /\ k.nodesDirty = p.nodesDirty
        /\ k.groupsDirty = p.groupsDirty /\ k.timer = p.timer /\ k.filterTimer
        /\ k.visible = p.visible /\ k.active = p.active /\ k.list = p.list
    BY <1>2 DEF ProxiesState
  <2>2. proxies' = k
    BY <1>5 DEF FilterNodes
  <2> HIDE DEF k
  <2> QED
    BY <1>2, <2>1, <2>2, SameGroups DEF ProxiesFine, ProxiesMarked
<1>6. CASE FilterTimer
  <2> DEFINE k == [p EXCEPT !.filterTimer = FALSE, !.nodesDirty = TRUE]
  <2>1. /\ k \in ProxiesState /\ k.groups = p.groups /\ k.nodesDirty
        /\ k.groupsDirty = p.groupsDirty /\ k.active = p.active /\ k.list = p.list
    BY <1>2 DEF ProxiesState
  <2>2. proxies' = RenderPending(k)
    BY <1>6 DEF FilterTimer
  <2> HIDE DEF k
  <2>3. ProxiesMarked(k)
    BY <1>2, <2>1, SameGroups DEF ProxiesMarked
  <2> QED
    BY <2>2, <2>3, RenderPendingKeeps
<1>7. CASE SortNodes
  <2> DEFINE k == [p EXCEPT !.byName = ~@, !.nodesDirty = TRUE]
  <2>1. /\ k \in ProxiesState /\ k.groups = p.groups /\ k.nodesDirty
        /\ k.groupsDirty = p.groupsDirty /\ k.active = p.active /\ k.list = p.list
    BY <1>2 DEF ProxiesState
  <2>2. proxies' = RenderPending(k)
    BY <1>7 DEF SortNodes
  <2> HIDE DEF k
  <2>3. ProxiesMarked(k)
    BY <1>2, <2>1, SameGroups DEF ProxiesMarked
  <2> QED
    BY <2>2, <2>3, RenderPendingKeeps
<1>8. ASSUME NEW b \in BOOLEAN, NEW t \in BOOLEAN
      PROVE  LET k == [p EXCEPT !.visible = b, !.timer = t] IN
             ProxiesMarked(k) /\ k.visible = b
  <2> DEFINE k == [p EXCEPT !.visible = b, !.timer = t]
  <2>1. /\ k \in ProxiesState /\ k.groups = p.groups /\ k.nodesDirty = p.nodesDirty
        /\ k.groupsDirty = p.groupsDirty /\ k.filterTimer = p.filterTimer
        /\ k.visible = b /\ k.active = p.active /\ k.list = p.list /\ k.delays = p.delays
        /\ k.filter = p.filter /\ k.byName = p.byName /\ k.nodes = p.nodes
    BY <1>2 DEF ProxiesState
  <2> HIDE DEF k
  <2>2. NodesOf(k) = NodesOf(p) /\ (GroupsShown(k) <=> GroupsShown(p))
    BY <2>1, SameNodes, SameGroups
  <2>3. ProxiesMarked(k)
    BY <1>2, <2>1, <2>2 DEF ProxiesMarked
  <2> QED
    BY <2>1, <2>3 DEF k
<1>9. CASE ShowProxies
  <2> DEFINE k(b) == [p EXCEPT !.visible = b]
             m(b) == [p EXCEPT !.visible = b, !.timer = p.timer]
  <2>1. p.timer \in BOOLEAN /\ \A b : k(b) = m(b)
    BY <1>2 DEF ProxiesState
  <2>2. ProxiesMarked(m(TRUE)) /\ ProxiesMarked(m(FALSE)) /\ m(FALSE).visible = FALSE
    BY <1>8, <2>1
  <2>3. proxies' = IF p.visible THEN k(FALSE) ELSE RenderPending(k(TRUE))
    BY <1>9 DEF ShowProxies
  <2> HIDE DEF k, m
  <2> QED
    BY <2>1, <2>2, <2>3, RenderPendingKeeps DEF ProxiesFine
<1>10. CASE ProxiesTimer
  <2> DEFINE k == [p EXCEPT !.timer = FALSE]
             m == [p EXCEPT !.visible = p.visible, !.timer = FALSE]
  <2>1. p.visible \in BOOLEAN /\ k = m
    BY <1>2 DEF ProxiesState
  <2>2. ProxiesMarked(m)
    BY <1>8, <2>1
  <2>3. proxies' = RenderPending(k)
    BY <1>10 DEF ProxiesTimer
  <2> HIDE DEF k, m
  <2> QED
    BY <2>1, <2>2, <2>3, RenderPendingKeeps
<1> QED
  BY <1>3, <1>4, <1>5, <1>6, <1>7, <1>9, <1>10 DEF ProxiesNext

-----------------------------------------------------------------------------
(* The connections *)

\* The types of ConnectionsIInv.
ConnectionsState ==
    [visible : BOOLEAN, timer : BOOLEAN, tab : Tabs, dirty : SUBSET Tabs,
     rows : Seq(Ids), current : Seq(Ids), closed : Seq(Ids),
     gone : SUBSET Ids, ended : SUBSET Ids]

\* The history of a state of the page.
HistoryFine(c) ==
    /\ c.ended \subseteq c.gone /\ c.gone \cap ToSet(c.current) = {}
    /\ IsInjective(c.closed) /\ ToSet(c.closed) \subseteq c.ended
    /\ Len(c.closed) = Least(HistoryLimit, Cardinality(c.ended))

\* What does not need a timer ahead.
ConnectionsMarked(c) ==
    /\ c \in ConnectionsState /\ HistoryFine(c)
    /\ c.tab \notin c.dirty => c.rows = Wanted(c)

\* ConnectionsIInv of any state of the page.
ConnectionsFine(c) ==
    ConnectionsMarked(c) /\ (c.visible /\ ~c.timer => c.tab \notin c.dirty)

\* The elements of a sequence are in the set it is over.
LEMMA ToSetIs ==
    ASSUME NEW T, NEW s \in Seq(T)
    PROVE  /\ ToSet(s) \subseteq T
           /\ \A i \in 1 .. Len(s) : s[i] \in ToSet(s)
           /\ \A S : ToSet(s) \subseteq S <=> s \in Seq(S)
<1>1. DOMAIN s = 1 .. Len(s) /\ \A i \in 1 .. Len(s) : s[i] \in T
  OBVIOUS
<1>2. ToSet(s) \subseteq T /\ \A i \in 1 .. Len(s) : s[i] \in ToSet(s)
  BY <1>1 DEF ToSet
<1>3. ASSUME NEW S, ToSet(s) \subseteq S
      PROVE  s \in Seq(S)
  <2>1. \A i \in 1 .. Len(s) : s[i] \in S
    BY <1>2, <1>3
  <2> QED
    BY <2>1
<1>4. ASSUME NEW S, s \in Seq(S)
      PROVE  ToSet(s) \subseteq S
  <2>1. \A i \in 1 .. Len(s) : s[i] \in S
    BY <1>4
  <2> QED
    BY <1>1, <2>1 DEF ToSet
<1> QED
  BY <1>2, <1>3, <1>4

\* A set as a sequence, in whatever order,
LEMMA SetToSeqIs ==
    ASSUME NEW S, IsFiniteSet(S)
    PROVE  SetToSeq(S) \in Seq(S) /\ ToSet(SetToSeq(S)) = S
<1> DEFINE n == Cardinality(S)
           q == SetToSeq(S)
<1>1. n \in Nat /\ ExistsBijection(1 .. n, S)
  BY FS_CardinalityType
<1>2. PICK f \in Bijection(1 .. n, S) : TRUE
  BY <1>1 DEF ExistsBijection
<1>3. f \in [1 .. n -> S] /\ IsInjective(f)
  BY <1>2 DEF Bijection, Injection
<1>4. q \in [1 .. n -> S] /\ IsInjective(q)
  BY <1>3 DEF SetToSeq
<1> HIDE DEF q
<1>5. q \in Injection(1 .. n, S)
  BY <1>4 DEF Injection
<1>6. Cardinality(1 .. n) = n
  <2>1. n \in Int /\ 1 \in Int
    BY <1>1
  <2>2. Cardinality(1 .. n) = IF 1 > n THEN 0 ELSE n - 1 + 1
    BY <2>1, FS_Interval
  <2> HIDE DEF n
  <2> QED
    BY <1>1, <2>2
<1> HIDE DEF n
<1>7. q \in Surjection(1 .. n, S)
  BY <1>5, <1>6, FS_Injection DEF n
<1>8. q \in Seq(S)
  BY <1>1, <1>4
<1>9. \A t \in S : \E i \in 1 .. n : q[i] = t
  BY <1>7 DEF Surjection
<1>10. ToSet(q) = S
  BY <1>4, <1>9 DEF ToSet
<1> QED
  BY <1>8, <1>10 DEF q

\* and any sequence of its elements, each once.
LEMMA SetToSeqsIs ==
    ASSUME NEW S, IsFiniteSet(S), NEW q \in SetToSeqs(S)
    PROVE  q \in Seq(S) /\ Len(q) = Cardinality(S) /\ IsInjective(q)
<1> DEFINE n == Cardinality(S)
<1>1. n \in Nat
  BY FS_CardinalityType
<1>2. q \in [1 .. n -> S] /\ \A i, j \in 1 .. n : i # j => q[i] # q[j]
  BY DEF SetToSeqs
<1> HIDE DEF n
<1>3. DOMAIN q = 1 .. n /\ q \in Seq(S) /\ Len(q) = n
  BY <1>1, <1>2
<1>4. IsInjective(q)
  BY <1>2, <1>3 DEF IsInjective
<1> QED
  BY <1>3, <1>4 DEF n

\* The history with those that ended last before it: each once, if they were
\* not in it, and as many as it keeps.
LEMMA RememberIs ==
    ASSUME NEW F, NEW E, NEW newest, NEW closed, F \cap E = {},
           newest \in Seq(F), IsInjective(newest), Len(newest) <= HistoryLimit,
           closed \in Seq(E), IsInjective(closed)
    PROVE  /\ Remember(newest, closed) \in Seq(F \cup E) /\ IsInjective(Remember(newest, closed))
           /\ Len(Remember(newest, closed))
                 = Len(newest) + Least(Len(closed), HistoryLimit - Len(newest))
<1> DEFINE m == Least(Len(closed), HistoryLimit - Len(newest))
           u == SubSeq(closed, 1, m)
           r == newest \o u
           k == Len(newest)
<1>1. m \in Nat /\ m <= Len(closed) /\ k \in Nat
  BY PagesAssumption DEF Least
<1>2. /\ u \in Seq(E) /\ Len(u) = m
      /\ \A i \in 1 .. m : i \in 1 .. Len(closed) /\ u[i] = closed[i]
  <2> HIDE DEF m
  <2>1. \A i \in 1 .. m : i \in 1 .. Len(closed) /\ closed[i] \in E
    BY <1>1
  <2>2. SubSeq(closed, 1, m) \in Seq(E)
    BY <1>1, <2>1
  <2>3. Len(SubSeq(closed, 1, m)) = m
    BY <1>1
  <2>4. \A i \in 1 .. m : SubSeq(closed, 1, m)[i] = closed[i]
    BY <1>1
  <2> QED
    BY <2>1, <2>2, <2>3, <2>4
<1>3. Remember(newest, closed) = r
  BY DEF Remember
<1> HIDE DEF u, m
<1>4. newest \in Seq(F \cup E) /\ u \in Seq(F \cup E)
  <2>1. newest \in Seq(F \cup E)
    OBVIOUS
  <2>2. u \in Seq(F \cup E)
    BY <1>2
  <2> QED
    BY <2>1, <2>2
<1>5. /\ r \in Seq(F \cup E) /\ Len(r) = k + m
      /\ \A i \in 1 .. k + m : r[i] = IF i <= k THEN newest[i] ELSE u[i - k]
  BY <1>2, <1>4, ConcatIs
<1> HIDE DEF r
<1>6. /\ DOMAIN r = 1 .. k + m /\ DOMAIN newest = 1 .. k /\ DOMAIN closed = 1 .. Len(closed)
      /\ \A i \in 1 .. k : newest[i] \in F
      /\ \A i \in 1 .. m : u[i] \in E
  BY <1>2, <1>5
<1> HIDE DEF k
<1>7. ASSUME NEW i \in 1 .. k + m, NEW j \in 1 .. k + m, r[i] = r[j]
      PROVE  i = j
  <2>1. CASE i <= k /\ j <= k
    <3>1. i \in 1 .. k /\ j \in 1 .. k
      BY <1>1, <2>1
    <3> QED
      BY <1>5, <1>6, <1>7, <2>1, <3>1 DEF IsInjective
  <2>2. CASE ~(i <= k) /\ ~(j <= k)
    <3>1. i - k \in 1 .. m /\ j - k \in 1 .. m
      BY <1>1, <2>2
    <3>2. r[i] = closed[i - k] /\ r[j] = closed[j - k]
      BY <1>2, <1>5, <2>2, <3>1
    <3>3. i - k = j - k
      BY <1>2, <1>6, <1>7, <3>1, <3>2 DEF IsInjective
    <3> QED
      BY <1>1, <3>3
  <2>3. ASSUME NEW a \in 1 .. k + m, NEW b \in 1 .. k + m, a <= k, ~(b <= k)
        PROVE  r[a] # r[b]
    <3>1. a \in 1 .. k /\ b - k \in 1 .. m
      BY <1>1, <2>3
    <3>2. r[a] \in F /\ r[b] \in E
      BY <1>5, <1>6, <2>3, <3>1
    <3> QED
      BY <3>2
  <2> QED
    BY <1>7, <2>1, <2>2, <2>3
<1>8. IsInjective(r)
  BY <1>6, <1>7 DEF IsInjective
<1> QED
  BY <1>3, <1>5, <1>8 DEF m, k

\* Drawing a page that is shown leaves its tab without a mark.
LEMMA RenderConnectionsKeeps ==
    ASSUME NEW c, ConnectionsMarked(c)
    PROVE  ConnectionsFine(RenderConnections(c))
<1>1. CASE ~c.visible
  BY <1>1 DEF RenderConnections, ConnectionsFine
<1>2. CASE c.visible /\ c.tab \notin c.dirty
  <2> DEFINE k == [c EXCEPT !.timer = FALSE]
  <2>1. /\ k \in ConnectionsState /\ k.tab = c.tab /\ k.dirty = c.dirty /\ k.rows = c.rows
        /\ k.current = c.current /\ k.closed = c.closed /\ k.gone = c.gone /\ k.ended = c.ended
    BY DEF ConnectionsMarked, ConnectionsState
  <2>2. RenderConnections(c) = k
    BY <1>2 DEF RenderConnections
  <2> HIDE DEF k
  <2>3. Wanted(k) = Wanted(c) /\ HistoryFine(k)
    BY <2>1 DEF Wanted, HistoryFine, ConnectionsMarked
  <2> QED
    BY <1>2, <2>1, <2>2, <2>3 DEF ConnectionsMarked, ConnectionsFine
<1>3. CASE c.visible /\ c.tab \in c.dirty
  <2> DEFINE w == Wanted(c)
             d == c.dirty \ {c.tab}
             k == [c EXCEPT !.timer = FALSE, !.rows = w, !.dirty = d]
  <2>1. w \in Seq(Ids) /\ d \subseteq Tabs /\ c.tab \notin d
    BY DEF ConnectionsMarked, ConnectionsState, Wanted
  <2>2. RenderConnections(c) = k
    BY <1>3 DEF RenderConnections
  <2> HIDE DEF w, d
  <2>3. /\ k \in ConnectionsState /\ k.tab = c.tab /\ k.dirty = d /\ k.rows = w
        /\ k.current = c.current /\ k.closed = c.closed /\ k.gone = c.gone /\ k.ended = c.ended
    BY <2>1 DEF ConnectionsMarked, ConnectionsState
  <2> HIDE DEF k
  <2>4. Wanted(k) = w /\ HistoryFine(k)
    BY <2>3 DEF Wanted, HistoryFine, ConnectionsMarked, w
  <2> QED
    BY <2>1, <2>2, <2>3, <2>4 DEF ConnectionsMarked, ConnectionsFine
<1> QED
  BY <1>1, <1>2, <1>3 DEF ConnectionsMarked, ConnectionsState

\* An empty history is that of no connection.
LEMMA NothingEnded ==
    /\ <<>> \in Seq(Ids) /\ ToSet(<<>>) = {} /\ IsInjective(<<>>)
    /\ Len(<<>>) = Least(HistoryLimit, Cardinality({}))
<1>1. <<>> \in Seq(Ids)
  OBVIOUS
<1>2. ToSet(<<>>) = {} /\ IsInjective(<<>>)
  <2>1. DOMAIN <<>> = {}
    OBVIOUS
  <2> QED
    BY <2>1 DEF ToSet, IsInjective
<1>3. Len(<<>>) = Least(HistoryLimit, Cardinality({}))
  <2>1. Cardinality({}) = 0
    BY FS_EmptySet
  <2>2. Least(HistoryLimit, 0) = 0
    BY PagesAssumption DEF Least
  <2> QED
    BY <2>1, <2>2
<1> QED
  BY <1>1, <1>2, <1>3

\* An update keeps the last that ended, each once.
LEMMA UpdateKeeps ==
    ASSUME ConnectionsFine(connections), NEW ids \in SUBSET (Ids \ connections.gone),
           OnConnectionsUpdated(ids)
    PROVE  ConnectionsFine(connections')
<1> DEFINE c == connections
           fresh == ToSet(c.current) \ ids
<1>1. c \in ConnectionsState /\ HistoryFine(c) /\ (c.tab \notin c.dirty => c.rows = Wanted(c))
  BY DEF ConnectionsFine, ConnectionsMarked
<1>2. /\ c.current \in Seq(Ids) /\ c.closed \in Seq(Ids) /\ c.gone \subseteq Ids
      /\ c.ended \subseteq Ids /\ c.tab \in Tabs /\ c.dirty \subseteq Tabs
      /\ c.visible \in BOOLEAN /\ c.timer \in BOOLEAN /\ ids \subseteq Ids
  BY <1>1 DEF ConnectionsState
<1>3. fresh \subseteq Ids
  BY <1>2, ToSetIs
<1>4. IsFiniteSet(ids) /\ IsFiniteSet(fresh) /\ IsFiniteSet(c.ended) /\ IsFiniteSet(Ids)
  <2>1. IsFiniteSet(Ids)
    BY PagesAssumption
  <2> HIDE DEF fresh
  <2> QED
    BY <1>2, <1>3, <2>1, FS_Subset
<1>5. fresh \cap c.gone = {} /\ fresh \cap c.ended = {} /\ fresh \cap ids = {}
  BY <1>1 DEF HistoryFine
<1>6. PICK kept \in SUBSET fresh : \E newest \in SetToSeqs(kept) :
         /\ Len(newest) <= HistoryLimit /\ (kept = fresh \/ Len(newest) = HistoryLimit)
         /\ connections' =
              [c EXCEPT !.current = SetToSeq(ids), !.timer = @ \/ c.visible,
                        !.closed = IF fresh = {} THEN @ ELSE Remember(newest, @),
                        !.dirty = @ \cup (IF fresh = {} THEN {"active"} ELSE Tabs),
                        !.gone = @ \cup fresh, !.ended = @ \cup fresh]
  BY DEF OnConnectionsUpdated
<1>7. PICK newest \in SetToSeqs(kept) :
         /\ Len(newest) <= HistoryLimit /\ (kept = fresh \/ Len(newest) = HistoryLimit)
         /\ connections' =
              [c EXCEPT !.current = SetToSeq(ids), !.timer = @ \/ c.visible,
                        !.closed = IF fresh = {} THEN @ ELSE Remember(newest, @),
                        !.dirty = @ \cup (IF fresh = {} THEN {"active"} ELSE Tabs),
                        !.gone = @ \cup fresh, !.ended = @ \cup fresh]
  BY <1>6
<1> HIDE DEF fresh
<1> DEFINE current == SetToSeq(ids)
           closed == IF fresh = {} THEN c.closed ELSE Remember(newest, c.closed)
           dirty == c.dirty \cup (IF fresh = {} THEN {"active"} ELSE Tabs)
           gone == c.gone \cup fresh
           ended == c.ended \cup fresh
           timer == c.timer \/ c.visible
           k == [c EXCEPT !.current = current, !.timer = timer, !.closed = closed,
                          !.dirty = dirty, !.gone = gone, !.ended = ended]
<1>8. connections' = k
  BY <1>7
<1>9. current \in Seq(Ids) /\ ToSet(current) = ids
  <2>1. SetToSeq(ids) \in Seq(ids) /\ ToSet(SetToSeq(ids)) = ids
    BY <1>4, SetToSeqIs
  <2>2. SetToSeq(ids) \in Seq(Ids)
    BY <1>2, <2>1
  <2> QED
    BY <2>1, <2>2
<1>10. /\ IsFiniteSet(kept) /\ newest \in Seq(fresh) /\ Len(newest) = Cardinality(kept)
       /\ IsInjective(newest) /\ Cardinality(kept) <= Cardinality(fresh)
  <2>1. IsFiniteSet(kept) /\ Cardinality(kept) <= Cardinality(fresh)
    BY <1>4, <1>6, FS_Subset
  <2>2. newest \in Seq(kept) /\ Len(newest) = Cardinality(kept) /\ IsInjective(newest)
    BY <1>7, <2>1, SetToSeqsIs
  <2>3. newest \in Seq(fresh)
    BY <1>6, <2>2
  <2> QED
    BY <2>1, <2>2, <2>3
<1>11. /\ c.closed \in Seq(c.ended) /\ IsInjective(c.closed)
       /\ Len(c.closed) = Least(HistoryLimit, Cardinality(c.ended))
  BY <1>1, <1>2, ToSetIs DEF HistoryFine
<1>12. /\ Cardinality(ended) = Cardinality(c.ended) + Cardinality(fresh)
       /\ Cardinality(c.ended) \in Nat /\ Cardinality(fresh) \in Nat
  <2>1. Cardinality(c.ended \cup fresh)
           = Cardinality(c.ended) + Cardinality(fresh) - Cardinality(c.ended \cap fresh)
    BY <1>4, FS_Union
  <2>2. Cardinality(c.ended \cap fresh) = 0
    BY <1>5, FS_EmptySet
  <2>3. Cardinality(c.ended) \in Nat /\ Cardinality(fresh) \in Nat
    BY <1>4, FS_CardinalityType
  <2> QED
    BY <2>1, <2>2, <2>3
<1>13. /\ closed \in Seq(ended) /\ IsInjective(closed)
       /\ Len(closed) = Least(HistoryLimit, Cardinality(ended))
  <2>1. CASE fresh = {}
    <3>1. ended = c.ended /\ closed = c.closed
      BY <2>1
    <3> QED
      BY <1>11, <3>1
  <2>2. CASE fresh # {}
    <3> DEFINE r == Remember(newest, c.closed)
    <3>1. /\ r \in Seq(fresh \cup c.ended) /\ IsInjective(r)
          /\ Len(r) = Len(newest) + Least(Len(c.closed), HistoryLimit - Len(newest))
      <4> DEFINE q == newest
                 z == c.closed
                 E == c.ended
      <4>1. /\ fresh \cap E = {} /\ q \in Seq(fresh) /\ IsInjective(q)
            /\ Len(q) <= HistoryLimit /\ z \in Seq(E) /\ IsInjective(z)
        BY <1>5, <1>7, <1>10, <1>11
      <4> HIDE DEF q, z, E
      <4>2. /\ Remember(q, z) \in Seq(fresh \cup E) /\ IsInjective(Remember(q, z))
            /\ Len(Remember(q, z)) = Len(q) + Least(Len(z), HistoryLimit - Len(q))
        BY <4>1, RememberIs
      <4> QED
        BY <4>2 DEF q, z, E
    <3>2. closed = r /\ fresh \cup c.ended = ended
      BY <2>2
    <3> HIDE DEF r, closed, ended
    <3>3. Len(r) = Least(HistoryLimit, Cardinality(ended))
      <4> DEFINE e == Cardinality(c.ended)
                 f == Cardinality(fresh)
                 a == Len(newest)
      <4>1. e \in Nat /\ f \in Nat /\ a \in Nat /\ HistoryLimit \in Nat
        BY <1>10, <1>12, PagesAssumption
      <4>2. a <= HistoryLimit /\ a <= f /\ (a = f \/ a = HistoryLimit)
        BY <1>7, <1>10
      <4>3. /\ Len(r) = a + Least(Least(HistoryLimit, e), HistoryLimit - a)
            /\ Cardinality(ended) = e + f
        BY <1>11, <1>12, <3>1
      <4> HIDE DEF e, f, a
      <4> QED
        BY <4>1, <4>2, <4>3 DEF Least
    <3> QED
      BY <3>1, <3>2, <3>3
  <2> QED
    BY <2>1, <2>2
<1>14. ended \subseteq gone /\ gone \subseteq Ids /\ ended \subseteq Ids /\ gone \cap ids = {}
  BY <1>1, <1>2, <1>3, <1>5 DEF HistoryFine
<1>15. dirty \subseteq Tabs /\ timer \in BOOLEAN
  BY <1>2 DEF Tabs
<1>16. closed \in Seq(Ids) /\ ToSet(closed) \subseteq ended
  <2> HIDE DEF closed, ended
  <2>1. closed \in Seq(Ids)
    BY <1>13, <1>14
  <2> QED
    BY <1>13, <2>1, ToSetIs
<1>17. c.tab \notin dirty => c.rows = IF c.tab = "active" THEN current ELSE closed
  <2>1. c.tab \notin dirty => fresh = {} /\ c.tab # "active" /\ c.tab \notin c.dirty
    BY <1>2
  <2>2. fresh = {} => closed = c.closed
    OBVIOUS
  <2> QED
    BY <1>1, <2>1, <2>2 DEF Wanted
<1>18. c.visible => timer
  OBVIOUS
<1> HIDE DEF current, closed, dirty, gone, ended, timer
<1>19. /\ k \in ConnectionsState /\ k.tab = c.tab /\ k.dirty = dirty /\ k.rows = c.rows
       /\ k.current = current /\ k.closed = closed /\ k.gone = gone /\ k.ended = ended
       /\ k.timer = timer /\ k.visible = c.visible
  BY <1>1, <1>9, <1>14, <1>15, <1>16 DEF ConnectionsState
<1> HIDE DEF k
<1>20. HistoryFine(k)
  BY <1>9, <1>13, <1>14, <1>16, <1>19 DEF HistoryFine
<1> QED
  BY <1>8, <1>17, <1>18, <1>19, <1>20 DEF ConnectionsFine, ConnectionsMarked, Wanted

\* Every step of the connections keeps their part of the invariant.
LEMMA ConnectionsKeep ==
    ASSUME ConnectionsIInv, ConnectionsNext
    PROVE  ConnectionsIInv'
<1> DEFINE c == connections
<1>1. ConnectionsFine(c)
  BY DEF ConnectionsIInv, ConnectionsFine, ConnectionsMarked, ConnectionsState, HistoryFine
<1> SUFFICES ConnectionsFine(connections')
  BY DEF ConnectionsIInv, ConnectionsFine, ConnectionsMarked, ConnectionsState, HistoryFine
<1>2. /\ c \in ConnectionsState /\ HistoryFine(c)
      /\ (c.tab \notin c.dirty => c.rows = Wanted(c))
      /\ (c.visible /\ ~c.timer => c.tab \notin c.dirty)
  BY <1>1 DEF ConnectionsFine, ConnectionsMarked
<1>3. ASSUME NEW ids \in SUBSET (Ids \ c.gone), OnConnectionsUpdated(ids)
      PROVE  ConnectionsFine(connections')
  BY <1>1, <1>3, UpdateKeeps
<1>4. CASE ResetConnections
  <2> DEFINE k == [c EXCEPT !.current = <<>>, !.closed = <<>>, !.ended = {}, !.dirty = Tabs]
  <2>1. /\ k \in ConnectionsState /\ k.tab = c.tab /\ k.dirty = Tabs
        /\ k.current = <<>> /\ k.closed = <<>> /\ k.gone = c.gone /\ k.ended = {}
    BY <1>2, NothingEnded DEF ConnectionsState
  <2>2. connections' = RenderConnections(k)
    BY <1>4 DEF ResetConnections
  <2> HIDE DEF k
  <2>3. HistoryFine(k)
    BY <2>1, NothingEnded DEF HistoryFine
  <2>4. ConnectionsMarked(k)
    BY <2>1, <2>3 DEF ConnectionsMarked, ConnectionsState
  <2> QED
    BY <2>2, <2>4, RenderConnectionsKeeps
<1>5. CASE ChooseTab
  <2>1. PICK t \in Tabs : connections' = RenderConnections([c EXCEPT !.tab = t, !.dirty = Tabs])
    <3>1. c.tab \in Tabs /\ \E t \in Tabs : t # c.tab
      BY <1>2 DEF ConnectionsState, Tabs
    <3> QED
      BY <1>5, <3>1 DEF ChooseTab
  <2> DEFINE k == [c EXCEPT !.tab = t, !.dirty = Tabs]
  <2>2. /\ k \in ConnectionsState /\ k.tab = t /\ k.dirty = Tabs
        /\ k.current = c.current /\ k.closed = c.closed /\ k.gone = c.gone /\ k.ended = c.ended
    BY <1>2 DEF ConnectionsState
  <2> HIDE DEF k
  <2>3. ConnectionsMarked(k)
    BY <1>2, <2>2 DEF ConnectionsMarked, HistoryFine
  <2> QED
    BY <2>1, <2>3, RenderConnectionsKeeps DEF k
<1>6. CASE ClearHistory
  <2> DEFINE d == c.dirty \cup {"closed"}
             k == [c EXCEPT !.closed = <<>>, !.ended = {}, !.dirty = d]
  <2>1. d \subseteq Tabs /\ c.tab = "closed" /\ c.tab \in d
    BY <1>2, <1>6 DEF ConnectionsState, Tabs, ClearHistory
  <2>2. connections' = RenderConnections(k)
    BY <1>6 DEF ClearHistory
  <2> HIDE DEF d
  <2>3. /\ k \in ConnectionsState /\ k.tab = c.tab /\ k.dirty = d
        /\ k.current = c.current /\ k.closed = <<>> /\ k.gone = c.gone /\ k.ended = {}
    BY <1>2, <2>1, NothingEnded DEF ConnectionsState
  <2> HIDE DEF k
  <2>4. HistoryFine(k)
    BY <1>2, <2>3, NothingEnded DEF HistoryFine
  <2>5. ConnectionsMarked(k)
    BY <2>1, <2>3, <2>4 DEF ConnectionsMarked
  <2> QED
    BY <2>2, <2>5, RenderConnectionsKeeps
<1>7. ASSUME NEW b \in BOOLEAN, NEW t \in BOOLEAN
      PROVE  LET k == [c EXCEPT !.visible = b, !.timer = t] IN
             ConnectionsMarked(k) /\ k.visible = b
  <2> DEFINE k == [c EXCEPT !.visible = b, !.timer = t]
  <2>1. /\ k \in ConnectionsState /\ k.tab = c.tab /\ k.dirty = c.dirty /\ k.rows = c.rows
        /\ k.current = c.current /\ k.closed = c.closed /\ k.gone = c.gone /\ k.ended = c.ended
        /\ k.visible = b
    BY <1>2 DEF ConnectionsState
  <2> HIDE DEF k
  <2>2. Wanted(k) = Wanted(c) /\ HistoryFine(k)
    BY <1>2, <2>1 DEF Wanted, HistoryFine
  <2>3. ConnectionsMarked(k)
    BY <1>2, <2>1, <2>2 DEF ConnectionsMarked
  <2> QED
    BY <2>1, <2>3 DEF k
<1>8. CASE ShowConnections
  <2> DEFINE k(b) == [c EXCEPT !.visible = b]
             m(b) == [c EXCEPT !.visible = b, !.timer = c.timer]
  <2>1. c.timer \in BOOLEAN /\ \A b : k(b) = m(b)
    BY <1>2 DEF ConnectionsState
  <2>2. ConnectionsMarked(m(TRUE)) /\ ConnectionsMarked(m(FALSE)) /\ m(FALSE).visible = FALSE
    BY <1>7, <2>1
  <2>3. connections' = IF c.visible THEN k(FALSE) ELSE RenderConnections(k(TRUE))
    BY <1>8 DEF ShowConnections
  <2> HIDE DEF k, m
  <2> QED
    BY <2>1, <2>2, <2>3, RenderConnectionsKeeps DEF ConnectionsFine
<1>9. CASE ConnectionsTimer
  <2> DEFINE k == [c EXCEPT !.timer = FALSE]
             m == [c EXCEPT !.visible = c.visible, !.timer = FALSE]
  <2>1. c.visible \in BOOLEAN /\ k = m
    BY <1>2 DEF ConnectionsState
  <2>2. ConnectionsMarked(m)
    BY <1>7, <2>1
  <2>3. connections' = RenderConnections(k)
    BY <1>9 DEF ConnectionsTimer
  <2> HIDE DEF k, m
  <2> QED
    BY <2>1, <2>2, <2>3, RenderConnectionsKeeps
<1> QED
  BY <1>3, <1>4, <1>5, <1>6, <1>8, <1>9 DEF ConnectionsNext

-----------------------------------------------------------------------------
(* The traffic history *)

\* The history is the end of all samples that GraphIInv describes.
HistoryKept(all, history, now) ==
    /\ \A i \in 1 .. Len(all) : all[i].at <= now
    /\ \A i, j \in 1 .. Len(all) : i < j => all[i].at < all[j].at
    /\ Len(history) <= Least(MaxSamples, Len(all))
    /\ history = Newest(all, Len(history)) /\ (history = <<>> => all = <<>>)
    /\ \/ Len(history) = Least(MaxSamples, Len(all))
       \/ all[Len(all) - Len(history)].at + Retention < now

\* The samples that have not expired.
Recent(now) == {p \in Sample : p.at + Retention >= now}

\* The end of a sequence, one longer.
LEMMA AppendNewest ==
    ASSUME NEW T, NEW s \in Seq(T), NEW x \in T, NEW m \in 0 .. Len(s)
    PROVE  Newest(Append(s, x), m + 1) = Append(Newest(s, m), x)
<1> DEFINE e == Newest(s, m)
           a == Append(e, x)
           b == Append(s, x)
           d == Newest(b, m + 1)
<1>1. m \in Nat /\ m <= Len(s) /\ Len(s) \in Nat /\ m + 1 \in Nat
  OBVIOUS
<1>2. /\ e \in Seq(T) /\ Len(e) = m
      /\ \A i \in 1 .. m : (Len(s) - m) + i \in 1 .. Len(s) /\ e[i] = s[(Len(s) - m) + i]
  <2> HIDE DEF e
  <2>1. /\ e \in Seq(T) /\ Len(e) = (IF Len(s) > m THEN m ELSE Len(s))
        /\ \A i \in 1 .. Len(e) :
              (Len(s) - Len(e)) + i \in 1 .. Len(s) /\ e[i] = s[(Len(s) - Len(e)) + i]
    BY <1>1, NewestIs DEF e
  <2>2. Len(e) = m
    BY <1>1, <2>1
  <2> QED
    BY <2>1, <2>2
<1> HIDE DEF e
<1>3. /\ a \in Seq(T) /\ Len(a) = m + 1 /\ a[m + 1] = x
      /\ \A i \in 1 .. m : a[i] = e[i]
  BY <1>2
<1>4. /\ b \in Seq(T) /\ Len(b) = Len(s) + 1 /\ b[Len(s) + 1] = x
      /\ \A i \in 1 .. Len(s) : b[i] = s[i]
  OBVIOUS
<1> HIDE DEF a, b
<1>5. /\ d \in Seq(T) /\ Len(d) = m + 1
      /\ \A i \in 1 .. m + 1 : d[i] = b[(Len(s) - m) + i]
  <2> HIDE DEF d
  <2>1. /\ d \in Seq(T) /\ Len(d) = (IF Len(b) > m + 1 THEN m + 1 ELSE Len(b))
        /\ \A i \in 1 .. Len(d) :
              (Len(b) - Len(d)) + i \in 1 .. Len(b) /\ d[i] = b[(Len(b) - Len(d)) + i]
    BY <1>1, <1>4, NewestIs DEF d
  <2>2. Len(d) = m + 1 /\ Len(b) - Len(d) = Len(s) - m
    BY <1>1, <1>4, <2>1
  <2> QED
    BY <2>1, <2>2
<1> HIDE DEF d
<1>6. ASSUME NEW i \in 1 .. Len(d)
      PROVE  d[i] = a[i]
  <2>1. CASE i = m + 1
    <3>1. (Len(s) - m) + i = Len(s) + 1
      BY <1>1, <2>1
    <3> QED
      BY <1>3, <1>4, <1>5, <2>1, <3>1
  <2>2. CASE i \in 1 .. m
    <3>1. (Len(s) - m) + i \in 1 .. Len(s)
      BY <1>2, <2>2
    <3> QED
      BY <1>2, <1>3, <1>4, <1>5, <2>2, <3>1
  <2> QED
    BY <1>1, <1>5, <2>1, <2>2
<1>7. d = a
  BY <1>3, <1>5, <1>6, SameElements
<1> QED
  BY <1>7 DEF d, a, b, e

\* The end of the end is the shorter end.
LEMMA NewestTwice ==
    ASSUME NEW T, NEW s \in Seq(T), NEW a \in 0 .. Len(s), NEW n \in Nat
    PROVE  /\ Newest(Newest(s, a), n) = Newest(s, Least(a, n))
           /\ Len(Newest(s, a)) = a /\ Newest(s, a) \in Seq(T)
           /\ \A i \in 1 .. a : (Len(s) - a) + i \in 1 .. Len(s)
                                /\ Newest(s, a)[i] = s[(Len(s) - a) + i]
<1> DEFINE e == Newest(s, a)
           d == Newest(e, n)
           b == Least(a, n)
           f == Newest(s, b)
<1>1. a \in Nat /\ a <= Len(s) /\ Len(s) \in Nat
  OBVIOUS
<1>2. /\ e \in Seq(T) /\ Len(e) = a
      /\ \A i \in 1 .. a : (Len(s) - a) + i \in 1 .. Len(s) /\ e[i] = s[(Len(s) - a) + i]
  <2> HIDE DEF e
  <2>1. /\ e \in Seq(T) /\ Len(e) = (IF Len(s) > a THEN a ELSE Len(s))
        /\ \A i \in 1 .. Len(e) :
              (Len(s) - Len(e)) + i \in 1 .. Len(s) /\ e[i] = s[(Len(s) - Len(e)) + i]
    BY <1>1, NewestIs DEF e
  <2>2. Len(e) = a
    BY <1>1, <2>1
  <2> QED
    BY <2>1, <2>2
<1> HIDE DEF e
<1>3. b \in Nat /\ b <= a /\ b <= Len(s) /\ (b = a \/ b = n) /\ b <= n
  BY <1>1 DEF Least
<1> HIDE DEF b
<1>4. /\ f \in Seq(T) /\ Len(f) = b
      /\ \A i \in 1 .. b : (Len(s) - b) + i \in 1 .. Len(s) /\ f[i] = s[(Len(s) - b) + i]
  <2> HIDE DEF f
  <2>1. /\ f \in Seq(T) /\ Len(f) = (IF Len(s) > b THEN b ELSE Len(s))
        /\ \A i \in 1 .. Len(f) :
              (Len(s) - Len(f)) + i \in 1 .. Len(s) /\ f[i] = s[(Len(s) - Len(f)) + i]
    BY <1>3, NewestIs DEF f
  <2>2. Len(f) = b
    BY <1>1, <1>3, <2>1
  <2> QED
    BY <2>1, <2>2
<1> HIDE DEF f
<1>5. /\ d \in Seq(T) /\ Len(d) = b
      /\ \A i \in 1 .. b : (a - b) + i \in 1 .. a /\ d[i] = e[(a - b) + i]
  <2> HIDE DEF d
  <2>1. /\ d \in Seq(T) /\ Len(d) = (IF a > n THEN n ELSE a)
        /\ \A i \in 1 .. Len(d) :
              (a - Len(d)) + i \in 1 .. a /\ d[i] = e[(a - Len(d)) + i]
    BY <1>2, NewestIs DEF d
  <2>2. Len(d) = b
    BY <1>1, <1>3, <2>1
  <2> QED
    BY <2>1, <2>2
<1> HIDE DEF d
<1>6. ASSUME NEW i \in 1 .. Len(d)
      PROVE  d[i] = f[i]
  <2>1. i \in 1 .. b /\ (a - b) + i \in 1 .. a
    BY <1>5
  <2>2. d[i] = s[(Len(s) - a) + ((a - b) + i)]
    BY <1>2, <1>5, <2>1
  <2>3. (Len(s) - a) + ((a - b) + i) = (Len(s) - b) + i
    BY <1>1, <1>3
  <2> QED
    BY <1>4, <2>1, <2>2, <2>3
<1>7. d = f
  BY <1>4, <1>5, <1>6, SameElements
<1> QED
  BY <1>2, <1>7 DEF d, e, f, b

\* Of samples in the order of their time, those that have not expired are the
\* last ones.
LEMMA RecentIs ==
    ASSUME NEW now \in Nat, NEW s \in Seq(Sample),
           \A i, j \in 1 .. Len(s) : i < j => s[i].at < s[j].at
    PROVE  \E m \in 0 .. Len(s) :
              /\ Only(s, Recent(now)) = Newest(s, m)
              /\ \A i \in 1 .. Len(s) - m : s[i].at + Retention < now
<1> DEFINE Sorted(q) == \A i, j \in 1 .. Len(q) : i < j => q[i].at < q[j].at
           Ends(q, m) == /\ Only(q, Recent(now)) = Newest(q, m)
                         /\ \A i \in 1 .. Len(q) - m : q[i].at + Retention < now
           Q == {q \in Seq(Sample) : Sorted(q) => \E m \in 0 .. Len(q) : Ends(q, m)}
<1>1. <<>> \in Q
  <2>1. <<>> \in Seq(Sample) /\ 0 \in 0 .. Len(<<>>) /\ Len(<<>>) = 0
    OBVIOUS
  <2>2. Newest(<<>>, 0) = <<>> /\ Only(<<>>, Recent(now)) = <<>>
    <3>1. 0 \in Nat /\ Len(<<>>) <= 0
      OBVIOUS
    <3> QED
      BY <2>1, <3>1, NewestIs, OnlyNil
  <2>3. Ends(<<>>, 0)
    BY <2>1, <2>2
  <2> HIDE DEF Ends
  <2> QED
    BY <2>1, <2>3
<1>2. ASSUME NEW q \in Seq(Sample), NEW x \in Sample, q \in Q
      PROVE  Append(q, x) \in Q
  <2> DEFINE t == Append(q, x)
  <2>1. /\ t \in Seq(Sample) /\ Len(t) = Len(q) + 1 /\ t[Len(q) + 1] = x /\ Len(q) \in Nat
        /\ \A i \in 1 .. Len(q) : t[i] = q[i] /\ i \in 1 .. Len(t)
    OBVIOUS
  <2>2. Only(t, Recent(now)) = IF x \in Recent(now) THEN Append(Only(q, Recent(now)), x)
                               ELSE Only(q, Recent(now))
    BY OnlyAppend
  <2>3. \A i \in 1 .. Len(t) : t[i] \in Sample /\ t[i].at \in Nat
    <3> HIDE DEF t
    <3>1. \A i \in 1 .. Len(t) : t[i] \in Sample
      BY <2>1
    <3> QED
      BY <3>1 DEF Sample
  <2> HIDE DEF t
  <2>4. ASSUME Sorted(t)
        PROVE  \E m \in 0 .. Len(t) : Ends(t, m)
    <3>1. Sorted(q)
      BY <2>1, <2>4
    <3>2. PICK m \in 0 .. Len(q) : Ends(q, m)
      <4> HIDE DEF Sorted, Ends
      <4> QED
        BY <1>2, <3>1
    <3>3. CASE x \in Recent(now)
      <4>1. Newest(t, m + 1) = Append(Newest(q, m), x)
        BY AppendNewest DEF t
      <4>2. Only(t, Recent(now)) = Newest(t, m + 1)
        BY <2>2, <3>2, <3>3, <4>1
      <4>3. Len(t) - (m + 1) = Len(q) - m /\ m + 1 \in 0 .. Len(t)
        BY <2>1
      <4>4. \A i \in 1 .. Len(q) - m : t[i] = q[i]
        BY <2>1
      <4>5. \A i \in 1 .. Len(t) - (m + 1) : t[i].at + Retention < now
        BY <3>2, <4>3, <4>4
      <4> QED
        BY <4>2, <4>3, <4>5
    <3>4. CASE x \notin Recent(now)
      <4>1. x.at \in Nat /\ x.at + Retention < now /\ Retention \in Nat
        BY <3>4, PagesAssumption DEF Recent, Sample
      <4>2. \A i \in 1 .. Len(t) : t[i].at <= x.at
        <5>1. Len(q) + 1 \in 1 .. Len(t)
          BY <2>1
        <5>2. \A i \in 1 .. Len(t) : i < Len(q) + 1 \/ i = Len(q) + 1
          BY <2>1
        <5> QED
          BY <2>1, <2>3, <2>4, <4>1, <5>1, <5>2
      <4>3. \A i \in 1 .. Len(t) : t[i].at + Retention < now
        BY <2>3, <4>1, <4>2
      <4>4. \A i \in 1 .. Len(t) : t[i] \notin Recent(now)
        BY <2>3, <4>1, <4>3 DEF Recent
      <4>5. Only(t, Recent(now)) = <<>>
        BY <2>1, <4>4, OnlyEmpty
      <4>6. Newest(t, 0) = <<>>
        <5>1. 0 \in Nat /\ Len(t) \in Nat
          BY <2>1
        <5>2. Newest(t, 0) \in Seq(Sample) /\ Len(Newest(t, 0)) = (IF Len(t) > 0 THEN 0 ELSE Len(t))
          BY <2>1, <5>1, NewestIs
        <5>3. Len(Newest(t, 0)) = 0
          BY <5>1, <5>2
        <5> QED
          BY <5>2, <5>3
      <4>7. 0 \in 0 .. Len(t) /\ Len(t) - 0 = Len(t)
        BY <2>1
      <4> QED
        BY <4>3, <4>5, <4>6, <4>7
    <3> QED
      BY <3>3, <3>4
  <2> HIDE DEF Sorted, Ends
  <2> QED
    BY <2>1, <2>4 DEF t
<1>3. s \in Q
  <2> HIDE DEF Q
  <2> QED
    BY <1>1, <1>2, SequenceInduction
<1> QED
  BY <1>3

\* A sample at another time than the last is appended,
LEMMA AppendedKeeps ==
    ASSUME NEW all \in Seq(Sample), NEW history \in Seq(Sample), NEW now \in Nat,
           HistoryKept(all, history, now), NEW x \in Sample, x.at = now,
           \A i \in 1 .. Len(all) : all[i].at < now
    PROVE  HistoryKept(Append(all, x), Retained(Append(history, x), now), now)
<1> DEFINE a == Append(all, x)
           h == Append(history, x)
           k == Len(history)
           L == Len(all)
           r == Retained(h, now)
<1>1. /\ k \in Nat /\ L \in Nat /\ MaxSamples \in Nat \ {0} /\ Retention \in Nat
      /\ k <= L /\ k <= MaxSamples /\ history = Newest(all, k)
  BY PagesAssumption DEF HistoryKept, Least
<1>2. k = Least(MaxSamples, L) \/ all[L - k].at + Retention < now
  BY DEF HistoryKept
<1>3. /\ a \in Seq(Sample) /\ Len(a) = L + 1 /\ a[L + 1] = x
      /\ \A i \in 1 .. L : a[i] = all[i]
  OBVIOUS
<1>4. /\ h \in Seq(Sample) /\ Len(h) = k + 1 /\ h[k + 1] = x
  OBVIOUS
<1>5. h = Newest(a, k + 1)
  <2>1. k \in 0 .. L
    BY <1>1
  <2>2. Newest(Append(all, x), k + 1) = Append(Newest(all, k), x)
    BY <2>1, AppendNewest
  <2> QED
    BY <1>1, <2>2
<1> HIDE DEF a, h, k, L
<1>6. \A i \in 1 .. k + 1 : (L - k) + i \in 1 .. L + 1 /\ h[i] = a[(L - k) + i]
  <2>1. k + 1 \in 0 .. Len(a) /\ (L + 1) - (k + 1) = L - k /\ 0 \in Nat
    <3>1. k \in Nat /\ L \in Nat /\ k <= L /\ Len(a) = L + 1
      BY <1>1, <1>3
    <3> QED
      BY ONLY <3>1
  <2>2. \A i \in 1 .. k + 1 : (Len(a) - (k + 1)) + i \in 1 .. Len(a)
                              /\ Newest(a, k + 1)[i] = a[(Len(a) - (k + 1)) + i]
    BY <1>3, <2>1, NewestTwice
  <2> QED
    BY <1>3, <1>5, <2>1, <2>2
<1>7. \A i \in 1 .. L + 1 : a[i].at \in Nat
  <2>1. \A i \in 1 .. L + 1 : a[i] \in Sample
    BY <1>3
  <2> QED
    BY <2>1 DEF Sample
<1>8. \A i \in 1 .. L : a[i].at < now
  BY <1>3 DEF L
<1>9. \A i, j \in 1 .. L + 1 : i < j => a[i].at < a[j].at
  <2>1. ASSUME NEW i \in 1 .. L + 1, NEW j \in 1 .. L + 1, i < j
        PROVE  a[i].at < a[j].at
    <3>1. i \in 1 .. L /\ (j = L + 1 \/ j \in 1 .. L)
      BY <1>1, <2>1
    <3>2. CASE j = L + 1
      BY <1>3, <1>8, <3>1, <3>2
    <3>3. CASE j \in 1 .. L
      BY <1>3, <2>1, <3>1, <3>3 DEF HistoryKept, L
    <3> QED
      BY <3>1, <3>2, <3>3
  <2> QED
    BY <2>1
<1>10. \A i \in 1 .. L + 1 : a[i].at <= now
  <2>1. \A i \in 1 .. L + 1 : i \in 1 .. L \/ i = L + 1
    BY <1>1
  <2> QED
    BY <1>3, <1>7, <1>8, <2>1
<1>11. \A i, j \in 1 .. Len(h) : i < j => h[i].at < h[j].at
  <2>1. ASSUME NEW i \in 1 .. k + 1, NEW j \in 1 .. k + 1, i < j
        PROVE  h[i].at < h[j].at
    <3> DEFINE p == (L - k) + i
               q == (L - k) + j
    <3>1. p \in 1 .. L + 1 /\ q \in 1 .. L + 1 /\ p < q
      BY <1>1, <1>6, <2>1
    <3>2. h[i] = a[p] /\ h[j] = a[q]
      BY <1>6
    <3> HIDE DEF p, q
    <3> QED
      BY <1>9, <3>1, <3>2
  <2> QED
    BY <1>4, <2>1
<1>12. PICK m \in 0 .. Len(h) :
          /\ Only(h, Recent(now)) = Newest(h, m)
          /\ \A i \in 1 .. Len(h) - m : h[i].at + Retention < now
  BY <1>4, <1>11, RecentIs
<1>13. m \in 1 .. k + 1
  <2>1. m # 0
    <3>1. SUFFICES ASSUME m = 0 PROVE FALSE
      OBVIOUS
    <3>2. k + 1 \in 1 .. Len(h) - m
      BY <1>1, <1>4, <3>1
    <3>3. now + Retention < now
      BY <1>4, <1>12, <3>2
    <3> QED
      BY <1>1, <3>3
  <2> QED
    BY <1>4, <1>12, <2>1
<1> DEFINE n == Least(m, MaxSamples)
<1>14. n \in Nat \ {0} /\ n <= k + 1 /\ n <= L + 1 /\ n <= MaxSamples /\ n <= m
       /\ (n = m \/ n = MaxSamples)
  BY <1>1, <1>13 DEF Least
<1>15. r = Newest(a, n)
  <2>1. r = Newest(Only(h, Recent(now)), MaxSamples)
    BY DEF Retained, Recent
  <2>2. Newest(Newest(h, m), MaxSamples) = Newest(h, n)
    <3>1. h \in Seq(Sample) /\ m \in 0 .. Len(h) /\ MaxSamples \in Nat
      BY <1>1, <1>4, <1>12
    <3>2. Newest(Newest(h, m), MaxSamples) = Newest(h, Least(m, MaxSamples))
      BY ONLY <3>1, NewestTwice
    <3> QED
      BY <3>2
  <2>3. k + 1 \in 0 .. Len(a) /\ n \in Nat
    BY <1>1, <1>3, <1>14
  <2>4. Newest(Newest(a, k + 1), n) = Newest(a, Least(k + 1, n))
    BY <1>3, <2>3, NewestTwice
  <2>5. Least(k + 1, n) = n
    <3> HIDE DEF n
    <3> QED
      BY <1>1, <1>14 DEF Least
  <2> QED
    BY <1>5, <1>12, <2>1, <2>2, <2>4, <2>5
<1> HIDE DEF r, n
<1>16. r \in Seq(Sample) /\ Len(r) = n
  <2>1. n \in 0 .. Len(a) /\ 0 \in Nat
    BY <1>1, <1>3, <1>14
  <2> QED
    BY <1>3, <1>15, <2>1, NewestTwice
<1>17. n = Least(MaxSamples, L + 1) \/ a[(L + 1) - n].at + Retention < now
  <2>1. CASE n = MaxSamples \/ n = L + 1
    BY <1>1, <1>14, <2>1 DEF Least
  <2>2. CASE n = m /\ n < k + 1
    <3>1. (k + 1) - m \in 1 .. Len(h) - m /\ (L - k) + ((k + 1) - m) = (L + 1) - n
      <4>1. k \in Nat /\ L \in Nat /\ Len(h) = k + 1 /\ m \in Nat /\ n = m /\ m < k + 1
        BY <1>1, <1>4, <1>13, <2>2
      <4> QED
        BY ONLY <4>1
    <3>2. (k + 1) - m \in 1 .. k + 1
      BY <1>1, <1>13, <2>2
    <3> QED
      BY <1>6, <1>12, <3>1, <3>2
  <2>3. CASE n = m /\ n = k + 1 /\ n # MaxSamples /\ n # L + 1
    <3>1. k # Least(MaxSamples, L)
      BY <1>1, <1>14, <2>3 DEF Least
    <3>2. L - k \in 1 .. L /\ (L + 1) - n = L - k
      BY <1>1, <1>14, <2>3
    <3> QED
      BY <1>2, <1>3, <3>1, <3>2
  <2> QED
    BY <1>1, <1>13, <1>14, <2>1, <2>2, <2>3
<1>18. n <= Least(MaxSamples, L + 1) /\ r # <<>>
  BY <1>1, <1>14, <1>16 DEF Least
<1>19. HistoryKept(a, r, now)
  BY <1>3, <1>9, <1>10, <1>15, <1>16, <1>17, <1>18 DEF HistoryKept
<1> QED
  BY <1>19 DEF a, r, h

\* and one at the time of the last replaces it.
LEMMA ReplacedKeeps ==
    ASSUME NEW all \in Seq(Sample), NEW history \in Seq(Sample), NEW now \in Nat,
           HistoryKept(all, history, now), NEW x \in Sample, x.at = now,
           all # <<>>, Last(all).at = now
    PROVE  /\ history # <<>> /\ Last(history).at = now
           /\ Append(Front(all), x) \in Seq(Sample) /\ Append(Front(history), x) \in Seq(Sample)
           /\ Len(Append(Front(history), x)) = Len(history)
           /\ HistoryKept(Append(Front(all), x), Append(Front(history), x), now)
<1> DEFINE k == Len(history)
           L == Len(all)
           a == Append(Front(all), x)
           h == Append(Front(history), x)
<1>1. /\ k \in Nat /\ L \in Nat /\ MaxSamples \in Nat \ {0} /\ Retention \in Nat
      /\ k <= L /\ k <= MaxSamples /\ history = Newest(all, k) /\ history # <<>>
  BY PagesAssumption DEF HistoryKept, Least
<1>2. k # 0 /\ L # 0
  BY <1>1
<1>3. ASSUME NEW s \in Seq(Sample), s # <<>>
      PROVE  LET t == Append(Front(s), x) IN
             /\ t \in Seq(Sample) /\ Len(t) = Len(s) /\ t[Len(s)] = x
             /\ \A i \in 1 .. Len(s) - 1 : t[i] = s[i]
  <2> DEFINE n == Len(s) - 1
             f == SubSeq(s, 1, n)
  <2>1. n \in Nat /\ Len(s) = n + 1 /\ n <= Len(s)
    BY <1>3
  <2> HIDE DEF n
  <2>2. \A i \in 1 .. n : i \in 1 .. Len(s) /\ s[i] \in Sample
    BY <2>1
  <2>3. SubSeq(s, 1, n) \in Seq(Sample)
    BY <2>1, <2>2
  <2>4. Len(SubSeq(s, 1, n)) = n
    BY <2>1
  <2>5. \A i \in 1 .. n : SubSeq(s, 1, n)[i] = s[i]
    BY <2>1
  <2>6. f \in Seq(Sample) /\ Len(f) = n /\ \A i \in 1 .. n : f[i] = s[i]
    BY <2>3, <2>4, <2>5
  <2> HIDE DEF f
  <2>7. /\ Append(f, x) \in Seq(Sample) /\ Len(Append(f, x)) = n + 1
        /\ Append(f, x)[n + 1] = x /\ \A i \in 1 .. n : Append(f, x)[i] = f[i]
    BY <2>6
  <2>8. Front(s) = f
    BY DEF Front, f, n
  <2> QED
    BY <2>1, <2>6, <2>7, <2>8 DEF n
<1>4. /\ a \in Seq(Sample) /\ Len(a) = L /\ a[L] = x
      /\ \A i \in 1 .. L - 1 : a[i] = all[i]
  BY <1>3
<1>5. /\ h \in Seq(Sample) /\ Len(h) = k /\ h[k] = x
      /\ \A i \in 1 .. k - 1 : h[i] = history[i]
  BY <1>1, <1>3
<1>6. \A i \in 1 .. k : (L - k) + i \in 1 .. L /\ history[i] = all[(L - k) + i]
  <2>1. k \in 0 .. Len(all) /\ 0 \in Nat
    BY <1>1
  <2>2. \A i \in 1 .. k : (Len(all) - k) + i \in 1 .. Len(all)
                          /\ Newest(all, k)[i] = all[(Len(all) - k) + i]
    BY <2>1, NewestTwice
  <2> HIDE DEF k
  <2> QED
    BY <1>1, <2>2
<1>7. all[L].at = now
  BY DEF Last
<1>8. Last(history).at = now
  <2>1. k \in 1 .. k /\ (L - k) + k = L
    BY <1>1, <1>2
  <2> QED
    BY <1>6, <1>7, <2>1 DEF Last
<1> HIDE DEF a, h, k, L
<1>9. \A i \in 1 .. L : a[i].at = all[i].at
  <2>1. \A i \in 1 .. L : i \in 1 .. L - 1 \/ i = L
    BY <1>1
  <2> QED
    BY <1>4, <1>7, <2>1
<1>10. h = Newest(a, k)
  <2> DEFINE e == Newest(a, k)
  <2>1. /\ e \in Seq(Sample) /\ Len(e) = k
        /\ \A i \in 1 .. k : (L - k) + i \in 1 .. L /\ e[i] = a[(L - k) + i]
    <3>1. k \in 0 .. Len(a) /\ 0 \in Nat
      BY <1>1, <1>4
    <3> QED
      BY <1>4, <3>1, NewestTwice
  <2> HIDE DEF e
  <2>2. ASSUME NEW i \in 1 .. Len(h)
        PROVE  h[i] = e[i]
    <3>1. CASE i = k
      <4>1. (L - k) + i = L
        BY <1>1, <3>1
      <4> QED
        BY <1>4, <1>5, <2>1, <3>1, <4>1
    <3>2. CASE i \in 1 .. k - 1
      <4>1. (L - k) + i \in 1 .. L - 1 /\ i \in 1 .. k
        BY <1>1, <3>2
      <4> QED
        BY <1>4, <1>5, <1>6, <2>1, <3>2, <4>1
    <3> QED
      BY <1>1, <1>5, <3>1, <3>2
  <2>3. h = e
    BY <1>5, <2>1, <2>2, SameElements
  <2> QED
    BY <2>3 DEF e
<1>11. /\ \A i \in 1 .. L : all[i].at <= now
       /\ \A i, j \in 1 .. L : i < j => all[i].at < all[j].at
       /\ k <= Least(MaxSamples, L)
       /\ k = Least(MaxSamples, L) \/ all[L - k].at + Retention < now
  BY DEF HistoryKept, k, L
<1>12. k = Least(MaxSamples, L) \/ a[L - k].at + Retention < now
  <2>1. CASE k = L
    BY <1>1, <2>1 DEF Least
  <2>2. CASE k # L
    <3>1. L - k \in 1 .. L
      BY <1>1, <2>2
    <3> QED
      BY <1>9, <1>11, <3>1
  <2> QED
    BY <2>1, <2>2
<1>13. h # <<>>
  BY <1>2, <1>5
<1>14. HistoryKept(a, h, now)
  BY <1>4, <1>5, <1>9, <1>10, <1>11, <1>12, <1>13 DEF HistoryKept
<1> QED
  BY <1>1, <1>4, <1>5, <1>8, <1>14 DEF a, h, k

\* Every span that the graph offers finds in the history what it would find in
\* all samples.
LEMMA SnapshotWhole ==
    ASSUME NEW all \in Seq(Sample), NEW history \in Seq(Sample), NEW now \in Nat,
           HistoryKept(all, history, now), NEW w \in Windows
    PROVE  Snapshot(history, w, now) = Snapshot(Newest(all, MaxSamples), w, now)
<1> DEFINE k == Len(history)
           L == Len(all)
           N == Newest(all, MaxSamples)
           M == Least(MaxSamples, L)
           S == {p \in Sample : p.at + w >= now /\ p.at <= now}
<1>1. /\ k \in Nat /\ L \in Nat /\ MaxSamples \in Nat \ {0} /\ Retention \in Nat
      /\ k <= M /\ history = Newest(all, k) /\ w \in Nat /\ w <= Retention
  BY PagesAssumption DEF HistoryKept
<1>2. M \in Nat /\ M <= L
  BY <1>1 DEF Least
<1>3. /\ N \in Seq(Sample) /\ Len(N) = M
      /\ \A i \in 1 .. M : (L - M) + i \in 1 .. L /\ N[i] = all[(L - M) + i]
      /\ N = Newest(all, M)
  <2>1. /\ N \in Seq(Sample) /\ Len(N) = (IF L > MaxSamples THEN MaxSamples ELSE L)
        /\ \A i \in 1 .. Len(N) : (L - Len(N)) + i \in 1 .. L /\ N[i] = all[(L - Len(N)) + i]
        /\ L <= MaxSamples => N = all
    <3>1. MaxSamples \in Nat
      BY <1>1
    <3> QED
      BY <3>1, NewestIs
  <2>2. Len(N) = M
    BY <1>1, <2>1 DEF Least
  <2>3. N = Newest(all, M)
    <3>1. CASE L <= MaxSamples
      <4>1. M = L
        BY <1>1, <3>1 DEF Least
      <4>2. L \in Nat /\ Len(all) <= L
        BY <1>1
      <4>3. Newest(all, L) = all
        BY <4>2, NewestIs
      <4> QED
        BY <2>1, <3>1, <4>1, <4>3
    <3>2. CASE ~(L <= MaxSamples)
      BY <1>1, <3>2 DEF Least
    <3> QED
      BY <3>1, <3>2
  <2> QED
    BY <2>1, <2>2, <2>3
<1> HIDE DEF N
<1>4. history = Newest(N, k)
  <2>1. Newest(Newest(all, M), k) = Newest(all, Least(M, k))
    <3>1. M \in 0 .. Len(all)
      BY <1>2
    <3> HIDE DEF M, k
    <3> QED
      BY <1>1, <3>1, NewestTwice
  <2>2. Least(M, k) = k
    <3> HIDE DEF M, k
    <3> QED
      BY <1>1, <1>2 DEF Least
  <2> QED
    BY <1>1, <1>3, <2>1, <2>2
<1>5. PICK u \in Seq(Sample) :
         /\ Len(u) = M - k /\ N = u \o history
         /\ \A i \in 1 .. Len(u) : i \in 1 .. M /\ u[i] = N[i]
  <2>1. k \in 0 .. Len(N)
    BY <1>1, <1>2, <1>3
  <2>2. \E u \in Seq(Sample) :
           /\ Len(u) = Len(N) - k /\ N = u \o Newest(N, k)
           /\ \A i \in 1 .. Len(u) : i \in 1 .. Len(N) /\ u[i] = N[i]
    <3>1. N \in Seq(Sample)
      BY <1>3
    <3> HIDE DEF k
    <3> QED
      BY ONLY <3>1, <2>1, NewestSplits
  <2> QED
    BY <1>3, <1>4, <2>2
<1>6. \A i \in 1 .. L : all[i].at \in Nat
  <2>1. \A i \in 1 .. L : all[i] \in Sample
    OBVIOUS
  <2> QED
    BY <2>1 DEF Sample
<1>7. /\ \A i, j \in 1 .. L : i < j => all[i].at < all[j].at
      /\ k = M \/ all[L - k].at + Retention < now
  BY DEF HistoryKept
<1> HIDE DEF k, L, M
<1>8. ASSUME NEW i \in 1 .. Len(u)
      PROVE  u[i] \notin S
  <2> DEFINE j == (L - M) + i
  <2>1. i \in 1 .. M - k /\ k # M
    BY <1>1, <1>2, <1>5
  <2>2. /\ u[i] = all[j] /\ j \in 1 .. L
    BY <1>3, <1>5
  <2>3. j <= L - k /\ L - k \in 1 .. L
    BY <1>1, <1>2, <2>1, <2>2
  <2> HIDE DEF j
  <2>4. all[j].at <= all[L - k].at
    BY <1>6, <1>7, <2>2, <2>3
  <2>5. all[L - k].at + Retention < now
    BY <1>7, <2>1
  <2>6. all[j].at + w < now
    <3>1. all[j].at \in Nat /\ all[L - k].at \in Nat
      BY <1>6, <2>2, <2>3
    <3>2. w \in Nat /\ Retention \in Nat /\ w <= Retention
      BY <1>1
    <3> DEFINE x == all[j].at
               y == all[L - k].at
    <3>3. x \in Nat /\ y \in Nat /\ x <= y /\ y + Retention < now
      BY <2>4, <2>5, <3>1
    <3> HIDE DEF x, y
    <3>4. x + w < now
      BY ONLY <3>2, <3>3, now \in Nat
    <3> QED
      BY <3>4 DEF x
  <2>7. all[j].at \in Nat
    BY <1>6, <2>2
  <2> QED
    BY <1>1, <2>2, <2>6, <2>7
<1> HIDE DEF S
<1>9. Only(u, S) = <<>>
  BY <1>5, <1>8, OnlyEmpty
<1>10. Only(N, S) = Only(u, S) \o Only(history, S)
  BY <1>5, OnlyConcat
<1>11. Only(history, S) \in Seq(Sample)
  BY OnlyType
<1>12. Only(N, S) = Only(history, S)
  BY <1>9, <1>10, <1>11
<1> QED
  BY <1>12 DEF Snapshot, S, N

\* The types of GraphIInv.
GraphState ==
    [visible : BOOLEAN, now : 0 .. MaxTime, window : Windows, paused : BOOLEAN,
     pausedAt : 0 .. MaxTime, history : Seq(Sample), frozen : Seq(Sample),
     all : Seq(Sample), shown : Seq(Sample), scale : Rates,
     headroom : BOOLEAN, since : 0 .. MaxTime]

\* GraphIInv in two parts: what the graph remembers,
GraphRemembers(g) ==
    g.since <= g.now /\ g.pausedAt <= g.now /\ HistoryKept(g.all, g.history, g.now)

\* and what it shows.
GraphShows(g) ==
    /\ \A i \in 1 .. Len(g.shown) : g.shown[i].rate <= g.scale
    /\ g.paused => \A i \in 1 .. Len(g.shown) : g.shown[i].at <= g.pausedAt

\* GraphIInv of any state of the graph.
GraphFine(g) == g \in GraphState /\ GraphRemembers(g) /\ GraphShows(g)

\* The graph's part of the invariant is that.
LEMMA GraphIInvIs == GraphIInv <=> GraphFine(graph)
BY DEF GraphIInv, GraphFine, GraphState, GraphRemembers, GraphShows, HistoryKept

\* The peak of samples is a rate that none of them exceeds.
LEMMA PeakIs ==
    ASSUME NEW s \in Seq(Sample)
    PROVE  Peak(s) \in Rates /\ \A i \in 1 .. Len(s) : s[i].rate <= Peak(s)
<1> DEFINE R == {1} \cup {p.rate : p \in ToSet(s)}
<1>1. \A i \in 1 .. Len(s) : s[i] \in Sample /\ s[i].rate \in Rates
  <2>1. \A i \in 1 .. Len(s) : s[i] \in Sample
    OBVIOUS
  <2> QED
    BY <2>1 DEF Sample
<1>2. ToSet(s) = {s[i] : i \in 1 .. Len(s)}
  BY DEF ToSet
<1>3. R \subseteq Rates /\ 1 \in R /\ \A i \in 1 .. Len(s) : s[i].rate \in R
  <2>1. 1 \in Rates
    BY PagesAssumption DEF Rates
  <2> QED
    BY <1>1, <1>2, <2>1
<1> HIDE DEF R
<1>4. \E x \in R : \A y \in R : x >= y
  <2> DEFINE B == {n \in Nat : MaxRate - n \in R}
             less == {q \in Nat \X Nat : q[1] < q[2]}
  <2>1. \A x \in R : x \in Nat /\ MaxRate - x \in Nat /\ MaxRate - (MaxRate - x) = x
    BY <1>3, PagesAssumption DEF Rates
  <2>2. MaxRate - 1 \in B
    BY <1>3, <2>1
  <2>3. PICK m \in B : \A n \in B : ~(<<n, m>> \in less)
    <3>1. IsWellFoundedOn(less, Nat) /\ B \subseteq Nat /\ B # {}
      BY <2>2, NatLess
    <3> HIDE DEF less, B
    <3> QED
      BY <3>1, WFMin
  <2>4. \A n \in B : n \in Nat /\ m \in Nat /\ m <= n
    <3>1. ASSUME NEW n \in B
          PROVE  n \in Nat /\ m \in Nat /\ m <= n
      <4>1. n \in Nat /\ m \in Nat /\ ~(<<n, m>> \in less)
        BY <2>3
      <4>2. ~(n < m)
        BY <4>1
      <4> QED
        BY <4>1, <4>2
    <3> QED
      BY <3>1
  <2>5. MaxRate - m \in R /\ m \in Nat
    OBVIOUS
  <2>6. ASSUME NEW y \in R
        PROVE  MaxRate - m >= y
    <3>1. MaxRate - y \in B
      BY <2>1
    <3>2. m <= MaxRate - y /\ y \in Nat /\ MaxRate \in Nat
      BY <2>1, <2>4, <3>1, PagesAssumption
    <3> QED
      BY <2>5, <3>2
  <2> QED
    BY <2>5, <2>6
<1>5. Max(R) \in R /\ \A y \in R : Max(R) >= y
  BY <1>4 DEF Max
<1>6. Peak(s) = Max(R)
  BY DEF Peak, R
<1>7. \A i \in 1 .. Len(s) : s[i].rate <= Max(R)
  BY <1>1, <1>3, <1>5 DEF Rates
<1> QED
  BY <1>3, <1>5, <1>6, <1>7

\* Drawing again leaves what is remembered and shows what it should.
LEMMA RefreshDraws ==
    ASSUME NEW g \in GraphState, GraphRemembers(g), NEW reset \in BOOLEAN
    PROVE  GraphFine(Refresh(g, reset))
<1> DEFINE reference == IF g.paused THEN g.pausedAt ELSE g.now
           source == IF g.paused THEN g.frozen ELSE g.history
           S == {p \in Sample : p.at + g.window >= reference /\ p.at <= reference}
           shown == Snapshot(source, g.window, reference)
           peak == Peak(shown)
           t == [g EXCEPT !.shown = shown]
           since == IF g.headroom THEN g.since ELSE reference
           r == Refresh(g, reset)
<1>1. /\ g.now \in 0 .. MaxTime /\ g.pausedAt \in 0 .. MaxTime /\ g.since \in 0 .. MaxTime
      /\ g.history \in Seq(Sample) /\ g.frozen \in Seq(Sample) /\ g.scale \in Rates
      /\ g.paused \in BOOLEAN /\ g.headroom \in BOOLEAN
  BY DEF GraphState
<1>2. /\ reference \in 0 .. MaxTime /\ reference <= g.now /\ source \in Seq(Sample)
      /\ since \in 0 .. MaxTime /\ since <= g.now /\ (g.paused => reference = g.pausedAt)
  BY <1>1, PagesAssumption DEF GraphRemembers
<1> HIDE DEF reference, source, since
<1>3. shown \in Seq(Sample) /\ \A i \in 1 .. Len(shown) : shown[i] \in S
  BY <1>2, OnlyType DEF Snapshot
<1>4. \A i \in 1 .. Len(shown) : shown[i].at <= reference
  BY <1>3
<1> HIDE DEF shown, S
<1>5. peak \in Rates /\ \A i \in 1 .. Len(shown) : shown[i].rate <= peak
  BY <1>3, PeakIs
<1> HIDE DEF peak
<1>6. \/ r = [t EXCEPT !.scale = peak, !.headroom = FALSE]
      \/ ~(peak > g.scale) /\ r = [t EXCEPT !.headroom = FALSE]
      \/ ~(peak > g.scale) /\ r = [t EXCEPT !.headroom = TRUE, !.since = since]
  BY DEF Refresh, t, shown, peak, reference, source, since
<1>7. /\ t \in GraphState /\ t.shown = shown /\ t.scale = g.scale /\ t.since = g.since
      /\ t.now = g.now /\ t.paused = g.paused /\ t.pausedAt = g.pausedAt
      /\ t.all = g.all /\ t.history = g.history
  BY <1>3 DEF GraphState
<1> HIDE DEF t, r
<1>8. /\ r \in GraphState /\ r.shown = shown /\ r.now = g.now /\ r.paused = g.paused
      /\ r.pausedAt = g.pausedAt /\ r.all = g.all /\ r.history = g.history
      /\ (r.since = g.since \/ r.since = since)
      /\ (r.scale = peak \/ (r.scale = g.scale /\ ~(peak > g.scale)))
  <2>1. CASE r = [t EXCEPT !.scale = peak, !.headroom = FALSE]
    BY <1>5, <1>7, <2>1 DEF GraphState
  <2>2. CASE ~(peak > g.scale) /\ r = [t EXCEPT !.headroom = FALSE]
    BY <1>7, <2>2 DEF GraphState
  <2>3. CASE ~(peak > g.scale) /\ r = [t EXCEPT !.headroom = TRUE, !.since = since]
    BY <1>2, <1>7, <2>3 DEF GraphState
  <2> QED
    BY <1>6, <2>1, <2>2, <2>3
<1>9. GraphRemembers(r)
  BY <1>2, <1>8 DEF GraphRemembers
<1>10. r.scale \in Rates /\ peak <= r.scale
  BY <1>1, <1>5, <1>8 DEF Rates
<1>11. \A i \in 1 .. Len(shown) : shown[i].rate <= r.scale
  <2>1. \A i \in 1 .. Len(shown) : shown[i].rate \in Rates
    <3>1. \A i \in 1 .. Len(shown) : shown[i] \in Sample
      BY <1>3
    <3> QED
      BY <3>1 DEF Sample
  <2> QED
    BY <1>5, <1>10, <2>1 DEF Rates
<1>12. GraphShows(r)
  BY <1>2, <1>4, <1>8, <1>11 DEF GraphShows
<1> QED
  BY <1>8, <1>9, <1>12 DEF GraphFine, r

\* So does drawing if the graph is live.
LEMMA RefreshLiveDraws ==
    ASSUME NEW g \in GraphState, GraphFine(g)
    PROVE  GraphFine(RefreshLive(g))
<1>1. GraphRemembers(g)
  BY DEF GraphFine
<1>2. GraphFine(Refresh(g, FALSE))
  BY <1>1, RefreshDraws
<1> QED
  BY <1>2 DEF RefreshLive

\* The last sample is in the history.
LEMMA LastKept ==
    ASSUME NEW all \in Seq(Sample), NEW history \in Seq(Sample), NEW now \in Nat,
           HistoryKept(all, history, now), all # <<>>
    PROVE  history # <<>> /\ Last(history) = Last(all)
<1> DEFINE k == Len(history)
           L == Len(all)
<1>1. /\ k \in Nat /\ L \in Nat /\ MaxSamples \in Nat \ {0}
      /\ k <= L /\ history = Newest(all, k) /\ history # <<>>
  BY PagesAssumption DEF HistoryKept, Least
<1>2. k # 0
  BY <1>1
<1>3. \A i \in 1 .. k : history[i] = all[(L - k) + i]
  <2>1. k \in 0 .. Len(all) /\ 0 \in Nat
    BY <1>1
  <2>2. \A i \in 1 .. k : Newest(all, k)[i] = all[(Len(all) - k) + i]
    BY <2>1, NewestTwice
  <2> HIDE DEF k
  <2> QED
    BY <1>1, <2>2
<1>4. k \in 1 .. k /\ (L - k) + k = L
  BY <1>1, <1>2
<1> QED
  BY <1>1, <1>3, <1>4 DEF Last

\* Time leaves the history as it should be.
LEMMA HistoryAges ==
    ASSUME NEW all \in Seq(Sample), NEW history \in Seq(Sample), NEW now \in Nat,
           HistoryKept(all, history, now)
    PROVE  HistoryKept(all, history, now + 1)
<1> DEFINE k == Len(history)
           L == Len(all)
<1>1. \A i \in 1 .. L : all[i].at \in Nat
  <2>1. \A i \in 1 .. L : all[i] \in Sample
    OBVIOUS
  <2> QED
    BY <2>1 DEF Sample
<1>2. k \in Nat /\ L \in Nat /\ Retention \in Nat /\ MaxSamples \in Nat \ {0} /\ k <= Least(MaxSamples, L)
  BY PagesAssumption DEF HistoryKept
<1>3. \A i \in 1 .. L : all[i].at <= now + 1
  BY <1>1 DEF HistoryKept
<1>4. k = Least(MaxSamples, L) \/ all[L - k].at + Retention < now + 1
  <2>1. CASE k = L
    BY <1>2, <2>1 DEF Least
  <2>2. CASE k # L
    <3>1. L - k \in 1 .. L
      BY <1>2, <2>2 DEF Least
    <3> QED
      BY <1>1, <1>2, <3>1 DEF HistoryKept
  <2> QED
    BY <2>1, <2>2
<1> QED
  BY <1>3, <1>4 DEF HistoryKept

\* A sample keeps the graph's part of the invariant.
LEMMA SampleKeeps ==
    ASSUME GraphIInv, NEW rate \in Rates, AppendSample(rate)
    PROVE  GraphIInv'
<1> DEFINE now == graph.now
           x == [at |-> now, rate |-> rate]
           all == graph.all
           history == graph.history
           h == WithSample(history, x)
           a == WithSample(all, x)
           kept == IF Len(h) = Len(history) THEN h ELSE Retained(h, now)
           g == [graph EXCEPT !.all = a, !.history = kept]
<1>1. /\ GraphFine(graph) /\ all \in Seq(Sample) /\ history \in Seq(Sample)
      /\ now \in Nat /\ HistoryKept(all, history, now)
  BY GraphIInvIs, PagesAssumption DEF GraphFine, GraphState, GraphRemembers
<1>2. x \in Sample /\ x.at = now
  BY <1>1 DEF Sample
<1>3. graph' = RefreshLive(g)
  BY DEF AppendSample
<1> HIDE DEF x, all, history, now
<1>4. a \in Seq(Sample) /\ kept \in Seq(Sample) /\ HistoryKept(a, kept, now)
  <2>1. CASE all # <<>> /\ Last(all).at = now
    <3>1. /\ history # <<>> /\ Last(history).at = now
          /\ Append(Front(all), x) \in Seq(Sample) /\ Append(Front(history), x) \in Seq(Sample)
          /\ Len(Append(Front(history), x)) = Len(history)
          /\ HistoryKept(Append(Front(all), x), Append(Front(history), x), now)
      BY <1>1, <1>2, <2>1, ReplacedKeeps
    <3>2. a = Append(Front(all), x) /\ h = Append(Front(history), x)
      BY <1>2, <2>1, <3>1 DEF WithSample
    <3> QED
      BY <3>1, <3>2
  <2>2. CASE ~(all # <<>> /\ Last(all).at = now)
    <3>1. history # <<>> => all # <<>> /\ Last(history) = Last(all)
      <4>1. CASE all = <<>>
        <5>1. Len(history) = 0
          BY <1>1, <4>1, PagesAssumption DEF HistoryKept, Least
        <5> QED
          BY <1>1, <5>1
      <4>2. CASE all # <<>>
        BY <1>1, <4>2, LastKept
      <4> QED
        BY <4>1, <4>2
    <3>2. a = Append(all, x) /\ h = Append(history, x)
      BY <1>2, <2>2, <3>1 DEF WithSample
    <3>3. \A i \in 1 .. Len(all) : all[i] \in Sample /\ all[i].at \in Nat
      <4>1. \A i \in 1 .. Len(all) : all[i] \in Sample
        BY <1>1
      <4> QED
        BY <4>1 DEF Sample
    <3>4. \A i \in 1 .. Len(all) : all[i].at < now
      <4>1. CASE all = <<>>
        BY <4>1
      <4>2. CASE all # <<>>
        <5>1. Len(all) \in 1 .. Len(all) /\ Last(all) = all[Len(all)]
          BY <1>1, <4>2 DEF Last
        <5>2. all[Len(all)].at < now
          BY <1>1, <2>2, <3>3, <4>2, <5>1 DEF HistoryKept
        <5>3. \A i \in 1 .. Len(all) : i < Len(all) \/ i = Len(all)
          BY <1>1
        <5>4. \A i \in 1 .. Len(all) : i < Len(all) => all[i].at < all[Len(all)].at
          BY <1>1, <5>1 DEF HistoryKept
        <5> QED
          BY <1>1, <3>3, <5>1, <5>2, <5>3, <5>4
      <4> QED
        BY <4>1, <4>2
    <3>5. /\ Append(all, x) \in Seq(Sample) /\ Append(history, x) \in Seq(Sample)
          /\ Len(Append(history, x)) = Len(history) + 1 /\ Len(history) \in Nat
      BY <1>1, <1>2
    <3>6. HistoryKept(Append(all, x), Retained(Append(history, x), now), now)
      BY <1>1, <1>2, <3>4, AppendedKeeps
    <3>7. Retained(Append(history, x), now) \in Seq(Sample)
      <4> DEFINE S == {p \in Sample : p.at + Retention >= now}
                 y == Append(history, x)
      <4>1. y \in Seq(Sample)
        BY <3>5
      <4> HIDE DEF y
      <4>2. Only(y, S) \in Seq(Sample)
        BY <4>1, OnlyType
      <4>3. MaxSamples \in Nat
        BY PagesAssumption
      <4>4. Newest(Only(y, S), MaxSamples) \in Seq(Sample)
        BY <4>2, <4>3, NewestIs
      <4> QED
        BY <4>4 DEF Retained, y
    <3>8. kept = Retained(Append(history, x), now)
      <4> HIDE DEF h
      <4>1. Len(h) # Len(history)
        BY <3>2, <3>5
      <4> QED
        BY <3>2, <4>1
    <3> QED
      BY <3>2, <3>5, <3>6, <3>7, <3>8
  <2> QED
    BY <2>1, <2>2
<1> HIDE DEF a, kept, h
<1>5. /\ g \in GraphState /\ g.all = a /\ g.history = kept /\ g.now = now
      /\ g.since = graph.since /\ g.pausedAt = graph.pausedAt /\ g.shown = graph.shown
      /\ g.paused = graph.paused /\ g.scale = graph.scale
  BY <1>1, <1>4 DEF GraphFine, GraphState, now
<1> HIDE DEF g
<1>6. GraphFine(g)
  BY <1>1, <1>4, <1>5 DEF GraphFine, GraphRemembers, GraphShows, now
<1>7. GraphFine(graph')
  BY <1>3, <1>5, <1>6, RefreshLiveDraws
<1> QED
  BY <1>7, GraphIInvIs DEF GraphIInv, GraphFine, GraphState, GraphRemembers, GraphShows, HistoryKept

\* Every step of the graph keeps its part of the invariant.
LEMMA GraphKeep == GraphIInv /\ GraphNext => GraphIInv'
<1> SUFFICES ASSUME GraphIInv, GraphNext PROVE GraphIInv'
  OBVIOUS
<1>1. GraphFine(graph) /\ graph \in GraphState /\ GraphRemembers(graph) /\ GraphShows(graph)
  BY GraphIInvIs DEF GraphFine
<1>2. SUFFICES GraphFine(graph')
  BY DEF GraphIInv, GraphFine, GraphState, GraphRemembers, GraphShows, HistoryKept
<1>3. ASSUME NEW rate \in Rates, AppendSample(rate) PROVE GraphFine(graph')
  BY <1>3, SampleKeeps DEF GraphIInv, GraphFine, GraphState, GraphRemembers, GraphShows, HistoryKept
<1>4. CASE ClearGraph
  <2> DEFINE e == <<>>
             g == [graph EXCEPT !.history = e, !.frozen = e, !.all = e,
                                !.pausedAt = graph.now]
  <2>1. e \in Seq(Sample)
    OBVIOUS
  <2> HIDE DEF e
  <2>2. graph.now \in 0 .. MaxTime /\ graph.now \in Nat
    BY <1>1, PagesAssumption DEF GraphState
  <2>3. /\ g \in GraphState /\ g.history = e /\ g.all = e /\ g.now = graph.now
        /\ g.since = graph.since /\ g.pausedAt = graph.now
    BY <1>1, <2>1, <2>2 DEF GraphState
  <2> HIDE DEF g
  <2>4. HistoryKept(e, e, graph.now)
    <3>1. Len(<<>>) = 0 /\ 0 <= 0 /\ MaxSamples \in Nat /\ Least(MaxSamples, 0) = 0
      BY PagesAssumption DEF Least
    <3>2. <<>> = Newest(<<>>, 0)
      <4>1. 0 \in Nat
        OBVIOUS
      <4> QED
        BY <2>1, <3>1, <4>1, NewestIs DEF e
    <3> QED
      BY <3>1, <3>2 DEF HistoryKept, e
  <2>5. GraphRemembers(g)
    BY <1>1, <2>2, <2>3, <2>4 DEF GraphRemembers
  <2> QED
    BY <1>4, <2>3, <2>5, RefreshDraws DEF ClearGraph, g, e
<1>5. CASE PauseGraph
  <2>1. CASE graph.paused
    <3> DEFINE g == [graph EXCEPT !.paused = FALSE]
    <3>1. /\ g \in GraphState /\ g.history = graph.history /\ g.all = graph.all
          /\ g.now = graph.now /\ g.since = graph.since /\ g.pausedAt = graph.pausedAt
      BY <1>1 DEF GraphState
    <3> HIDE DEF g
    <3>2. GraphRemembers(g)
      BY <1>1, <3>1 DEF GraphRemembers
    <3> QED
      BY <1>5, <2>1, <3>1, <3>2, RefreshDraws DEF PauseGraph, g
  <2>2. CASE ~graph.paused
    <3> DEFINE g == [graph EXCEPT !.paused = TRUE, !.pausedAt = graph.now,
                                  !.frozen = graph.history]
    <3>1. graph.now \in 0 .. MaxTime /\ graph.now \in Nat /\ graph.history \in Seq(Sample)
      BY <1>1, PagesAssumption DEF GraphState
    <3>2. /\ g \in GraphState /\ g.history = graph.history /\ g.all = graph.all
          /\ g.now = graph.now /\ g.since = graph.since /\ g.pausedAt = graph.now
      BY <1>1, <3>1 DEF GraphState
    <3> HIDE DEF g
    <3>3. GraphRemembers(g)
      BY <1>1, <3>1, <3>2 DEF GraphRemembers
    <3> QED
      BY <1>5, <2>2, <3>2, <3>3, RefreshDraws DEF PauseGraph, g
  <2> QED
    BY <2>1, <2>2
<1>6. CASE ChooseWindow
  <2>1. PICK w \in Windows : graph' = Refresh([graph EXCEPT !.window = w], TRUE)
    BY <1>6 DEF ChooseWindow
  <2> DEFINE g == [graph EXCEPT !.window = w]
  <2>2. /\ g \in GraphState /\ g.history = graph.history /\ g.all = graph.all
        /\ g.now = graph.now /\ g.since = graph.since /\ g.pausedAt = graph.pausedAt
    BY <1>1 DEF GraphState
  <2>3. graph' = Refresh(g, TRUE)
    BY <2>1
  <2> HIDE DEF g
  <2>4. GraphRemembers(g)
    BY <1>1, <2>2 DEF GraphRemembers
  <2> QED
    BY <2>2, <2>3, <2>4, RefreshDraws
<1>7. CASE ShowGraph
  <2> DEFINE s(b) == [graph EXCEPT !.visible = b]
  <2>1. \A b \in BOOLEAN :
           /\ s(b) \in GraphState /\ s(b).history = graph.history /\ s(b).all = graph.all
           /\ s(b).now = graph.now /\ s(b).since = graph.since
           /\ s(b).pausedAt = graph.pausedAt /\ s(b).shown = graph.shown
           /\ s(b).paused = graph.paused /\ s(b).scale = graph.scale
    BY <1>1 DEF GraphState
  <2>2. graph' = IF graph.visible THEN s(FALSE) ELSE Refresh(s(TRUE), FALSE)
    BY <1>7 DEF ShowGraph
  <2> HIDE DEF s
  <2>3. \A b \in BOOLEAN : GraphRemembers(s(b)) /\ GraphShows(s(b))
    BY <1>1, <2>1 DEF GraphRemembers, GraphShows
  <2>4. GraphFine(s(FALSE))
    BY <2>1, <2>3 DEF GraphFine
  <2>5. s(TRUE) \in GraphState /\ GraphRemembers(s(TRUE))
    BY <2>1, <2>3
  <2>6. GraphFine(Refresh(s(TRUE), FALSE))
    BY <2>5, RefreshDraws
  <2> QED
    BY <2>2, <2>4, <2>6
<1>8. CASE GraphTimer
  BY <1>1, <1>8, RefreshDraws DEF GraphTimer
<1>9. CASE TimePasses
  <2> DEFINE g == [graph EXCEPT !.now = @ + 1]
  <2>1. graph.now \in Nat /\ graph.now < MaxTime /\ graph' = g /\ MaxTime \in Nat
    BY <1>1, <1>9, PagesAssumption DEF TimePasses, GraphState
  <2>2. /\ g \in GraphState /\ g.history = graph.history /\ g.all = graph.all
        /\ g.now = graph.now + 1 /\ g.since = graph.since /\ g.pausedAt = graph.pausedAt
        /\ g.shown = graph.shown /\ g.paused = graph.paused /\ g.scale = graph.scale
    <3>1. graph.now + 1 \in 0 .. MaxTime
      BY <2>1
    <3> QED
      BY <1>1, <3>1 DEF GraphState
  <2> HIDE DEF g
  <2>3. HistoryKept(graph.all, graph.history, graph.now + 1)
    <3>1. graph.all \in Seq(Sample) /\ graph.history \in Seq(Sample)
      BY <1>1 DEF GraphState
    <3> QED
      BY <1>1, <2>1, <3>1, HistoryAges DEF GraphRemembers
  <2>4. graph.since \in Nat /\ graph.pausedAt \in Nat
    BY <1>1, <2>1 DEF GraphState
  <2>5. GraphRemembers(g)
    BY <1>1, <2>1, <2>2, <2>3, <2>4 DEF GraphRemembers
  <2>6. GraphShows(g)
    BY <1>1, <2>2 DEF GraphShows
  <2> QED
    BY <2>1, <2>2, <2>5, <2>6 DEF GraphFine
<1> QED
  BY <1>3, <1>4, <1>5, <1>6, <1>7, <1>8, <1>9 DEF GraphNext

-----------------------------------------------------------------------------
(* The pages together *)

\* Every page starts as its part of the invariant says.
LEMMA InitPagesIInv == PagesInit => PagesIInv
<1> SUFFICES ASSUME PagesInit PROVE PagesIInv
  OBVIOUS
<1> DEFINE e == <<>>
<1>1. /\ e \in Seq(Ids) /\ e \in Seq(Group) /\ e \in Seq(Entry) /\ e \in Seq(Sample)
      /\ Len(e) = 0 /\ \A i \in 1 .. Len(e) : FALSE
  OBVIOUS
<1>2. /\ 0 \in Revision /\ NoGroup \notin Names /\ EntryLimit \in Nat /\ 0 <= EntryLimit
      /\ 0 \in 0 .. MaxTime /\ HistoryLimit \in Nat /\ MaxSamples \in Nat /\ EntriesKept \in Nat
      /\ (CHOOSE w \in Windows : TRUE) \in Windows
  BY PagesAssumption
<1> HIDE DEF e
<1>3. ToSet(e) = {} /\ IsInjective(e)
  BY <1>1 DEF ToSet, IsInjective, e
<1>4. Newest(e, 0) = e /\ \A n \in Nat : Newest(e, n) = e
  <2>1. \A n \in Nat : 0 <= n
    OBVIOUS
  <2>2. ASSUME NEW n \in Nat PROVE Newest(e, n) = e
    BY <1>1, <2>1, NewestIs
  <2>3. 0 \in Nat
    OBVIOUS
  <2> QED
    BY <2>2, <2>3
<1>5. ConnectionsIInv
  <2> DEFINE c == [visible |-> FALSE, timer |-> FALSE, tab |-> "active", dirty |-> {},
                   rows |-> e, current |-> e, closed |-> e, gone |-> {}, ended |-> {}]
  <2>1. connections = c
    BY DEF PagesInit, NewConnections, e
  <2>2. /\ c \in [visible : BOOLEAN, timer : BOOLEAN, tab : Tabs, dirty : SUBSET Tabs,
                  rows : Seq(Ids), current : Seq(Ids), closed : Seq(Ids),
                  gone : SUBSET Ids, ended : SUBSET Ids]
        /\ c.rows = e /\ c.current = e /\ c.closed = e /\ c.tab = "active" /\ ~c.visible
        /\ c.gone = {} /\ c.ended = {}
    BY <1>1 DEF Tabs
  <2> HIDE DEF c
  <2>3. Cardinality({}) = 0 /\ Least(HistoryLimit, 0) = 0
    BY <1>2, FS_EmptySet DEF Least
  <2> QED
    BY <1>1, <1>3, <2>1, <2>2, <2>3 DEF ConnectionsIInv, Wanted
<1>6. ProxiesIInv
  <2> DEFINE p == [visible |-> FALSE, timer |-> FALSE, filterTimer |-> FALSE, filter |-> FALSE,
                   byName |-> FALSE, groups |-> e, delays |-> 0, active |-> NoGroup,
                   groupsDirty |-> FALSE, nodesDirty |-> FALSE, list |-> e, nodes |-> NoNodes]
  <2>1. proxies = p
    BY DEF PagesInit, NewProxies, e
  <2>2. e \in GroupLists
    <3>1. MaxGroups \in Nat /\ e \in [1 .. 0 -> Group]
      BY PagesAssumption DEF e
    <3>2. e \in SeqOf(Group, MaxGroups)
      <4>1. 0 \in 0 .. MaxGroups
        BY <3>1
      <4> QED
        BY <3>1, <4>1 DEF SeqOf
    <3>3. \A i, j \in DOMAIN e : e[i].name = e[j].name => i = j
      BY DEF e
    <3> QED
      BY <3>2, <3>3 DEF GroupLists
  <2>3. NoNodes \in NodeViews
    BY DEF NodeViews
  <2>4. Named(e, NoGroup) = e
    BY OnlyNil DEF Named, e
  <2> HIDE DEF NoNodes
  <2>5. /\ p \in [visible : BOOLEAN, timer : BOOLEAN, filterTimer : BOOLEAN, filter : BOOLEAN,
                  byName : BOOLEAN, groups : GroupLists, delays : Revision,
                  active : Names \cup {NoGroup}, groupsDirty : BOOLEAN,
                  nodesDirty : BOOLEAN, list : GroupLists, nodes : NodeViews]
        /\ p.groups = e /\ p.list = e /\ p.active = NoGroup /\ p.nodes = NoNodes
        /\ ~p.visible /\ ~p.groupsDirty /\ ~p.nodesDirty
    BY <1>2, <2>2, <2>3
  <2> HIDE DEF p
  <2>6. NodesOf(p) = NoNodes
    BY <2>4, <2>5 DEF NodesOf, e
  <2> QED
    BY <2>1, <2>5, <2>6 DEF ProxiesIInv, e
<1>7. ProvidersIInv
  BY <1>2 DEF PagesInit, NewProviders, ProvidersIInv, ProviderKinds
<1>8. LogsIInv
  <2> DEFINE l == [level |-> 1, filter |-> FALSE, filterTimer |-> FALSE, paused |-> FALSE,
                   entries |-> e, view |-> e]
  <2>1. logs = l
    BY DEF PagesInit, NewLogs, e
  <2>2. /\ l \in [level : {1, 2}, filter : BOOLEAN, filterTimer : BOOLEAN, paused : BOOLEAN,
                  entries : Seq(Entry), view : Seq(Entry)]
        /\ l.entries = e /\ l.view = e
    BY <1>1
  <2> HIDE DEF l
  <2>3. VisibleLogs(l) = e
    <3>1. Only(e, Matching(l)) = e
      BY OnlyNil DEF e
    <3> QED
      BY <1>2, <1>4, <2>2, <3>1 DEF VisibleLogs
  <2> QED
    BY <1>1, <1>2, <2>1, <2>2, <2>3 DEF LogsIInv
<1>9. GraphIInv
  <2> DEFINE w == CHOOSE w \in Windows : TRUE
             g == [visible |-> FALSE, now |-> 0, window |-> w,
                   paused |-> FALSE, pausedAt |-> 0, history |-> e, frozen |-> e, all |-> e,
                   shown |-> e, scale |-> 1, headroom |-> FALSE, since |-> 0]
  <2>1. graph = g
    BY DEF PagesInit, NewGraph, e
  <2>2. w \in Windows /\ 1 \in Rates
    BY <1>2, PagesAssumption DEF Rates
  <2> HIDE DEF w
  <2>3. /\ g \in [visible : BOOLEAN, now : 0 .. MaxTime, window : Windows, paused : BOOLEAN,
                  pausedAt : 0 .. MaxTime, history : Seq(Sample), frozen : Seq(Sample),
                  all : Seq(Sample), shown : Seq(Sample), scale : Rates,
                  headroom : BOOLEAN, since : 0 .. MaxTime]
        /\ g.history = e /\ g.all = e /\ g.shown = e /\ g.now = 0 /\ g.since = 0
        /\ g.pausedAt = 0
    BY <1>1, <1>2, <2>2
  <2> HIDE DEF g
  <2>4. Least(MaxSamples, 0) = 0
    BY <1>2 DEF Least
  <2> QED
    BY <1>1, <1>4, <2>1, <2>3, <2>4 DEF GraphIInv
<1> QED
  BY <1>5, <1>6, <1>7, <1>8, <1>9 DEF PagesIInv

\* Every step of a page keeps its part, and the parts of the others.
LEMMA NextPagesIInv == PagesIInv /\ [Next]_vars => PagesIInv'
<1> SUFFICES ASSUME PagesIInv, [Next]_vars PROVE PagesIInv'
  OBVIOUS
<1>1. ConnectionsIInv /\ ProxiesIInv /\ ProvidersIInv /\ LogsIInv /\ GraphIInv
  BY DEF PagesIInv
<1>2. /\ UNCHANGED connections => ConnectionsIInv'
      /\ UNCHANGED proxies => ProxiesIInv'
      /\ UNCHANGED providers => ProvidersIInv'
      /\ UNCHANGED logs => LogsIInv'
      /\ UNCHANGED graph => GraphIInv'
  <2>1. UNCHANGED connections => ConnectionsIInv'
    BY <1>1 DEF ConnectionsIInv
  <2>2. UNCHANGED proxies => ProxiesIInv'
    BY <1>1 DEF ProxiesIInv
  <2>3. UNCHANGED providers => ProvidersIInv'
    BY <1>1 DEF ProvidersIInv
  <2>4. UNCHANGED logs => LogsIInv'
    BY <1>1 DEF LogsIInv
  <2>5. UNCHANGED graph => GraphIInv'
    BY <1>1 DEF GraphIInv
  <2> QED
    BY <2>1, <2>2, <2>3, <2>4, <2>5
<1>3. CASE UNCHANGED pageVars
  BY <1>2, <1>3 DEF pageVars, PagesIInv
<1>4. CASE PagesNext
  <2>1. CASE ConnectionsNext /\ UNCHANGED <<proxies, providers, logs, graph>>
    BY <1>1, <1>2, <2>1, ConnectionsKeep DEF PagesIInv
  <2>2. CASE ProxiesNext /\ UNCHANGED <<connections, providers, logs, graph>>
    BY <1>1, <1>2, <2>2, ProxiesKeep DEF PagesIInv
  <2>3. CASE ProvidersNext /\ UNCHANGED <<connections, proxies, logs, graph>>
    BY <1>1, <1>2, <2>3, ProvidersKeep DEF PagesIInv
  <2>4. CASE LogsNext /\ UNCHANGED <<connections, proxies, providers, graph>>
    BY <1>1, <1>2, <2>4, LogsKeep DEF PagesIInv
  <2>5. CASE GraphNext /\ UNCHANGED <<connections, proxies, providers, logs>>
    BY <1>1, <1>2, <2>5, GraphKeep DEF PagesIInv
  <2> QED
    BY <1>4, <2>1, <2>2, <2>3, <2>4, <2>5 DEF PagesNext
<1> QED
  BY <1>3, <1>4 DEF Next, vars

\* What is drawn is what is known, once no mark is left without a drawing ahead.
LEMMA CurrentFollows == PagesIInv => ShownIsCurrent
<1> SUFFICES ASSUME PagesIInv PROVE ShownIsCurrent
  OBVIOUS
<1>1. connections.visible /\ ~connections.timer => connections.rows = Wanted(connections)
  BY DEF PagesIInv, ConnectionsIInv
<1>2. proxies.visible /\ ~proxies.timer /\ ~proxies.filterTimer =>
        /\ proxies.list = proxies.groups /\ proxies.nodes = NodesOf(proxies)
        /\ (proxies.active = NoGroup) = (proxies.groups = <<>>)
        /\ proxies.groups # <<>> => Named(proxies.groups, proxies.active) # <<>>
  BY DEF PagesIInv, ProxiesIInv
<1>3. /\ providers.visible /\ ~providers.timer =>
           providers.rows = [kind |-> providers.kind, revision |-> providers.cached]
      /\ providers.loading => providers.kind \in providers.pending
  BY DEF PagesIInv, ProvidersIInv
<1>4. ~logs.filterTimer => logs.view = VisibleLogs(logs)
  BY DEF PagesIInv, LogsIInv
<1>5. \A i \in DOMAIN graph.shown : graph.shown[i].rate <= graph.scale
  <2>1. graph.shown \in Seq(Sample) /\ \A i \in 1 .. Len(graph.shown) : graph.shown[i].rate <= graph.scale
    BY DEF PagesIInv, GraphIInv
  <2> QED
    BY <2>1
<1> QED
  BY <1>1, <1>2, <1>3, <1>4, <1>5 DEF ShownIsCurrent

\* What is kept is all that a view needs.
LEMMA WholeFollows == PagesIInv => HistoriesAreWhole
<1> SUFFICES ASSUME PagesIInv PROVE HistoriesAreWhole
  OBVIOUS
<1>1. \A T : \A s \in Seq(T) : ToSet(s) \subseteq T
  <2>1. ASSUME NEW T, NEW s \in Seq(T) PROVE ToSet(s) \subseteq T
    BY DEF ToSet
  <2> QED
    BY <2>1
<1>2. GraphFine(graph)
  BY GraphIInvIs DEF PagesIInv
<1>3. /\ graph.all \in Seq(Sample) /\ graph.history \in Seq(Sample)
      /\ graph.shown \in Seq(Sample) /\ graph.now \in 0 .. MaxTime /\ graph.now \in Nat
      /\ HistoryKept(graph.all, graph.history, graph.now)
      /\ graph.scale \in Rates /\ graph.since <= graph.now
  BY <1>2, PagesAssumption DEF GraphFine, GraphState, GraphRemembers
<1>4. PagesTypeOK
  <2>1. /\ connections.tab \in Tabs /\ connections.dirty \subseteq Tabs
        /\ connections.rows \in Seq(Ids) /\ connections.current \in Seq(Ids)
    BY DEF PagesIInv, ConnectionsIInv
  <2>2. /\ ToSet(connections.rows) \subseteq Ids /\ ToSet(connections.current) \subseteq Ids
    BY <1>1, <2>1
  <2>3. /\ proxies.groups \in GroupLists /\ proxies.list \in GroupLists
        /\ proxies.active \in Names \cup {NoGroup} /\ proxies.delays \in Revision
    BY DEF PagesIInv, ProxiesIInv
  <2>4. /\ providers.pending \cup providers.operating \subseteq ProviderKinds
        /\ providers.cached \in Revision /\ providers.cachedKind = providers.kind
    BY DEF PagesIInv, ProvidersIInv
  <2>5. logs.entries \in Seq(Entry) /\ logs.view \in Seq(Entry)
    BY DEF PagesIInv, LogsIInv
  <2>6. ToSet(logs.entries) \subseteq Entry /\ ToSet(logs.view) \subseteq Entry
    BY <1>1, <2>5
  <2> QED
    BY <1>3, <2>1, <2>2, <2>3, <2>4, <2>6 DEF PagesTypeOK
<1>5. /\ IsInjective(connections.closed) /\ ToSet(connections.closed) \subseteq connections.ended
      /\ Len(connections.closed) = Least(HistoryLimit, Cardinality(connections.ended))
      /\ ToSet(connections.closed) \cap ToSet(connections.current) = {}
  BY DEF PagesIInv, ConnectionsIInv
<1>6. Len(logs.entries) <= EntryLimit
  BY DEF PagesIInv, LogsIInv
<1>7. \A w \in Windows :
        Snapshot(graph.history, w, graph.now) = Snapshot(Newest(graph.all, MaxSamples), w, graph.now)
  BY <1>3, SnapshotWhole
<1>8. graph.paused => \A i \in DOMAIN graph.shown : graph.shown[i].at <= graph.pausedAt
  BY <1>2, <1>3 DEF GraphFine, GraphShows
<1> QED
  BY <1>4, <1>5, <1>6, <1>7, <1>8 DEF HistoriesAreWhole

\* The inductive invariant holds: a view is marked or current, a mark has a
\* drawing ahead of it, and a history is the end of what was reported.
THEOREM PagesInvariant == Spec => []PagesIInv
<1>1. Init => PagesIInv
  BY InitPagesIInv DEF Init
<1> QED
  BY <1>1, NextPagesIInv, PTL DEF Spec

\* A visible page with no drawing ahead of it shows what the controller last
\* reported (scheduleRender and renderPending of the pages), for any
\* number of updates, choices and timers in any order.
THEOREM PagesShowWhatIsKnown == Spec => []ShownIsCurrent
BY PagesInvariant, CurrentFollows, PTL

\* The histories drop only what no view needs: the last connections that ended,
\* each once, and every sample in a span that the graph offers
\* (ConnectionsPage::onConnectionsUpdated, TrafficHistory::append).
THEOREM PagesForgetNothingNeeded == Spec => []HistoriesAreWhole
BY PagesInvariant, WholeFollows, PTL

-----------------------------------------------------------------------------
(* The service on the settings page *)

\* An inspection that begins leaves the others typed.
LEMMA RefreshTyped ==
    ASSUME NEW p \in InstallerRec
    PROVE  /\ Supersede(p.inspections) \in SUBSET Inspection
           /\ RefreshInstaller(p) \in InstallerRec
<1>1. Supersede(p.inspections) \in SUBSET Inspection
  BY DEF Supersede, Inspection, InstallerRec
<1>2. {[latest |-> TRUE, saw |-> "nothing"]} \in SUBSET Inspection
  BY DEF Inspection
<1> QED
  BY <1>1, <1>2 DEF RefreshInstaller, InstallerRec

\* So does an installer that is started.
LEMMA RunTyped ==
    ASSUME ServiceTypeOK, NEW install \in BOOLEAN, Run(install)
    PROVE  /\ installer' \in InstallerRec /\ job' \in RunRec
           /\ late' \in {"none", "installs", "removes", "done"}
<1>1. Supersede(installer.inspections) \in SUBSET Inspection
  BY RefreshTyped DEF ServiceTypeOK
<1>2. installer' \in InstallerRec
  BY <1>1 DEF Run, ServiceTypeOK, InstallerRec
<1>3. job' \in RunRec
  BY DEF Run, RunRec
<1> QED
  BY <1>2, <1>3 DEF Run, Seen, ServiceTypeOK

\* Every step keeps the types.
LEMMA TypesKept == ServiceTypeOK /\ [ServiceNext]_serviceVars => ServiceTypeOK'
<1> USE RetriesAssumption
<1>1. ASSUME ServiceTypeOK, Inspect PROVE ServiceTypeOK'
  <2>1. installer' \in InstallerRec
    BY <1>1 DEF ServiceTypeOK, Inspect, Inspection, InstallerRec
  <2> QED
    BY <1>1, <2>1 DEF ServiceTypeOK, Inspect
<1>2. ASSUME ServiceTypeOK, InspectionEnds PROVE ServiceTypeOK'
  <2>1. installer' \in InstallerRec
    <3> DEFINE p(i) == [installer EXCEPT !.inspections = @ \ {i}]
    <3>1. \A i : p(i) \in InstallerRec
      BY <1>2 DEF ServiceTypeOK, InstallerRec
    <3>2. PICK i \in installer.inspections :
             \/ installer' = p(i)
             \/ installer' = [p(i) EXCEPT !.installed = i.saw = "installed"]
      BY <1>2 DEF InspectionEnds
    <3> HIDE DEF p
    <3> QED
      BY <3>1, <3>2 DEF InstallerRec
  <2>2. settings' \in PageRec
    BY <1>2 DEF ServiceTypeOK, InspectionEnds, PageRec
  <2> QED
    BY <1>2, <2>1, <2>2 DEF ServiceTypeOK, InspectionEnds
<1>3. ASSUME ServiceTypeOK, Authorize PROVE ServiceTypeOK'
  <2>1. job' \in RunRec \cup {NoJob}
    BY <1>3 DEF ServiceTypeOK, Authorize, RunRec, NoJob
  <2> QED
    BY <1>3, <2>1 DEF ServiceTypeOK, Authorize
<1>4. ASSUME ServiceTypeOK, HelperEnds PROVE ServiceTypeOK'
  <2>1. job \in RunRec
    BY <1>4 DEF ServiceTypeOK, HelperEnds, NoJob
  <2>2. job' \in RunRec
    BY <1>4, <2>1 DEF HelperEnds, RunRec
  <2>3. disk' \in BOOLEAN
    BY <1>4, <2>1 DEF HelperEnds, RunRec
  <2> QED
    BY <1>4, <2>2, <2>3 DEF ServiceTypeOK, HelperEnds
<1>5. ASSUME ServiceTypeOK, GiveUpHelper PROVE ServiceTypeOK'
  <2>1. job' \in RunRec \cup {NoJob}
    BY <1>5 DEF ServiceTypeOK, GiveUpHelper, RunRec, NoJob
  <2>2. late' \in {"none", "installs", "removes", "done"}
    BY <1>5 DEF ServiceTypeOK, GiveUpHelper
  <2> QED
    BY <1>5, <2>1, <2>2 DEF ServiceTypeOK, GiveUpHelper
<1>6. ASSUME ServiceTypeOK, LateHelper PROVE ServiceTypeOK'
  <2>1. disk' \in BOOLEAN
    BY <1>6 DEF ServiceTypeOK, LateHelper
  <2>2. late' \in {"none", "installs", "removes", "done"}
    BY <1>6 DEF ServiceTypeOK, LateHelper
  <2> QED
    BY <1>6, <2>1, <2>2 DEF ServiceTypeOK, LateHelper
<1>7. ASSUME ServiceTypeOK, MatchResult \/ ReadResult PROVE ServiceTypeOK'
  <2> DEFINE success == job.success /\ disk = job.install
  <2>1. job \in RunRec
    BY <1>7 DEF ServiceTypeOK, MatchResult, ReadResult, NoJob
  <2>2. \/ job' = [job EXCEPT !.phase = "reading", !.success = success]
        \/ job' = [job EXCEPT !.phase = "ended", !.installed = disk]
    BY <1>7 DEF MatchResult, ReadResult
  <2>3. success \in BOOLEAN
    OBVIOUS
  <2>4. disk \in BOOLEAN
    BY <1>7 DEF ServiceTypeOK
  <2> HIDE DEF success
  <2>5. job' \in RunRec
    BY <2>1, <2>2, <2>3, <2>4 DEF RunRec
  <2> QED
    BY <1>7, <2>5 DEF ServiceTypeOK, MatchResult, ReadResult
<1>8. ASSUME ServiceTypeOK, RunEnds PROVE ServiceTypeOK'
  <2> DEFINE p == [installer EXCEPT !.installed = job.installed, !.busy = FALSE]
             s == [settings EXCEPT !.checked = TRUE]
  <2>1. job.installed \in BOOLEAN
    BY <1>8 DEF ServiceTypeOK, RunEnds, NoJob, RunRec
  <2>2. p \in InstallerRec
    BY <1>8, <2>1 DEF ServiceTypeOK, InstallerRec
  <2>3. RefreshInstaller(p) \in InstallerRec
    BY <2>2, RefreshTyped
  <2>4. s \in PageRec
    BY <1>8 DEF ServiceTypeOK, PageRec
  <2>5. \A n \in 0 .. Retries :
           Probing([s EXCEPT !.reachable = FALSE, !.retries = n]) \in PageRec
    BY <2>4 DEF Probing, PageRec
  <2>6. 0 \in 0 .. Retries /\ Retries \in 0 .. Retries
    BY RetriesAssumption
  <2> HIDE DEF p, s
  <2>7. /\ installer' \in {p, RefreshInstaller(p)}
        /\ \/ settings' = s
           \/ \E n \in 0 .. Retries :
                 settings' = Probing([s EXCEPT !.reachable = FALSE, !.retries = n])
        /\ core' = core \/ ApplyMode(job.installed)
        /\ late' = late \/ late' = "none"
        /\ job' = NoJob /\ UNCHANGED <<disk, clicks>>
    BY <1>8, <2>6 DEF RunEnds, Seen, p, s
  <2>8. core' \in CoreRec
    BY <1>8, <2>1, <2>7 DEF ServiceTypeOK, ApplyMode, CoreRec
  <2>9. installer' \in InstallerRec /\ settings' \in PageRec
    BY <2>2, <2>3, <2>4, <2>5, <2>7
  <2> QED
    BY <1>8, <2>7, <2>8, <2>9 DEF ServiceTypeOK
<1>9. ASSUME ServiceTypeOK, ClickCheck PROVE ServiceTypeOK'
  <2>1. installer' \in InstallerRec
    BY <1>9, RefreshTyped DEF ServiceTypeOK, ClickCheck, CheckStatus, Probing, Seen, Clicked, InstallerRec
  <2>2. settings' \in PageRec
    BY <1>9 DEF ServiceTypeOK, ClickCheck, CheckStatus, Probing, Seen, Clicked, PageRec
  <2>3. late' \in {"none", "installs", "removes", "done"}
    BY <1>9 DEF ServiceTypeOK, ClickCheck, CheckStatus, Probing, Seen, Clicked
  <2>4. clicks' \in 0 .. MaxClicks
    BY <1>9 DEF ServiceTypeOK, ClickCheck, CheckStatus, Probing, Seen, Clicked
  <2> QED
    BY <1>9, <2>1, <2>2, <2>3, <2>4 DEF ServiceTypeOK, ClickCheck
<1>10. ASSUME ServiceTypeOK, CheckAfterStop PROVE ServiceTypeOK'
  <2>1. core' \in CoreRec
    BY <1>10 DEF ServiceTypeOK, CheckAfterStop, CheckStatus, Probing, Seen, CoreRec
  <2>2. installer' \in InstallerRec
    BY <1>10, RefreshTyped DEF ServiceTypeOK, CheckAfterStop, CheckStatus, Probing, Seen, InstallerRec
  <2>3. settings' \in PageRec
    BY <1>10 DEF ServiceTypeOK, CheckAfterStop, CheckStatus, Probing, Seen, PageRec
  <2>4. late' \in {"none", "installs", "removes", "done"}
    BY <1>10 DEF ServiceTypeOK, CheckAfterStop, CheckStatus, Probing, Seen
  <2> QED
    BY <1>10, <2>1, <2>2, <2>3, <2>4 DEF ServiceTypeOK, CheckAfterStop
<1>11. ASSUME ServiceTypeOK, ClickInstall PROVE ServiceTypeOK'
  <2>1. settings' \in PageRec
    BY <1>11 DEF ServiceTypeOK, ClickInstall, PageRec
  <2>2. clicks' \in 0 .. MaxClicks
    BY <1>11, RetriesAssumption DEF ServiceTypeOK, ClickInstall, Clicked
  <2> QED
    BY <1>11, <2>1, <2>2, RunTyped DEF ServiceTypeOK, ClickInstall
<1>12. ASSUME ServiceTypeOK, ClickRemove PROVE ServiceTypeOK'
  <2>1. settings' \in PageRec
    BY <1>12 DEF ServiceTypeOK, ClickRemove, Clicked, PageRec
  <2>2. clicks' \in 0 .. MaxClicks
    BY <1>12 DEF ServiceTypeOK, ClickRemove, Clicked
  <2> QED
    BY <1>12, <2>1, <2>2 DEF ServiceTypeOK, ClickRemove
<1>13. ASSUME ServiceTypeOK, RemoveAnswered PROVE ServiceTypeOK'
  <2>1. settings' \in PageRec
    BY <1>13 DEF ServiceTypeOK, RemoveAnswered, PageRec
  <2>2. CASE Run(FALSE)
    BY <1>13, <2>1, <2>2, RunTyped DEF ServiceTypeOK, RemoveAnswered
  <2>3. CASE UNCHANGED <<installer, job, late>>
    BY <1>13, <2>1, <2>3 DEF ServiceTypeOK, RemoveAnswered
  <2> QED
    BY <1>13, <2>2, <2>3 DEF RemoveAnswered
<1>14. ASSUME ServiceTypeOK, ToggleService PROVE ServiceTypeOK'
  <2>1. core' \in CoreRec
    BY <1>14 DEF ServiceTypeOK, ToggleService, ApplyMode, Clicked, CoreRec
  <2>2. clicks' \in 0 .. MaxClicks
    BY <1>14 DEF ServiceTypeOK, ToggleService, ApplyMode, Clicked
  <2> QED
    BY <1>14, <2>1, <2>2 DEF ServiceTypeOK, ToggleService
<1>15. ASSUME ServiceTypeOK, StatusReceived PROVE ServiceTypeOK'
  <2>1. PICK running \in BOOLEAN :
           settings' = [settings EXCEPT !.probe = FALSE, !.running = running, !.retries = 0,
                                        !.timer = FALSE, !.reachable = TRUE]
    BY <1>15 DEF StatusReceived
  <2>2. settings \in PageRec /\ 0 \in 0 .. Retries
    BY <1>15, RetriesAssumption DEF ServiceTypeOK
  <2>3. settings' \in PageRec
    BY <2>1, <2>2 DEF PageRec
  <2> QED
    BY <1>15, <2>3 DEF ServiceTypeOK, StatusReceived
<1>16. ASSUME ServiceTypeOK, ProbeFails PROVE ServiceTypeOK'
  <2>1. settings.retries \in 0 .. Retries
    BY <1>16 DEF ServiceTypeOK, PageRec
  <2>2. settings.retries > 0 => settings.retries - 1 \in 0 .. Retries
    BY <2>1, RetriesAssumption
  <2>3. \/ settings' = [settings EXCEPT !.probe = FALSE, !.reachable = FALSE]
        \/ /\ settings.retries > 0
           /\ settings' = [settings EXCEPT !.probe = FALSE, !.reachable = FALSE,
                                           !.retries = settings.retries - 1, !.timer = TRUE]
    BY <1>16 DEF ServiceTypeOK, PageRec, ProbeFails
  <2>4. settings' \in PageRec
    BY <1>16, <2>2, <2>3 DEF ServiceTypeOK, PageRec
  <2> QED
    BY <1>16, <2>4 DEF ServiceTypeOK, ProbeFails
<1>17. ASSUME ServiceTypeOK, StartupRetry PROVE ServiceTypeOK'
  <2>1. settings' \in PageRec
    BY <1>17 DEF ServiceTypeOK, StartupRetry, Probing, PageRec
  <2> QED
    BY <1>17, <2>1 DEF ServiceTypeOK, StartupRetry
<1>18. ASSUME ServiceTypeOK, StartCore PROVE ServiceTypeOK'
  <2>1. core' \in CoreRec
    BY <1>18 DEF ServiceTypeOK, StartCore, Clicked, CoreRec
  <2>2. clicks' \in 0 .. MaxClicks
    BY <1>18 DEF ServiceTypeOK, StartCore, Clicked
  <2> QED
    BY <1>18, <2>1, <2>2 DEF ServiceTypeOK, StartCore
<1>19. ASSUME ServiceTypeOK, RuntimeConfigReady PROVE ServiceTypeOK'
  <2>1. core' \in CoreRec
    BY <1>19 DEF ServiceTypeOK, RuntimeConfigReady, CoreRec
  <2> QED
    BY <1>19, <2>1 DEF ServiceTypeOK, RuntimeConfigReady
<1>20. ASSUME ServiceTypeOK, CoreEnds PROVE ServiceTypeOK'
  <2>1. core' \in CoreRec
    BY <1>20 DEF ServiceTypeOK, CoreEnds, CoreRec
  <2> QED
    BY <1>20, <2>1 DEF ServiceTypeOK, CoreEnds
<1>21. ASSUME ServiceTypeOK, CoreSettles PROVE ServiceTypeOK'
  <2>1. core' \in CoreRec
    BY <1>21 DEF ServiceTypeOK, CoreSettles, CoreRec
  <2> QED
    BY <1>21, <2>1 DEF ServiceTypeOK, CoreSettles
<1>22. ASSUME ServiceTypeOK, UNCHANGED serviceVars PROVE ServiceTypeOK'
  BY <1>22 DEF ServiceTypeOK, serviceVars
<1> QED
  BY <1>1, <1>2, <1>3, <1>4, <1>5, <1>6, <1>7, <1>8, <1>9, <1>10, <1>11, <1>12, <1>13, <1>14, <1>15, <1>16, <1>17, <1>18, <1>19, <1>20, <1>21, <1>22 DEF ServiceNext

-----------------------------------------------------------------------------
(* What the page says of the installation *)

\* At the start nothing was looked at.
LEMMA InitIInv == ServiceInit => ServiceIInv
<1> SUFFICES ASSUME ServiceInit PROVE ServiceIInv
  OBVIOUS
<1>1. installer \in InstallerRec /\ settings \in PageRec /\ core \in CoreRec
  BY RetriesAssumption DEF ServiceInit, InstallerRec, PageRec, CoreRec, Inspection
<1>2. ServiceTypeOK
  BY <1>1, RetriesAssumption DEF ServiceInit, ServiceTypeOK
<1> QED
  BY <1>2 DEF ServiceInit, ServiceIInv, InstallationIsKnown, BusyWithJob, CoreRests,
     KnownIsTrue, LatestIsTrue, ResultIsTrue, NoJob

\* Steps of the core and of the page that leave the installation alone.
LEMMA Untouched ==
    ASSUME ServiceIInv, ServiceTypeOK', UNCHANGED <<installer, job, disk, late>>,
           settings'.checked = settings.checked,
           installer.busy => CoreStopped' /\ ~core'.generating
    PROVE  ServiceIInv'
BY DEF ServiceIInv, InstallationIsKnown, BusyWithJob, CoreRests, KnownIsTrue, NoLatest,
       LatestIsTrue, ResultIsTrue

\* An inspection that begins knows nothing yet, and what was known counts no more.
LEMMA Refreshed ==
    ASSUME NEW p \in InstallerRec, ~p.busy, installer' = RefreshInstaller(p),
           job' = NoJob, ServiceTypeOK'
    PROVE  ServiceIInv'
<1>1. installer'.busy = p.busy
  BY DEF RefreshInstaller, InstallerRec
<1>2. installer'.inspections = Supersede(p.inspections) \cup {[latest |-> TRUE, saw |-> "nothing"]}
  BY DEF RefreshInstaller, InstallerRec
<1>3. \A i \in Supersede(p.inspections) : ~i.latest
  BY DEF Supersede, InstallerRec, Inspection
<1>4. ~NoLatest'
  <2>1. PICK i \in installer'.inspections : i = [latest |-> TRUE, saw |-> "nothing"]
    BY <1>2
  <2>2. i.latest
    BY <2>1
  <2> QED
    BY <2>2 DEF NoLatest
<1>5. LatestIsTrue'
  BY <1>1, <1>2, <1>3 DEF LatestIsTrue
<1> QED
  BY <1>1, <1>4, <1>5 DEF ServiceIInv, InstallationIsKnown, BusyWithJob, CoreRests,
     KnownIsTrue, ResultIsTrue, NoJob

\* An installer that starts makes every inspection that is under way useless.
LEMMA RunStarts ==
    ASSUME ServiceIInv, NEW install \in BOOLEAN, Run(install), ServiceTypeOK',
           CoreStopped', ~core'.generating
    PROVE  ServiceIInv'
<1>1. installer'.busy /\ installer'.inspections = Supersede(installer.inspections)
  BY DEF Run, ServiceIInv, InstallationIsKnown, ServiceTypeOK, InstallerRec
<1>2. \A i \in Supersede(installer.inspections) : ~i.latest
  BY DEF Supersede, ServiceIInv, InstallationIsKnown, ServiceTypeOK, InstallerRec, Inspection
<1>3. job'.phase = "authorizing"
  BY DEF Run
<1> QED
  BY <1>1, <1>2, <1>3 DEF ServiceIInv, InstallationIsKnown, BusyWithJob, CoreRests,
     KnownIsTrue, LatestIsTrue, ResultIsTrue

\* A check leaves the installation alone, or looks at it.
LEMMA CheckKeeps ==
    ASSUME ServiceIInv, CheckStatus, ServiceTypeOK', UNCHANGED <<disk, job>>,
           core'.state = core.state, core'.generating = core.generating
    PROVE  ServiceIInv'
<1>1. CASE installer.busy
  BY <1>1, Untouched DEF CheckStatus, ServiceIInv, InstallationIsKnown, CoreRests, CoreStopped
<1>2. CASE ~installer.busy
  <2>1. job = NoJob /\ installer \in InstallerRec
    BY <1>2 DEF ServiceIInv, InstallationIsKnown, BusyWithJob, ServiceTypeOK, RunRec
  <2>2. job' = NoJob /\ installer' = RefreshInstaller(installer)
    BY <1>2, <2>1 DEF CheckStatus
  <2> QED
    BY <1>2, <2>1, <2>2, Refreshed
<1> QED
  BY <1>1, <1>2

\* A worker that looks sees what is there, and a late look tells nothing.
LEMMA InspectionKeeps ==
    ASSUME ServiceIInv, ServiceTypeOK', Inspect \/ InspectionEnds
    PROVE  ServiceIInv'
<1> USE DEF ServiceIInv, InstallationIsKnown
<1>1. CASE Inspect
  <2>1. PICK i \in installer.inspections :
           /\ i.saw = "nothing"
           /\ installer' = [installer EXCEPT !.inspections =
                   (@ \ {i}) \cup {[i EXCEPT !.saw = IF disk THEN "installed" ELSE "absent"]}]
           /\ UNCHANGED <<disk, late, job, settings, core, clicks>>
    BY <1>1 DEF Inspect
  <2>2. i \in Inspection
    BY DEF ServiceTypeOK, InstallerRec
  <2> DEFINE j == [i EXCEPT !.saw = IF disk THEN "installed" ELSE "absent"]
  <2>3. j.latest = i.latest /\ j.saw = IF disk THEN "installed" ELSE "absent"
    BY <2>2 DEF Inspection
  <2> HIDE DEF j
  <2>4. /\ installer'.inspections = (installer.inspections \ {i}) \cup {j}
        /\ installer'.busy = installer.busy /\ installer'.installed = installer.installed
    BY <2>1 DEF ServiceTypeOK, InstallerRec, j
  <2>5. NoLatest' => NoLatest
    BY <2>3, <2>4 DEF NoLatest
  <2>6. LatestIsTrue'
    BY <2>1, <2>3, <2>4 DEF LatestIsTrue
  <2> QED
    BY <2>1, <2>4, <2>5, <2>6 DEF BusyWithJob, CoreRests, CoreStopped, KnownIsTrue, ResultIsTrue
<1>2. CASE InspectionEnds
  <2>1. PICK i \in installer.inspections :
           /\ i.saw # "nothing"
           /\ LET p == [installer EXCEPT !.inspections = @ \ {i}]
              IN IF ~i.latest \/ p.busy THEN installer' = p /\ UNCHANGED settings
                 ELSE /\ installer' = [p EXCEPT !.installed = i.saw = "installed"]
                      /\ settings' = [settings EXCEPT !.checked = TRUE]
           /\ UNCHANGED <<disk, late, job, core, clicks>>
    BY <1>2 DEF InspectionEnds
  <2>2. /\ installer'.inspections = installer.inspections \ {i}
        /\ installer'.busy = installer.busy
    BY <2>1 DEF ServiceTypeOK, InstallerRec
  <2>3. LatestIsTrue'
    BY <2>1, <2>2 DEF LatestIsTrue
  <2>4. CASE ~i.latest \/ installer.busy
    <3>1. installer'.installed = installer.installed /\ settings' = settings
      BY <2>1, <2>4 DEF ServiceTypeOK, InstallerRec
    <3>2. ~installer.busy /\ NoLatest' => NoLatest
      BY <2>2, <2>4 DEF NoLatest
    <3> QED
      BY <2>1, <2>2, <2>3, <3>1, <3>2
         DEF BusyWithJob, CoreRests, CoreStopped, KnownIsTrue, ResultIsTrue
  <2>5. CASE i.latest /\ ~installer.busy
    <3>1. installer'.installed <=> i.saw = "installed"
      BY <2>1, <2>5 DEF ServiceTypeOK, InstallerRec
    <3>2. late # "done" => (i.saw = "installed" <=> disk)
      BY <2>1, <2>5 DEF LatestIsTrue
    <3> QED
      BY <2>1, <2>2, <2>3, <3>1, <3>2
         DEF BusyWithJob, CoreRests, CoreStopped, KnownIsTrue, ResultIsTrue
  <2> QED
    BY <2>4, <2>5
<1> QED
  BY <1>1, <1>2

\* While the installer runs, nothing that was known counts; at its end it
\* knows what it left.
LEMMA JobKeeps ==
    ASSUME ServiceIInv, ServiceTypeOK',
           Authorize \/ HelperEnds \/ GiveUpHelper \/ LateHelper \/ MatchResult \/ ReadResult
    PROVE  ServiceIInv'
<1> USE DEF ServiceIInv, InstallationIsKnown
<1>1. CASE LateHelper
  BY <1>1 DEF LateHelper, BusyWithJob, CoreRests, CoreStopped, KnownIsTrue, LatestIsTrue,
     ResultIsTrue
<1>2. CASE Authorize \/ HelperEnds \/ GiveUpHelper \/ MatchResult \/ ReadResult
  <2>1. job \in RunRec /\ installer.busy
    BY <1>2 DEF Authorize, HelperEnds, GiveUpHelper, MatchResult, ReadResult, ServiceTypeOK,
       BusyWithJob, NoJob
  <2>2. UNCHANGED <<installer, settings, core>>
    BY <1>2 DEF Authorize, HelperEnds, GiveUpHelper, MatchResult, ReadResult
  <2>3. job'.phase \in {"helping", "matching", "reading", "ended"}
    BY <1>2, <2>1 DEF Authorize, HelperEnds, GiveUpHelper, MatchResult, ReadResult, RunRec
  <2>4. ResultIsTrue'
    <3>1. CASE ReadResult
      BY <2>1, <3>1 DEF ReadResult, ResultIsTrue, RunRec
    <3>2. CASE Authorize \/ HelperEnds \/ GiveUpHelper \/ MatchResult
      <4>1. job'.phase # "ended"
        BY <2>1, <3>2 DEF Authorize, HelperEnds, GiveUpHelper, MatchResult, RunRec
      <4> QED
        BY <4>1 DEF ResultIsTrue
    <3> QED
      BY <1>2, <3>1, <3>2
  <2> QED
    BY <2>1, <2>2, <2>3, <2>4
       DEF BusyWithJob, CoreRests, CoreStopped, KnownIsTrue, LatestIsTrue
<1> QED
  BY <1>1, <1>2

\* The end of a run: what it found is known, or a check follows at once.
LEMMA RunEndsKeeps ==
    ASSUME ServiceIInv, ServiceTypeOK', RunEnds
    PROVE  ServiceIInv'
<1> DEFINE p == [installer EXCEPT !.installed = job.installed, !.busy = FALSE]
<1>1. job \in RunRec /\ installer.busy /\ job.phase = "ended"
  BY DEF RunEnds, ServiceIInv, InstallationIsKnown, BusyWithJob, ServiceTypeOK, NoJob
<1>2. /\ p \in InstallerRec /\ ~p.busy
      /\ p.installed = job.installed /\ p.inspections = installer.inspections
  BY <1>1 DEF ServiceIInv, InstallationIsKnown, ServiceTypeOK, InstallerRec, RunRec
<1>3. job' = NoJob /\ UNCHANGED disk
  BY DEF RunEnds
<1> HIDE DEF p
<1>4. CASE job.success
  <2>1. installer' = RefreshInstaller(p)
    BY <1>4 DEF RunEnds, p
  <2> QED
    BY <1>2, <1>3, <2>1, Refreshed
<1>5. CASE ~job.success
  <2>1. installer' = p /\ UNCHANGED <<core, late>>
    BY <1>5 DEF RunEnds, p
  <2>2. \A i \in installer'.inspections : ~i.latest
    BY <1>1, <1>2, <2>1 DEF ServiceIInv, LatestIsTrue
  <2>3. late # "done" => (installer'.installed <=> disk)
    BY <1>1, <1>2, <2>1 DEF ServiceIInv, ResultIsTrue
  <2>4. BusyWithJob' /\ CoreRests' /\ KnownIsTrue'
    BY <1>2, <1>3, <2>1, <2>3 DEF BusyWithJob, CoreRests, KnownIsTrue, NoJob
  <2>5. LatestIsTrue' /\ ResultIsTrue'
    BY <1>3, <2>2 DEF LatestIsTrue, ResultIsTrue, NoJob
  <2> QED
    BY <2>4, <2>5 DEF ServiceIInv, InstallationIsKnown
<1> QED
  BY <1>4, <1>5

\* Each step keeps the invariant.
LEMMA NextIInv == ServiceIInv /\ [ServiceNext]_serviceVars => ServiceIInv'
<1> SUFFICES ASSUME ServiceIInv, [ServiceNext]_serviceVars PROVE ServiceIInv'
  OBVIOUS
<1>1. ServiceTypeOK /\ ServiceTypeOK'
  BY TypesKept DEF ServiceIInv, InstallationIsKnown
<1>2. installer.busy => CoreStopped /\ ~core.generating
  BY DEF ServiceIInv, InstallationIsKnown, CoreRests
<1>3. CASE Inspect \/ InspectionEnds
  BY <1>1, <1>3, InspectionKeeps
<1>4. CASE Authorize \/ HelperEnds \/ GiveUpHelper \/ LateHelper \/ MatchResult \/ ReadResult
  BY <1>1, <1>4, JobKeeps
<1>5. CASE RunEnds
  BY <1>1, <1>5, RunEndsKeeps
<1>6. CASE ClickCheck
  BY <1>1, <1>6, CheckKeeps DEF ClickCheck
<1>7. CASE CheckAfterStop
  <2>1. core'.state = core.state /\ core'.generating = core.generating
    BY <1>1, <1>7 DEF CheckAfterStop, ServiceTypeOK, CoreRec
  <2> QED
    BY <1>1, <1>7, <2>1, CheckKeeps DEF CheckAfterStop
<1>8. CASE ClickInstall
  BY <1>1, <1>8, RunStarts DEF ClickInstall, Available, CoreStopped
<1>9. CASE RemoveAnswered
  <2>1. CASE Available /\ Run(FALSE) /\ UNCHANGED core
    BY <1>1, <2>1, RunStarts DEF Available, CoreStopped
  <2>2. CASE /\ settings' = [settings EXCEPT !.asking = FALSE]
             /\ UNCHANGED <<installer, job, late, disk, core>>
    <3>1. settings'.checked = settings.checked
      BY <1>1, <2>2 DEF ServiceTypeOK, PageRec
    <3> QED
      BY <1>1, <1>2, <2>2, <3>1, Untouched DEF CoreStopped
  <2> QED
    BY <1>9, <2>1, <2>2 DEF RemoveAnswered
<1>10. CASE ClickRemove \/ StatusReceived \/ ProbeFails \/ StartupRetry
  <2>1. settings'.checked = settings.checked
    BY <1>1, <1>10
       DEF ClickRemove, StatusReceived, ProbeFails, StartupRetry, Probing, ServiceTypeOK, PageRec
  <2>2. UNCHANGED <<installer, job, disk, late, core>>
    BY <1>10 DEF ClickRemove, StatusReceived, ProbeFails, StartupRetry
  <2> QED
    BY <1>1, <1>2, <2>1, <2>2, Untouched DEF CoreStopped
<1>11. CASE ToggleService \/ StartCore \/ RuntimeConfigReady \/ CoreEnds \/ CoreSettles
  <2>1. UNCHANGED <<installer, job, disk, late, settings>>
    BY <1>11 DEF ToggleService, StartCore, RuntimeConfigReady, CoreEnds, CoreSettles
  <2>2. installer.busy => CoreStopped' /\ ~core'.generating
    BY <1>1, <1>2, <1>11
       DEF ToggleService, Available, ApplyMode, StartCore, RuntimeConfigReady, CoreEnds,
           CoreSettles, CoreStopped, ServiceTypeOK, CoreRec
  <2> QED
    BY <1>1, <2>1, <2>2, Untouched
<1>12. CASE UNCHANGED serviceVars
  BY <1>1, <1>2, <1>12, Untouched DEF serviceVars, CoreStopped
<1> QED
  BY <1>3, <1>4, <1>5, <1>6, <1>7, <1>8, <1>9, <1>10, <1>11, <1>12 DEF ServiceNext

\* What the settings page says of the installation is true, for any number of
\* clicks, retries, inspections and installers that overlap or are given up.
THEOREM InstallationIsTrue == ServiceSpec => []InstallationIsKnown
<1>1. ServiceIInv => InstallationIsKnown
  BY DEF ServiceIInv
<1> QED
  BY <1>1, InitIInv, NextIInv, PTL DEF ServiceSpec
=============================================================================
