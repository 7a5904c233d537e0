---------------------------- MODULE WSBytesProofs ----------------------------
(***************************************************************************)
(* Sequences: what holds of FlattenSeq and of what is said of every        *)
(* sequence.  send: its text is cut into frames, for every text, message   *)
(* size and width of usize.  Frames and their bytes: what the client       *)
(* writes, masked, is what the server reads, so that the frames of send    *)
(* are its text there; what the server writes is what the client reads;    *)
(* and no frame is read before it has arrived.  Texts with separators:     *)
(* what Split and trim make of them.                                       *)
(***************************************************************************)
EXTENDS WSWire, SequenceTheorems, FiniteSetTheorems, WellFoundedInduction, TLAPS

-----------------------------------------------------------------------------
(* Sequences *)

\* With a well-founded order that < is part of, numbers have a least.
LEMMA LeastBy ==
    ASSUME NEW R, IsWellFoundedOn(R, Nat), \A x, y \in Nat : x < y => <<x, y>> \in R,
           NEW T, T \subseteq Nat, T # {}
    PROVE  \E x \in T : \A y \in T : x <= y
<1>1. PICK x \in T : \A y \in T : ~(<<y, x>> \in R)
  BY ONLY IsWellFoundedOn(R, Nat), T \subseteq Nat, T # {}, WFMin, ZenonT(60)
<1>2. \A y \in T : ~(y < x)
  BY <1>1
<1>3. \A y \in T : x <= y
  BY <1>2
<1> QED BY <1>3

\* A set of numbers that is not empty has a least.
LEMMA LeastOf ==
    ASSUME NEW T, T \subseteq Nat, T # {}
    PROVE  \E x \in T : \A y \in T : x <= y
<1>1. IsWellFoundedOn(OpToRel(<, Nat), Nat)
  BY NatLessThanWellFounded
<1>2. \A x, y \in Nat : x < y => <<x, y>> \in OpToRel(<, Nat)
  BY DEF OpToRel
<1> QED BY <1>1, <1>2, LeastBy, Zenon

\* A set that holds 0, and n + 1 with n, holds every number.
LEMMA SetInduction ==
    ASSUME NEW S, 0 \in S, \A n \in Nat : n \in S => n + 1 \in S
    PROVE  Nat \subseteq S
<1> SUFFICES ASSUME Nat \ S # {} PROVE FALSE
  OBVIOUS
<1>1. PICK x \in Nat \ S : \A y \in Nat \ S : x <= y
  <2>1. Nat \ S \subseteq Nat  OBVIOUS
  <2> QED BY <2>1, LeastOf, Zenon
<1>2. x # 0 OBVIOUS
<1>3. x - 1 \in Nat /\ x - 1 < x /\ (x - 1) + 1 = x
  BY <1>2
<1>4. x - 1 \in S
  BY <1>1, <1>3
<1> QED BY <1>3, <1>4

\* f holds the flattened beginnings of s up to the n-th.
Flattens(f, s, n) == f = [i \in 1 .. n |-> IF i = 1 THEN s[i] ELSE f[i - 1] \o s[i]]

\* FlattenSeq of a sequence is the last of its flattened beginnings.
LEMMA FlattenDef ==
    ASSUME NEW s, Len(s) # 0
    PROVE  FlattenSeq(s) = (CHOOSE f : Flattens(f, s, Len(s)))[Len(s)]
BY DEF FlattenSeq, Flattens

\* One more flattened beginning.
LEMMA FlattensMore ==
    ASSUME NEW s, NEW f, NEW n \in Nat, Flattens(f, s, n)
    PROVE  LET last == IF n = 0 THEN s[1] ELSE f[n] \o s[n + 1]
           IN  Flattens([i \in 1 .. n + 1 |-> IF i = n + 1 THEN last ELSE f[i]], s, n + 1)
<1> DEFINE last == IF n = 0 THEN s[1] ELSE f[n] \o s[n + 1]
           g == [i \in 1 .. n + 1 |-> IF i = n + 1 THEN last ELSE f[i]]
<1>1. \A i \in 1 .. n : f[i] = IF i = 1 THEN s[i] ELSE f[i - 1] \o s[i]
  BY DEF Flattens
<1>2. ASSUME NEW i \in 1 .. n + 1
      PROVE  g[i] = IF i = 1 THEN s[i] ELSE g[i - 1] \o s[i]
  <2>1. CASE i = 1 /\ n = 0  BY <2>1
  <2>2. CASE i = 1 /\ n # 0
    <3>1. g[i] = f[1] BY <2>2
    <3> QED BY <1>1, <2>2, <3>1
  <2>3. CASE i # 1 /\ i = n + 1
    <3>1. n # 0 /\ i = n + 1 /\ i - 1 = n /\ n \in 1 .. n + 1 /\ n # n + 1 BY <2>3
    <3>2. g[i] = last BY <3>1
    <3>3. last = f[n] \o s[n + 1] BY <3>1
    <3>4. g[i - 1] = f[n] BY <3>1
    <3> QED BY <2>3, <3>1, <3>2, <3>3, <3>4
  <2>4. CASE i # 1 /\ i # n + 1
    <3>1. g[i] = f[i] /\ g[i - 1] = f[i - 1] /\ i \in 1 .. n BY <2>4
    <3> QED BY <1>1, <2>4, <3>1
  <2> QED BY <2>1, <2>2, <2>3, <2>4
<1>3. g = [i \in 1 .. n + 1 |-> g[i]]
  OBVIOUS
<1> HIDE DEF g
<1>4. g = [i \in 1 .. n + 1 |-> IF i = 1 THEN s[i] ELSE g[i - 1] \o s[i]]
  BY <1>2, <1>3
<1>5. Flattens(g, s, n + 1)
  BY <1>4 DEF Flattens
<1> QED BY <1>5 DEF g

\* Up to every n there are flattened beginnings.
LEMMA FlattensExists ==
    ASSUME NEW s, NEW n \in Nat
    PROVE  \E f : Flattens(f, s, n)
<1> DEFINE S == {k \in Nat : \E f : Flattens(f, s, k)}
<1>1. 0 \in S
  <2>1. Flattens([i \in 1 .. 0 |-> 0], s, 0)
    BY DEF Flattens
  <2> QED BY <2>1
<1>2. ASSUME NEW k \in Nat, k \in S
      PROVE  k + 1 \in S
  <2>1. PICK f : Flattens(f, s, k)
    BY <1>2
  <2>2. \E g : Flattens(g, s, k + 1)
    BY <2>1, FlattensMore
  <2> QED BY <2>2
<1> HIDE DEF S
<1>3. Nat \subseteq S
  BY <1>1, <1>2, SetInduction
<1> QED BY <1>3 DEF S

\* Where two sequences agree, their flattened beginnings do.
LEMMA FlattensAgree ==
    ASSUME NEW s, NEW t, NEW f, NEW g, NEW n \in Nat, NEW m \in Nat, n <= m,
           \A i \in 1 .. n : s[i] = t[i],
           Flattens(f, s, n), Flattens(g, t, m)
    PROVE  \A i \in 1 .. n : f[i] = g[i]
<1> DEFINE S == {k \in Nat : k \in 1 .. n => f[k] = g[k]}
<1>1. 0 \in S
  OBVIOUS
<1>2. ASSUME NEW k \in Nat, k \in S
      PROVE  k + 1 \in S
  <2> SUFFICES ASSUME k + 1 \in 1 .. n PROVE f[k + 1] = g[k + 1]
    OBVIOUS
  <2>1. f[k + 1] = IF k + 1 = 1 THEN s[k + 1] ELSE f[(k + 1) - 1] \o s[k + 1]
    BY DEF Flattens
  <2>2. g[k + 1] = IF k + 1 = 1 THEN t[k + 1] ELSE g[(k + 1) - 1] \o t[k + 1]
    <3>1. k + 1 \in 1 .. m  OBVIOUS
    <3> QED BY <3>1 DEF Flattens
  <2>3. s[k + 1] = t[k + 1]
    OBVIOUS
  <2>4. CASE k = 0
    BY <2>1, <2>2, <2>3, <2>4
  <2>5. CASE k # 0
    <3>1. f[k] = g[k] /\ (k + 1) - 1 = k /\ k + 1 # 1
      BY <1>2, <2>5
    <3> QED BY <2>1, <2>2, <2>3, <3>1
  <2> QED BY <2>4, <2>5
<1> HIDE DEF S
<1>3. Nat \subseteq S
  BY <1>1, <1>2, SetInduction
<1> QED BY <1>3 DEF S

\* Nothing, flattened.
LEMMA FlattenNone == FlattenSeq(<<>>) = <<>>
BY DEF FlattenSeq

\* Flattened, what is appended comes last.
LEMMA FlattenAppend ==
    ASSUME NEW T, NEW s \in Seq(Seq(T)), NEW x \in Seq(T)
    PROVE  FlattenSeq(Append(s, x)) = FlattenSeq(s) \o x
<1> DEFINE t == Append(s, x)
           n == Len(s)
           f == CHOOSE h : Flattens(h, s, n)
           g == CHOOSE h : Flattens(h, t, n + 1)
<1>1. /\ n \in Nat /\ Len(t) = n + 1 /\ \A i \in 1 .. n : s[i] = t[i]
      /\ t[n + 1] = x
  BY AppendProperties
<1>2. n + 1 \in Nat /\ n + 1 # 0
  BY <1>1
<1>3. Flattens(f, s, n) /\ Flattens(g, t, n + 1)
  <2>1. \E h : Flattens(h, s, n)
    BY <1>1, FlattensExists
  <2>2. \E h : Flattens(h, t, n + 1)
    BY <1>2, FlattensExists
  <2> QED BY <2>1, <2>2
<1>4. FlattenSeq(t) = g[n + 1]
  BY <1>1, <1>2, FlattenDef
<1>5. CASE n = 0
  <2>1. s = <<>>
    BY <1>5, EmptySeq
  <2>2. g[1] = t[1]
    BY <1>3, <1>5 DEF Flattens
  <2>3. <<>> \o x = x
    BY ConcatEmptySeq
  <2>4. FlattenSeq(t) = x /\ FlattenSeq(s) = <<>>
    BY <1>1, <1>4, <1>5, <2>1, <2>2, FlattenNone
  <2> QED BY <2>3, <2>4
<1>6. CASE n # 0
  <2>1. FlattenSeq(s) = f[n]
    BY <1>1, <1>6, FlattenDef
  <2> HIDE DEF t, f, g, n
  <2>2. f[n] = g[n]
    <3>1. \A i \in 1 .. n : f[i] = g[i]
      BY <1>1, <1>2, <1>3, FlattensAgree
    <3> QED BY <1>1, <1>6, <3>1
  <2>3. g[n + 1] = g[n] \o t[n + 1]
    <3>1. n + 1 \in 1 .. n + 1 /\ (n + 1) - 1 = n /\ n + 1 # 1
      BY <1>1, <1>6
    <3>2. g = [i \in 1 .. n + 1 |-> IF i = 1 THEN t[i] ELSE g[i - 1] \o t[i]]
      BY <1>3 DEF Flattens
    <3> QED BY <3>1, <3>2
  <2>4. FlattenSeq(t) = FlattenSeq(s) \o x
    BY <1>1, <1>4, <2>1, <2>2, <2>3
  <2> QED BY <2>4 DEF t
<1> QED BY <1>5, <1>6

\* A set that holds the empty sequence, and with a sequence every longer one, holds all.
LEMMA SeqInduction ==
    ASSUME NEW T, NEW P, <<>> \in P, \A s \in Seq(T) : \A x \in T : s \in P => Append(s, x) \in P
    PROVE  Seq(T) \subseteq P
<1> DEFINE S == {n \in Nat : \A s \in Seq(T) : Len(s) = n => s \in P}
<1>1. 0 \in S
  <2>1. \A s \in Seq(T) : Len(s) = 0 => s = <<>>
    BY EmptySeq
  <2> QED BY <2>1
<1>2. ASSUME NEW n \in Nat, n \in S
      PROVE  n + 1 \in S
  <2>1. ASSUME NEW s \in Seq(T), Len(s) = n + 1
        PROVE  s \in P
    <3>1. s # <<>>
      BY <2>1
    <3>2. PICK u \in Seq(T), x \in T : s = Append(u, x)
      BY <3>1, SequenceEmptyOrAppend
    <3>3. Len(u) = n
      BY <2>1, <3>2
    <3> QED BY <1>2, <3>2, <3>3
  <2> QED BY <2>1
<1> HIDE DEF S
<1>3. Nat \subseteq S
  BY <1>1, <1>2, SetInduction
<1>4. \A s \in Seq(T) : Len(s) \in Nat
  OBVIOUS
<1> QED BY <1>3, <1>4 DEF S

\* Sequences, flattened, have the elements of those sequences.
LEMMA FlattenType ==
    ASSUME NEW T, NEW s \in Seq(Seq(T))
    PROVE  FlattenSeq(s) \in Seq(T)
<1> DEFINE P == {u \in Seq(Seq(T)) : FlattenSeq(u) \in Seq(T)}
<1>1. <<>> \in P
  <2>1. <<>> \in Seq(Seq(T)) /\ <<>> \in Seq(T)
    BY EmptySeq, Zenon
  <2>2. FlattenSeq(<<>>) \in Seq(T)
    BY <2>1, FlattenNone, Zenon
  <2> QED BY <2>1, <2>2, Zenon
<1>2. ASSUME NEW u \in Seq(Seq(T)), NEW x \in Seq(T), u \in P
      PROVE  Append(u, x) \in P
  <2>1. FlattenSeq(Append(u, x)) = FlattenSeq(u) \o x
    BY FlattenAppend
  <2>2. FlattenSeq(u) \o x \in Seq(T)
    BY <1>2
  <2>3. Append(u, x) \in Seq(Seq(T))
    OBVIOUS
  <2>4. FlattenSeq(Append(u, x)) \in Seq(T)
    BY <2>1, <2>2, Zenon
  <2> QED BY <2>3, <2>4, Zenon
<1> HIDE DEF P
<1>3. Seq(Seq(T)) \subseteq P
  BY <1>1, <1>2, SeqInduction
<1> QED BY <1>3 DEF P

\* Flattened, what comes after comes after.
LEMMA FlattenConcat ==
    ASSUME NEW T, NEW s \in Seq(Seq(T)), NEW t \in Seq(Seq(T))
    PROVE  FlattenSeq(s \o t) = FlattenSeq(s) \o FlattenSeq(t)
<1> DEFINE P == {u \in Seq(Seq(T)) : FlattenSeq(s \o u) = FlattenSeq(s) \o FlattenSeq(u)}
<1>1. <<>> \in P
  <2>1. s \o <<>> = s
    BY ConcatEmptySeq
  <2>2. FlattenSeq(s) \o <<>> = FlattenSeq(s)
    BY FlattenType, ConcatEmptySeq
  <2>3. <<>> \in Seq(Seq(T))
    BY EmptySeq, Zenon
  <2>4. FlattenSeq(s \o <<>>) = FlattenSeq(s) \o FlattenSeq(<<>>)
    BY <2>1, <2>2, FlattenNone, Zenon
  <2> QED BY <2>3, <2>4, Zenon
<1>2. ASSUME NEW u \in Seq(Seq(T)), NEW x \in Seq(T), u \in P
      PROVE  Append(u, x) \in P
  <2>1. s \o u \in Seq(Seq(T)) /\ Append(u, x) \in Seq(Seq(T))
    OBVIOUS
  <2>2. s \o Append(u, x) = Append(s \o u, x)
    BY AppendIsConcat, ConcatAssociative
  <2>3. FlattenSeq(s \o Append(u, x)) = FlattenSeq(s \o u) \o x
    BY <2>1, <2>2, FlattenAppend
  <2>4. FlattenSeq(Append(u, x)) = FlattenSeq(u) \o x
    BY FlattenAppend
  <2>5. (FlattenSeq(s) \o FlattenSeq(u)) \o x = FlattenSeq(s) \o (FlattenSeq(u) \o x)
    BY FlattenType, ConcatAssociative
  <2> QED BY <1>2, <2>1, <2>3, <2>4, <2>5
<1> HIDE DEF P
<1>3. Seq(Seq(T)) \subseteq P
  BY <1>1, <1>2, SeqInduction
<1> QED BY <1>3 DEF P

\* One sequence, flattened.
LEMMA FlattenOne ==
    ASSUME NEW T, NEW x \in Seq(T)
    PROVE  FlattenSeq(<<x>>) = x
<1>1. <<x>> = Append(<<>>, x) /\ <<>> \in Seq(Seq(T))
  OBVIOUS
<1>2. FlattenSeq(<<x>>) = FlattenSeq(<<>>) \o x
  BY <1>1, FlattenAppend
<1>3. <<>> \o x = x
  BY ConcatEmptySeq
<1> QED BY <1>2, <1>3, FlattenNone

\* Nothing, however often, is nothing.
LEMMA FlattenEmpties ==
    ASSUME NEW T, NEW s \in Seq({<<>>})
    PROVE  s \in Seq(Seq(T)) /\ FlattenSeq(s) = <<>>
<1> DEFINE P == {u \in Seq({<<>>}) : u \in Seq(Seq(T)) /\ FlattenSeq(u) = <<>>}
<1>1. <<>> \in Seq(T)
  OBVIOUS
<1>2. <<>> \in P
  <2>1. <<>> \in Seq({<<>>}) /\ <<>> \in Seq(Seq(T))
    BY EmptySeq, Zenon
  <2> QED BY <2>1, FlattenNone, Zenon
<1>3. ASSUME NEW u \in Seq({<<>>}), NEW x \in {<<>>}, u \in P
      PROVE  Append(u, x) \in P
  <2>1. x \in Seq(T) /\ x = <<>>
    BY <1>1
  <2>2. u \in Seq(Seq(T)) /\ FlattenSeq(u) = <<>>
    BY <1>3
  <2>3. FlattenSeq(Append(u, x)) = FlattenSeq(u) \o x
    BY <2>1, <2>2, FlattenAppend
  <2>4. <<>> \o <<>> = <<>>
    BY <1>1, ConcatEmptySeq, Zenon
  <2>5. FlattenSeq(Append(u, x)) = <<>>
    BY <2>1, <2>2, <2>3, <2>4, Zenon
  <2>6. Append(u, x) \in Seq({<<>>})
    OBVIOUS
  <2>7. Append(u, x) \in Seq(Seq(T))
    BY <2>1, <2>2
  <2> QED BY <2>5, <2>6, <2>7, Zenon
<1> HIDE DEF P
<1>4. Seq({<<>>}) \subseteq P
  BY <1>2, <1>3, SeqInduction
<1> QED BY <1>4 DEF P

\* Two sequences that agree up to a place, behind which the one is empty, begin alike.
LEMMA FlattenBegins ==
    ASSUME NEW T, NEW A \in Seq(Seq(T)), NEW B \in Seq(Seq(T)), Len(A) <= Len(B),
           NEW k \in 0 .. Len(A), \A i \in 1 .. k : A[i] = B[i],
           \A i \in k + 1 .. Len(A) : A[i] = <<>>
    PROVE  \E w \in Seq(T) : FlattenSeq(B) = FlattenSeq(A) \o w
<1> DEFINE U == Seq(T)
           g == SubSeq(A, 1, k)
           e == SubSeq(A, k + 1, Len(A))
           h == SubSeq(B, k + 1, Len(B))
<1>1. /\ A \in Seq(U) /\ B \in Seq(U) /\ Len(A) \in Nat /\ Len(B) \in Nat
      /\ k \in Nat /\ k <= Len(A) /\ k <= Len(B)
  OBVIOUS
<1>2. e \in Seq({<<>>})
  <2>1. Len(e) = Len(A) - k /\ \A i \in 1 .. Len(A) - k : e[i] = A[k + i]
    BY <1>1
  <2>2. \A i \in 1 .. Len(A) - k : k + i \in k + 1 .. Len(A)
    BY <1>1
  <2>3. \A i \in 1 .. Len(A) - k : e[i] = <<>>
    BY <2>1, <2>2
  <2>4. e \in Seq(U) /\ Len(A) - k \in Nat
    <3> HIDE DEF U
    <3> QED BY <1>1
  <2> HIDE DEF e, U
  <2>5. e = [i \in 1 .. Len(A) - k |-> e[i]]
    BY <2>1, <2>4
  <2>6. [i \in 1 .. Len(A) - k |-> e[i]] \in Seq({<<>>})
    <3> DEFINE V == {<<>>}
               q == Len(A) - k
    <3>1. \A i \in 1 .. q : e[i] \in V
      BY <2>3
    <3>2. q \in Nat
      BY <2>4
    <3> HIDE DEF V, q
    <3>3. [i \in 1 .. q |-> e[i]] \in Seq(V)
      BY <3>1, <3>2
    <3> QED BY <3>3 DEF V, q
  <2> QED BY <2>5, <2>6, Zenon
<1>3. g \in Seq(U) /\ h \in Seq(U)
  BY <1>1
<1>4. g \o e = A /\ g \o h = B
  <2>1. \A s \in Seq(U) : k <= Len(s) => SubSeq(s, 1, k) \o SubSeq(s, k + 1, Len(s)) = s
    <3> SUFFICES ASSUME NEW s \in Seq(U), k <= Len(s)
                 PROVE  SubSeq(s, 1, k) \o SubSeq(s, k + 1, Len(s)) = s
      OBVIOUS
    <3> HIDE DEF U
    <3> DEFINE n == Len(s)
    <3>1. n \in Nat /\ 1 \in 1 .. n + 1 /\ k \in 1 - 1 .. n /\ n \in k .. n
      BY <1>1
    <3>2. SubSeq(s, 1, k) \o SubSeq(s, k + 1, n) = SubSeq(s, 1, n)
      BY <3>1, ConcatAdjacentSubSeq
    <3> QED BY <3>2, SubSeqFull
  <2>2. SubSeq(B, 1, k) = g
    <3> DEFINE q == SubSeq(B, 1, k)
    <3>1. /\ q \in Seq(U) /\ g \in Seq(U) /\ Len(q) = k /\ Len(g) = k
          /\ \A i \in 1 .. k : q[i] = B[i] /\ g[i] = A[i]
      <4> HIDE DEF U
      <4> QED BY <1>1
    <3> HIDE DEF q, g, U
    <3>2. \A i \in 1 .. k : q[i] = g[i]
      BY <3>1
    <3>3. q = g
      BY <3>1, <3>2, SeqEqual
    <3> QED BY <3>3 DEF q
  <2> HIDE DEF U
  <2> QED BY <1>1, <2>1, <2>2, Zenon
<1> HIDE DEF g, e, h
<1>5. e \in Seq(U) /\ FlattenSeq(e) = <<>>
  BY <1>2, FlattenEmpties
<1>6. /\ FlattenSeq(g \o e) = FlattenSeq(g) \o FlattenSeq(e)
      /\ FlattenSeq(g \o h) = FlattenSeq(g) \o FlattenSeq(h)
      /\ FlattenSeq(g) \in Seq(T) /\ FlattenSeq(h) \in Seq(T)
  BY <1>3, <1>5, FlattenConcat, FlattenType
<1>7. FlattenSeq(g) \o <<>> = FlattenSeq(g)
  BY <1>6, ConcatEmptySeq
<1> QED BY <1>4, <1>5, <1>6, <1>7, Zenon

\* The elements of s, each through h.
Through(h, s) == [i \in DOMAIN s |-> h[s[i]]]

\* h maps S into T.
Into(h, S, T) == \A x \in S : h[x] \in T

\* They are as many, and each where it was.
EachThrough(h, s, T) ==
    /\ Through(h, s) \in Seq(T) /\ Len(Through(h, s)) = Len(s)
    /\ \A i \in 1 .. Len(s) : Through(h, s)[i] = h[s[i]]

\* What h makes of a sequence has as many elements, each where it was.
LEMMA ThroughType ==
    ASSUME NEW S, NEW T, NEW h, Into(h, S, T), NEW s \in Seq(S)
    PROVE  EachThrough(h, s, T)
<1>1. DOMAIN s = 1 .. Len(s) /\ Len(s) \in Nat /\ \A i \in 1 .. Len(s) : s[i] \in S
  BY LenProperties, ElementOfSeq
<1>2. \A i \in 1 .. Len(s) : h[s[i]] \in T
  BY <1>1 DEF Into
<1>3. Through(h, s) = [i \in 1 .. Len(s) |-> h[s[i]]]
  BY <1>1 DEF Through
<1> QED BY <1>1, <1>2, <1>3 DEF EachThrough

\* What h makes of s and t is what it makes of s, and then of t.
LEMMA ThroughConcat ==
    ASSUME NEW S, NEW T, NEW h, Into(h, S, T), NEW s \in Seq(S), NEW t \in Seq(S)
    PROVE  Through(h, s \o t) = Through(h, s) \o Through(h, t)
<1> DEFINE a == Through(h, s)
           b == Through(h, t)
           c == Through(h, s \o t)
<1>1. /\ s \o t \in Seq(S) /\ Len(s \o t) = Len(s) + Len(t)
      /\ \A i \in 1 .. Len(s) + Len(t) :
            (s \o t)[i] = IF i <= Len(s) THEN s[i] ELSE t[i - Len(s)]
      /\ Len(s) \in Nat /\ Len(t) \in Nat
  BY ConcatProperties, LenProperties
<1>2. EachThrough(h, s, T) /\ EachThrough(h, t, T) /\ EachThrough(h, s \o t, T)
  BY <1>1, ThroughType
<1>3. /\ a \in Seq(T) /\ Len(a) = Len(s) /\ \A i \in 1 .. Len(s) : a[i] = h[s[i]]
      /\ b \in Seq(T) /\ Len(b) = Len(t) /\ \A i \in 1 .. Len(t) : b[i] = h[t[i]]
      /\ c \in Seq(T) /\ Len(c) = Len(s) + Len(t)
      /\ \A i \in 1 .. Len(s) + Len(t) : c[i] = h[(s \o t)[i]]
  BY <1>1, <1>2 DEF EachThrough
<1> HIDE DEF a, b, c
<1>4. /\ a \o b \in Seq(T) /\ Len(a \o b) = Len(a) + Len(b)
      /\ \A i \in 1 .. Len(a) + Len(b) :
            (a \o b)[i] = IF i <= Len(a) THEN a[i] ELSE b[i - Len(a)]
  <2>1. a \in Seq(T) /\ b \in Seq(T)
    BY <1>3
  <2> QED BY <2>1, ConcatProperties, Zenon
<1>5. ASSUME NEW i \in 1 .. Len(s) + Len(t)
      PROVE  c[i] = (a \o b)[i]
  <2>1. CASE i <= Len(s)
    BY <1>1, <1>3, <1>4, <2>1
  <2>2. CASE ~(i <= Len(s))
    <3>1. i - Len(s) \in 1 .. Len(t)
      BY <1>1, <2>2
    <3>2. c[i] = h[t[i - Len(s)]]
      BY <1>1, <1>3, <2>2
    <3>3. b[i - Len(s)] = h[t[i - Len(s)]]
      BY <1>3, <3>1
    <3>4. (a \o b)[i] = b[i - Len(s)]
      BY <1>3, <1>4, <2>2
    <3> QED BY <3>2, <3>3, <3>4, Zenon
  <2> QED BY <2>1, <2>2
<1>6. c = a \o b
  BY <1>3, <1>4, <1>5, SeqEqual
<1> QED BY <1>6 DEF a, b, c

\* Flattened, what h makes of s and t is what it makes of s, and then of t.
Piecewise(h, s, t, T) ==
    /\ FlattenSeq(Through(h, s)) \in Seq(T)
    /\ FlattenSeq(Through(h, s \o t)) = FlattenSeq(Through(h, s)) \o FlattenSeq(Through(h, t))

\* The same, flattened.
LEMMA FlatThrough ==
    ASSUME NEW S, NEW T, NEW h, Into(h, S, Seq(T)), NEW s \in Seq(S), NEW t \in Seq(S)
    PROVE  Piecewise(h, s, t, T)
<1>1. EachThrough(h, s, Seq(T)) /\ EachThrough(h, t, Seq(T))
  BY ThroughType
<1>2. Through(h, s) \in Seq(Seq(T)) /\ Through(h, t) \in Seq(Seq(T))
  BY <1>1 DEF EachThrough
<1>3. Through(h, s \o t) = Through(h, s) \o Through(h, t)
  BY ThroughConcat
<1>4. /\ FlattenSeq(Through(h, s)) \in Seq(T)
      /\ FlattenSeq(Through(h, s) \o Through(h, t))
            = FlattenSeq(Through(h, s)) \o FlattenSeq(Through(h, t))
  BY <1>2, FlattenType, FlattenConcat
<1> QED BY <1>3, <1>4, Zenon DEF Piecewise

\* The same of nothing and of one element.
LEMMA FlatThroughOne ==
    ASSUME NEW S, NEW T, NEW h, Into(h, S, Seq(T)), NEW x \in S
    PROVE  /\ FlattenSeq(Through(h, <<>>)) = <<>>
           /\ FlattenSeq(Through(h, <<x>>)) = h[x]
<1>1. Through(h, <<>>) = <<>>
  BY DEF Through
<1>2. Through(h, <<x>>) = <<h[x]>>
  BY DEF Through
<1>3. h[x] \in Seq(T)
  BY DEF Into
<1> QED BY <1>1, <1>2, <1>3, FlattenNone, FlattenOne

-----------------------------------------------------------------------------
(* The frames of send *)

size == as_usize(message_size)

\* The loop has taken whole steps, never a wrapped one.
Steps == data_sent = Len(frames) * size

SInv == SendTypeOK /\ Steps /\ TextIsCut

-----------------------------------------------------------------------------
(* Arithmetic *)

\* One more step is one more size.
LEMMA OneMore ==
    ASSUME NEW n \in Nat, NEW s \in Nat
    PROVE  /\ n * s \in Nat
           /\ (n + 1) * s = n * s + s
           /\ ((n + 1) - 1) * s = n * s
           /\ (n = 0 => n * s = 0)
           /\ (s = 0 => n * s = 0)
           /\ (n # 0 => n * s >= s)
<1>1. n * s \in Nat /\ (n + 1) * s = n * s + s /\ (n = 0 => n * s = 0)
                    /\ (s = 0 => n * s = 0)
  BY SMT
<1>2. (n + 1) - 1 = n
  BY SMT
<1>3. n # 0 => n * s >= s
  <2>1. SUFFICES ASSUME n # 0 PROVE n * s >= s
    OBVIOUS
  <2>2. (n - 1) * s \in Nat /\ n * s = (n - 1) * s + s
    BY <2>1, SMT
  <2>3. QED BY <2>2, SMT
<1>4. QED BY <1>1, <1>2, <1>3

\* The size that is added is below the width of usize.
LEMMA SizeFits == ASSUME SendTypeOK PROVE size \in Nat /\ size < Usize
<1>1. message_size \in Nat /\ Usize \in Nat \ {0}
  BY SendAssumption DEF SendTypeOK
<1>2. QED BY <1>1, SMT DEF size, as_usize

LEMMA TextFits ==
    ASSUME SendTypeOK
    PROVE  payload \in Seq(Byte) /\ Len(payload) \in Nat /\ 2 * Len(payload) < Usize
  BY SendAssumption DEF SendTypeOK

\* While the text is not sent the next sum stays below the width of usize.
LEMMA NoWrap ==
    ASSUME SendTypeOK, Steps, data_sent < Len(payload)
    PROVE  Unwrapped < Usize /\ advanced = Unwrapped /\ Unwrapped = (Len(frames) + 1) * size
<1>1. size \in Nat /\ size < Usize /\ Usize \in Nat \ {0}
  BY SizeFits, SendAssumption
<1>2. Len(payload) \in Nat /\ 2 * Len(payload) < Usize
  BY TextFits
<1>3. Len(frames) \in Nat
  BY DEF SendTypeOK
<1>4. Unwrapped = Len(frames) * size + size
  BY DEF Unwrapped, Steps, size
<1>5. Unwrapped = (Len(frames) + 1) * size /\ Len(frames) * size \in Nat
  BY <1>1, <1>3, <1>4, OneMore
<1>6. Unwrapped < Usize
  <2>1. CASE Len(frames) = 0
    BY <2>1, <1>1, <1>3, <1>4, OneMore
  <2>2. CASE Len(frames) # 0
    <3>1. Len(frames) * size >= size
      BY <2>2, <1>1, <1>3, OneMore
    <3>2. Len(frames) * size < Len(payload)
      BY DEF Steps
    <3>3. QED BY <3>1, <3>2, <1>1, <1>2, <1>4, <1>5, SMT
  <2>3. QED BY <2>1, <2>2
<1>7. advanced = Unwrapped
  BY <1>1, <1>4, <1>5, <1>6, SMT DEF advanced
<1>8. QED BY <1>5, <1>6, <1>7

-----------------------------------------------------------------------------
(* Type correctness *)

\* A frame of send has a payload of bytes and one of the loop's headers.
LEMMA PushedFrame ==
    ASSUME SendTypeOK, Steps, data_sent < Len(payload), Slices, NEW mask \in Masks
    PROVE  LET cut == SubSeq(payload, data_sent + 1, chunk_end)
           IN  /\ cut \in Seq(Byte)
               /\ DataFrame(Flag, Code, cut, mask) =
                     [header |-> [flag |-> Flag, code |-> Code, mask_key |-> mask,
                                  payload_len |-> Len(cut)], data |-> cut]
               /\ DataFrame(Flag, Code, cut, mask) \in
                     [header : [flag : {FIN, NOFLAG}, code : {TEXT, CONTINUATION},
                                mask_key : Masks, payload_len : Nat], data : Seq(Byte)]
<1> DEFINE cut == SubSeq(payload, data_sent + 1, chunk_end)
<1>1. payload \in Seq(Byte) /\ Len(payload) \in Nat
  BY TextFits
<1>2. size \in Nat /\ Len(frames) \in Nat
  BY SizeFits DEF SendTypeOK
<1>3. advanced \in Nat /\ data_sent \in Nat
  BY <1>2, NoWrap, OneMore DEF SendTypeOK, Steps
<1>4. chunk_end \in Nat /\ chunk_end <= Len(payload)
  BY <1>1, <1>3 DEF chunk_end
<1>5. cut \in Seq(Byte)
  <2>1. \A i \in data_sent + 1 .. chunk_end : i \in 1 .. Len(payload)
    BY <1>1, <1>3, <1>4
  <2>2. QED BY <1>1, <1>3, <1>4, <2>1, SubSeqProperties
<1>6. Len(cut) \in Nat
  BY <1>5
<1>7. Flag \in {FIN, NOFLAG} /\ Code \in {TEXT, CONTINUATION}
  BY DEF Flag, Code
<1>8. DataFrame(Flag, Code, cut, mask) =
        [header |-> [flag |-> Flag, code |-> Code, mask_key |-> mask,
                     payload_len |-> Len(cut)], data |-> cut]
  BY DEF DataFrame, Header
<1> HIDE DEF cut
<1>9. DataFrame(Flag, Code, cut, mask) \in
        [header : [flag : {FIN, NOFLAG}, code : {TEXT, CONTINUATION},
                   mask_key : Masks, payload_len : Nat], data : Seq(Byte)]
  BY <1>5, <1>6, <1>7, <1>8
<1>10. QED BY <1>5, <1>8, <1>9 DEF cut

-----------------------------------------------------------------------------
(* The invariant *)

LEMMA SendInitOK == SendInit => SInv
<1> SUFFICES ASSUME SendInit PROVE SInv
  OBVIOUS
<1>1. SendTypeOK
  BY DEF SendInit, SendTypeOK
<1>2. size \in Nat
  BY <1>1, SizeFits
<1>3. Steps
  BY <1>2, OneMore DEF SendInit, Steps
<1>4. TextIsCut
  BY DEF SendInit, TextIsCut
<1>5. QED BY <1>1, <1>3, <1>4 DEF SInv

\* A frame that is pushed is the text's next one.
LEMMA PushKeeps == SInv /\ push => SInv'
<1> SUFFICES ASSUME SInv, push PROVE SInv'
  OBVIOUS
<1>1. SendTypeOK /\ Steps /\ TextIsCut /\ data_sent < Len(payload) /\ Slices
  BY DEF SInv, push
<1> DEFINE n   == Len(frames)
           cut == SubSeq(payload, data_sent + 1, chunk_end)
<1>2. n \in Nat /\ size \in Nat /\ payload \in Seq(Byte) /\ Len(payload) \in Nat
  BY <1>1, SizeFits, TextFits DEF SendTypeOK
<1>3. PICK mask \in Masks : frames' = Append(frames, DataFrame(Flag, Code, cut, mask))
  BY SendAssumption DEF push
<1> DEFINE new == DataFrame(Flag, Code, cut, mask)
<1>4. /\ cut \in Seq(Byte)
      /\ new = [header |-> [flag |-> Flag, code |-> Code, mask_key |-> mask,
                            payload_len |-> Len(cut)], data |-> cut]
      /\ new \in [header : [flag : {FIN, NOFLAG}, code : {TEXT, CONTINUATION},
                             mask_key : Masks, payload_len : Nat], data : Seq(Byte)]
  BY <1>1, <1>3, PushedFrame
<1>5. /\ advanced = (n + 1) * size /\ advanced \in Nat
      /\ data_sent = n * size /\ data_sent \in Nat
      /\ data_sent = 0 <=> (n = 0 \/ size = 0)
  <2>1. advanced = (n + 1) * size /\ data_sent = n * size
    BY <1>1, NoWrap DEF Steps
  <2>2. (n + 1) * size \in Nat /\ n * size \in Nat
    BY <1>2, OneMore
  <2>3. n * size = 0 <=> (n = 0 \/ size = 0)
    BY <1>2, <2>2, OneMore
  <2>4. QED BY <2>1, <2>2, <2>3
<1>6. /\ pc' = pc /\ payload' = payload /\ message_size' = message_size
      /\ data_sent' = advanced /\ size' = size /\ pc # "sent"
  BY DEF push, size
<1> HIDE DEF new
<1>7. /\ Len(frames') = n + 1 /\ frames'[n + 1] = new
      /\ \A k \in 1 .. n : frames'[k] = frames[k]
      /\ DOMAIN frames = 1 .. n /\ DOMAIN frames' = 1 .. n + 1
      /\ frames' \in Seq([header : [flag : {FIN, NOFLAG}, code : {TEXT, CONTINUATION},
                                    mask_key : Masks, payload_len : Nat], data : Seq(Byte)])
  BY <1>1, <1>3, <1>4 DEF new, SendTypeOK
<1>8. SendTypeOK'
  BY <1>1, <1>5, <1>6, <1>7 DEF SendTypeOK
<1>9. Steps'
  BY <1>5, <1>6, <1>7 DEF Steps
<1>10. TextIsCut'
  <2> DEFINE End(k) == Least(k * size, Len(payload))
             Fits(f, k) ==
               /\ f.data = SubSeq(payload, (k - 1) * size + 1, End(k))
               /\ f.header.payload_len = Len(f.data)
               /\ f.header.code = IF k = 1 \/ size = 0 THEN TEXT ELSE CONTINUATION
               /\ f.header.flag = IF k * size >= Len(payload) THEN FIN ELSE NOFLAG
               /\ (k - 1) * size < Len(payload)
  <2>1. \A k \in 1 .. n : Fits(frames[k], k)
    BY <1>1, <1>7 DEF TextIsCut, size
  <2>2. Fits(new, n + 1)
    <3>1. /\ new.data = cut /\ new.header.payload_len = Len(cut)
          /\ new.header.code = Code /\ new.header.flag = Flag
      BY <1>4
    <3>2. ((n + 1) - 1) * size = data_sent
      BY <1>2, <1>5, OneMore
    <3>3. chunk_end = End(n + 1)
      <4>1. chunk_end = IF advanced >= Len(payload) THEN Len(payload) ELSE advanced
        BY DEF chunk_end
      <4>2. End(n + 1) = IF advanced < Len(payload) THEN advanced ELSE Len(payload)
        BY <1>5 DEF Least
      <4>3. QED BY <1>2, <1>5, <4>1, <4>2
    <3>4. Code = IF n + 1 = 1 \/ size = 0 THEN TEXT ELSE CONTINUATION
      BY <1>2, <1>5 DEF Code
    <3>5. Flag = IF (n + 1) * size >= Len(payload) THEN FIN ELSE NOFLAG
      BY <1>5 DEF Flag
    <3>6. QED BY <1>1, <3>1, <3>2, <3>3, <3>4, <3>5
  <2>3. \A k \in 1 .. n + 1 : Fits(frames'[k], k)
    <3>1. \A k \in 1 .. n + 1 : k \in 1 .. n \/ k = n + 1
      BY <1>2
    <3> HIDE DEF Fits
    <3>2. QED BY <1>7, <2>1, <2>2, <3>1
  <2>4. QED BY <1>6, <1>7, <2>3 DEF TextIsCut, size
<1>11. QED BY <1>8, <1>9, <1>10 DEF SInv

\* After the loop the last frame ends the text; a panic changes nothing else.
LEMMA EndKeeps == SInv /\ (slice_panics \/ send_returns) => SInv'
<1> SUFFICES ASSUME SInv, slice_panics \/ send_returns PROVE SInv'
  OBVIOUS
<1>1. /\ payload' = payload /\ message_size' = message_size
      /\ data_sent' = data_sent /\ frames' = frames
      /\ pc' \in {"sent", "panicked"} /\ (pc' = "sent" => data_sent >= Len(payload))
  BY DEF slice_panics, send_returns
<1>2. SendTypeOK' /\ Steps'
  BY <1>1 DEF SInv, SendTypeOK, Steps, size
<1>3. TextIsCut'
  BY <1>1 DEF SInv, Steps, TextIsCut, size
<1>4. QED BY <1>2, <1>3 DEF SInv

LEMMA SendStepOK == SInv /\ [SendNext]_sendVars => SInv'
<1> SUFFICES ASSUME SInv, [SendNext]_sendVars PROVE SInv'
  OBVIOUS
<1>1. CASE push
  BY <1>1, PushKeeps
<1>2. CASE slice_panics \/ send_returns
  BY <1>2, EndKeeps
<1>3. CASE UNCHANGED sendVars
  BY <1>3 DEF sendVars, SInv, SendTypeOK, Steps, TextIsCut, size
<1>4. QED BY <1>1, <1>2, <1>3 DEF SendNext

LEMMA SendInvariant == SendSpec => []SInv
  BY SendInitOK, SendStepOK, PTL DEF SendSpec

\* The variables of send keep their types: every frame it pushes is one of the
\* four headers of the loop with bytes behind it.
THEOREM SendTypeCorrect == SendSpec => []SendTypeOK
<1>1. SInv => SendTypeOK
  BY DEF SInv
<1>2. QED BY <1>1, SendInvariant, PTL

\* The sums of send (client.rs 197, 201, 205) never pass the width of usize,
\* for any text that fits in memory, any u64 set and any width.
THEOREM SendNeverWraps == SendSpec => []NeverWraps
<1>1. SInv => NeverWraps
  BY NoWrap DEF SInv, NeverWraps
<1>2. QED BY <1>1, SendInvariant, PTL

\* The frames of send are its text in pieces of the size set, in order, with
\* FIN on the piece that ends it and on no other (client.rs 191-207).
THEOREM SendCutsText == SendSpec => []TextIsCut
<1>1. SInv => TextIsCut
  BY DEF SInv
<1>2. QED BY <1>1, SendInvariant, PTL

\* The longest payload_len here, see WSBytes.
Longest == 2147483647

\* The longest in two bytes.
Widest == 65535

-----------------------------------------------------------------------------
(* Exclusive or *)

\* The eight bits of a byte, the lowest first.
Bits == [0 .. 7 -> {0, 1}]

OfBits(f) == f[0] + 2 * f[1] + 4 * f[2] + 8 * f[3]
                  + 16 * f[4] + 32 * f[5] + 64 * f[6] + 128 * f[7]

\* Each of them is 0 or 1.
LEMMA EachBit ==
    ASSUME NEW f \in Bits
    PROVE  /\ f[0] \in {0, 1} /\ f[1] \in {0, 1} /\ f[2] \in {0, 1} /\ f[3] \in {0, 1}
           /\ f[4] \in {0, 1} /\ f[5] \in {0, 1} /\ f[6] \in {0, 1} /\ f[7] \in {0, 1}
<1>1. /\ 0 \in 0 .. 7 /\ 1 \in 0 .. 7 /\ 2 \in 0 .. 7 /\ 3 \in 0 .. 7
      /\ 4 \in 0 .. 7 /\ 5 \in 0 .. 7 /\ 6 \in 0 .. 7 /\ 7 \in 0 .. 7
  BY SMT
<1> QED
  BY <1>1 DEF Bits

\* A number is twice its half and a bit.
LEMMA Halves == \A n \in Nat : \E q \in Nat, s \in {0, 1} : n = 2 * q + s
<1> TAKE n \in Nat
<1>1. n \div 2 \in Nat /\ n % 2 \in {0, 1} /\ n = 2 * (n \div 2) + (n % 2)
  BY SMT
<1> QED
  BY <1>1, Zenon

\* Every byte is made of eight bits.
LEMMA BitsOfByte == \A a \in Byte : \E f \in Bits : a = OfBits(f)
<1> TAKE a \in Byte
<1>0. a \in Nat
  BY SMT DEF Byte
<1>1. PICK q1 \in Nat, b0 \in {0, 1} : a = 2 * q1 + b0
  BY Halves, <1>0
<1>2. PICK q2 \in Nat, b1 \in {0, 1} : q1 = 2 * q2 + b1
  BY Halves
<1>3. PICK q3 \in Nat, b2 \in {0, 1} : q2 = 2 * q3 + b2
  BY Halves
<1>4. PICK q4 \in Nat, b3 \in {0, 1} : q3 = 2 * q4 + b3
  BY Halves
<1>5. PICK q5 \in Nat, b4 \in {0, 1} : q4 = 2 * q5 + b4
  BY Halves
<1>6. PICK q6 \in Nat, b5 \in {0, 1} : q5 = 2 * q6 + b5
  BY Halves
<1>7. PICK q7 \in Nat, b6 \in {0, 1} : q6 = 2 * q7 + b6
  BY Halves
<1>8. PICK q8 \in Nat, b7 \in {0, 1} : q7 = 2 * q8 + b7
  BY Halves
<1>9. q8 = 0 /\ a = b0 + 2 * b1 + 4 * b2 + 8 * b3 + 16 * b4 + 32 * b5 + 64 * b6 + 128 * b7
  BY <1>1, <1>2, <1>3, <1>4, <1>5, <1>6, <1>7, <1>8, SMT DEF Byte
<1> DEFINE f == [k \in 0 .. 7 |->
                  CASE k = 0 -> b0 [] k = 1 -> b1 [] k = 2 -> b2 [] k = 3 -> b3
                    [] k = 4 -> b4 [] k = 5 -> b5 [] k = 6 -> b6 [] OTHER -> b7]
<1>10. f \in Bits
  BY SMT DEF Bits
<1>11. /\ f[0] = b0 /\ f[1] = b1 /\ f[2] = b2 /\ f[3] = b3
       /\ f[4] = b4 /\ f[5] = b5 /\ f[6] = b6 /\ f[7] = b7
  BY SMT
<1> HIDE DEF f
<1>12. a = OfBits(f)
  BY <1>9, <1>11 DEF OfBits
<1> QED
  BY <1>10, <1>12

SumOfBits(f, g) == [k \in 0 .. 7 |-> (f[k] + g[k]) % 2]

\* Their sum without carry has eight bits too.
LEMMA EachSum ==
    ASSUME NEW f \in Bits, NEW g \in Bits
    PROVE  /\ SumOfBits(f, g) \in Bits
           /\ \A k \in 0 .. 7 : SumOfBits(f, g)[k] = (f[k] + g[k]) % 2
<1>1. \A s, t \in {0, 1} : (s + t) % 2 \in {0, 1}
  BY SMT
<1> QED
  BY <1>1 DEF Bits, SumOfBits

\* Exclusive or adds the bits without carry.
LEMMA XorOfBits ==
    ASSUME NEW f \in Bits, NEW g \in Bits
    PROVE  xor(OfBits(f), OfBits(g)) = OfBits(SumOfBits(f, g))
<1> DEFINE a == OfBits(f)
           b == OfBits(g)
           h == SumOfBits(f, g)
           at(w) == ((a \div w + b \div w) % 2) * w
           a0 == f[0]
           b0 == g[0]
           a1 == f[1]
           b1 == g[1]
           a2 == f[2]
           b2 == g[2]
           a3 == f[3]
           b3 == g[3]
           a4 == f[4]
           b4 == g[4]
           a5 == f[5]
           b5 == g[5]
           a6 == f[6]
           b6 == g[6]
           a7 == f[7]
           b7 == g[7]
<1>1. /\ a0 \in {0, 1} /\ a1 \in {0, 1} /\ a2 \in {0, 1} /\ a3 \in {0, 1}
      /\ a4 \in {0, 1} /\ a5 \in {0, 1} /\ a6 \in {0, 1} /\ a7 \in {0, 1}
      /\ b0 \in {0, 1} /\ b1 \in {0, 1} /\ b2 \in {0, 1} /\ b3 \in {0, 1}
      /\ b4 \in {0, 1} /\ b5 \in {0, 1} /\ b6 \in {0, 1} /\ b7 \in {0, 1}
  BY EachBit
<1>2. /\ a = a0 + 2 * a1 + 4 * a2 + 8 * a3 + 16 * a4 + 32 * a5 + 64 * a6 + 128 * a7
      /\ b = b0 + 2 * b1 + 4 * b2 + 8 * b3 + 16 * b4 + 32 * b5 + 64 * b6 + 128 * b7
  BY DEF OfBits
<1>3. /\ h[0] = (a0 + b0) % 2 /\ h[1] = (a1 + b1) % 2 /\ h[2] = (a2 + b2) % 2
      /\ h[3] = (a3 + b3) % 2 /\ h[4] = (a4 + b4) % 2 /\ h[5] = (a5 + b5) % 2
      /\ h[6] = (a6 + b6) % 2 /\ h[7] = (a7 + b7) % 2
  <2>1. /\ 0 \in 0 .. 7 /\ 1 \in 0 .. 7 /\ 2 \in 0 .. 7 /\ 3 \in 0 .. 7
        /\ 4 \in 0 .. 7 /\ 5 \in 0 .. 7 /\ 6 \in 0 .. 7 /\ 7 \in 0 .. 7
    BY SMT
  <2> QED
    BY <2>1, EachSum
<1>4. xor(a, b) = at(1) + at(2) + at(4) + at(8) + at(16) + at(32) + at(64) + at(128)
  BY DEF xor
<1> HIDE DEF a, b, h, a0, a1, a2, a3, a4, a5, a6, a7, b0, b1, b2, b3, b4, b5, b6, b7
<1>5. at(1) = ((a0 + b0) % 2) * 1
  <2> DEFINE p == a1 + 2 * a2 + 4 * a3 + 8 * a4 + 16 * a5 + 32 * a6 + 64 * a7
             q == b1 + 2 * b2 + 4 * b3 + 8 * b4 + 16 * b5 + 32 * b6 + 64 * b7
  <2>1. /\ p \in Nat /\ a \div 1 = 2 * p + a0
        /\ q \in Nat /\ b \div 1 = 2 * q + b0
    BY <1>1, <1>2, SMT
  <2> HIDE DEF p, q
  <2>2. (2 * p + a0 + (2 * q + b0)) % 2 = (a0 + b0) % 2
    BY <1>1, <2>1, SMT
  <2> QED
    BY <2>1, <2>2
<1>6. at(2) = ((a1 + b1) % 2) * 2
  <2> DEFINE p == a2 + 2 * a3 + 4 * a4 + 8 * a5 + 16 * a6 + 32 * a7
             q == b2 + 2 * b3 + 4 * b4 + 8 * b5 + 16 * b6 + 32 * b7
  <2>1. /\ p \in Nat /\ a \div 2 = 2 * p + a1
        /\ q \in Nat /\ b \div 2 = 2 * q + b1
    BY <1>1, <1>2, SMT
  <2> HIDE DEF p, q
  <2>2. (2 * p + a1 + (2 * q + b1)) % 2 = (a1 + b1) % 2
    BY <1>1, <2>1, SMT
  <2> QED
    BY <2>1, <2>2
<1>7. at(4) = ((a2 + b2) % 2) * 4
  <2> DEFINE p == a3 + 2 * a4 + 4 * a5 + 8 * a6 + 16 * a7
             q == b3 + 2 * b4 + 4 * b5 + 8 * b6 + 16 * b7
  <2>1. /\ p \in Nat /\ a \div 4 = 2 * p + a2
        /\ q \in Nat /\ b \div 4 = 2 * q + b2
    BY <1>1, <1>2, SMT
  <2> HIDE DEF p, q
  <2>2. (2 * p + a2 + (2 * q + b2)) % 2 = (a2 + b2) % 2
    BY <1>1, <2>1, SMT
  <2> QED
    BY <2>1, <2>2
<1>8. at(8) = ((a3 + b3) % 2) * 8
  <2> DEFINE p == a4 + 2 * a5 + 4 * a6 + 8 * a7
             q == b4 + 2 * b5 + 4 * b6 + 8 * b7
  <2>1. /\ p \in Nat /\ a \div 8 = 2 * p + a3
        /\ q \in Nat /\ b \div 8 = 2 * q + b3
    BY <1>1, <1>2, SMT
  <2> HIDE DEF p, q
  <2>2. (2 * p + a3 + (2 * q + b3)) % 2 = (a3 + b3) % 2
    BY <1>1, <2>1, SMT
  <2> QED
    BY <2>1, <2>2
<1>9. at(16) = ((a4 + b4) % 2) * 16
  <2> DEFINE p == a5 + 2 * a6 + 4 * a7
             q == b5 + 2 * b6 + 4 * b7
  <2>1. /\ p \in Nat /\ a \div 16 = 2 * p + a4
        /\ q \in Nat /\ b \div 16 = 2 * q + b4
    BY <1>1, <1>2, SMT
  <2> HIDE DEF p, q
  <2>2. (2 * p + a4 + (2 * q + b4)) % 2 = (a4 + b4) % 2
    BY <1>1, <2>1, SMT
  <2> QED
    BY <2>1, <2>2
<1>10. at(32) = ((a5 + b5) % 2) * 32
  <2> DEFINE p == a6 + 2 * a7
             q == b6 + 2 * b7
  <2>1. /\ p \in Nat /\ a \div 32 = 2 * p + a5
        /\ q \in Nat /\ b \div 32 = 2 * q + b5
    BY <1>1, <1>2, SMT
  <2> HIDE DEF p, q
  <2>2. (2 * p + a5 + (2 * q + b5)) % 2 = (a5 + b5) % 2
    BY <1>1, <2>1, SMT
  <2> QED
    BY <2>1, <2>2
<1>11. at(64) = ((a6 + b6) % 2) * 64
  <2> DEFINE p == a7
             q == b7
  <2>1. /\ p \in Nat /\ a \div 64 = 2 * p + a6
        /\ q \in Nat /\ b \div 64 = 2 * q + b6
    BY <1>1, <1>2, SMT
  <2> HIDE DEF p, q
  <2>2. (2 * p + a6 + (2 * q + b6)) % 2 = (a6 + b6) % 2
    BY <1>1, <2>1, SMT
  <2> QED
    BY <2>1, <2>2
<1>12. at(128) = ((a7 + b7) % 2) * 128
  <2> DEFINE p == 0
             q == 0
  <2>1. /\ p \in Nat /\ a \div 128 = 2 * p + a7
        /\ q \in Nat /\ b \div 128 = 2 * q + b7
    BY <1>1, <1>2, SMT
  <2> HIDE DEF p, q
  <2>2. (2 * p + a7 + (2 * q + b7)) % 2 = (a7 + b7) % 2
    BY <1>1, <2>1, SMT
  <2> QED
    BY <2>1, <2>2
<1> HIDE DEF at
<1>13. OfBits(h) = h[0] + 2 * h[1] + 4 * h[2] + 8 * h[3]
                     + 16 * h[4] + 32 * h[5] + 64 * h[6] + 128 * h[7]
  BY DEF OfBits
<1>14. xor(a, b) = OfBits(h)
  BY <1>1, <1>3, <1>4, <1>5, <1>6, <1>7, <1>8, <1>9, <1>10, <1>11, <1>12, <1>13, SMT
<1> QED
  BY <1>14 DEF a, b, h

\* Masked twice, a byte is itself again.
LEMMA XorTwice ==
    ASSUME NEW a \in Byte, NEW b \in Byte
    PROVE  xor(a, b) \in Byte /\ xor(xor(a, b), b) = a
<1>1. PICK f \in Bits : a = OfBits(f)
  BY BitsOfByte
<1>2. PICK g \in Bits : b = OfBits(g)
  BY BitsOfByte
<1> DEFINE h == SumOfBits(f, g)
<1>3. h \in Bits /\ SumOfBits(h, g) \in Bits
  BY EachSum
<1>4. xor(a, b) = OfBits(h) /\ xor(OfBits(h), b) = OfBits(SumOfBits(h, g))
  BY <1>1, <1>2, <1>3, XorOfBits
<1>5. SumOfBits(h, g) = f
  <2>1. \A s, t \in {0, 1} : (((s + t) % 2) + t) % 2 = s
    BY SMT
  <2>2. \A k \in 0 .. 7 : f[k] \in {0, 1} /\ g[k] \in {0, 1}
    BY DEF Bits
  <2>3. \A k \in 0 .. 7 : SumOfBits(h, g)[k] = f[k]
    BY <1>3, <2>1, <2>2, EachSum
  <2> QED
    BY <1>3, <2>3 DEF Bits
<1>6. OfBits(h) \in Byte
  BY <1>3, EachBit, SMT DEF OfBits, Byte
<1> QED
  BY <1>1, <1>4, <1>5, <1>6

-----------------------------------------------------------------------------
(* Lengths as bytes *)

\* The quotient and the remainder of n = k * q + s.
LEMMA Divides ==
    ASSUME NEW n \in Nat, NEW q \in Nat, NEW s \in Nat, NEW k \in Nat, s < k, n = k * q + s
    PROVE  n \div k = q /\ n % k = s
<1>1. n \div k = q
  BY SMT
<1>2. n % k = s
  BY SMT
<1>3. QED BY <1>1, <1>2

\* A number has a last byte.
LEMMA Low ==
    \A n \in Nat : \E q \in Nat, s \in Byte :
        n = 256 * q + s /\ n \div 256 = q /\ n % 256 = s
<1> TAKE n \in Nat
<1>1. n \div 256 \in Nat /\ n % 256 \in Byte /\ n = 256 * (n \div 256) + (n % 256)
  BY SMT DEF Byte
<1>2. QED BY <1>1, Zenon

\* A number below 2^31 has four bytes.
LEMMA FourBytes ==
    ASSUME NEW n \in Nat, n <= Longest
    PROVE  \E r \in Byte, c \in Byte, b \in Byte, a \in Byte :
              /\ n = 16777216 * r + 65536 * c + 256 * b + a
              /\ n % 256 = a /\ (n \div 256) % 256 = b
              /\ (n \div 65536) % 256 = c /\ n \div 16777216 = r
<1>1. PICK p \in Nat, a \in Byte : n = 256 * p + a /\ n \div 256 = p /\ n % 256 = a
  BY Low, SMT
<1>2. PICK q \in Nat, b \in Byte : p = 256 * q + b /\ p \div 256 = q /\ p % 256 = b
  BY Low, SMT
<1>3. PICK r \in Nat, c \in Byte : q = 256 * r + c /\ q \div 256 = r /\ q % 256 = c
  BY Low, SMT
<1>4. a \in Nat /\ b \in Nat /\ c \in Nat /\ a < 256 /\ b < 256 /\ c < 256
  BY SMT DEF Byte
<1>5. /\ n = 16777216 * r + 65536 * c + 256 * b + a
      /\ n = 65536 * q + (256 * b + a)
      /\ n = 16777216 * r + (65536 * c + 256 * b + a)
  BY <1>1, <1>2, <1>3, <1>4, SMT
<1>6. /\ 256 * b + a \in Nat /\ 256 * b + a < 65536
      /\ 65536 * c + 256 * b + a \in Nat /\ 65536 * c + 256 * b + a < 16777216
  BY <1>4, SMT
<1>7. n \div 65536 = q
  BY <1>5, <1>6, Divides, SMT
<1>8. n \div 16777216 = r
  BY <1>5, <1>6, Divides, SMT
<1>9. r < 256
  BY <1>4, <1>5, SMT DEF Longest
<1>10. r \in Byte
  BY <1>9, SMT DEF Byte
<1>11. /\ n = 16777216 * r + 65536 * c + 256 * b + a
       /\ n % 256 = a /\ (n \div 256) % 256 = b
       /\ (n \div 65536) % 256 = c /\ n \div 16777216 = r
  BY <1>1, <1>2, <1>3, <1>5, <1>7, <1>8, SMT
<1>12. WITNESS r \in Byte, c \in Byte, b \in Byte, a \in Byte
<1>13. QED BY <1>11

\* bytes_to_u16 reads what be16 writes.
LEMMA TwoBytes ==
    ASSUME NEW n \in Nat, n <= Widest
    PROVE  \E b \in Byte, a \in Byte :
              be16(n) = <<b, a>> /\ bytes_to_u16(<<b, a>>) = n
<1>1. n <= Longest
  BY SMT DEF Longest, Widest
<1>2. PICK r \in Byte, c \in Byte, b \in Byte, a \in Byte :
         /\ n = 16777216 * r + 65536 * c + 256 * b + a
         /\ n % 256 = a /\ (n \div 256) % 256 = b
         /\ (n \div 65536) % 256 = c /\ n \div 16777216 = r
  BY <1>1, FourBytes, SMT
<1>3. n = 256 * b + a
  BY <1>2, SMT DEF Byte, Widest
<1>4. be16(n) = <<b, a>>
  BY <1>2, SMT DEF be16
<1>5. bytes_to_u16(<<b, a>>) = n
  BY <1>3, SMT DEF bytes_to_u16
<1>6. WITNESS b \in Byte, a \in Byte
<1>7. QED BY <1>4, <1>5

\* bytes_to_u64 reads what be64 writes.
LEMMA EightBytes ==
    ASSUME NEW n \in Nat, n <= Longest
    PROVE  \E r \in Byte, c \in Byte, b \in Byte, a \in Byte :
              /\ be64(n) = <<0, 0, 0, 0, r, c, b, a>>
              /\ bytes_to_u64(<<0, 0, 0, 0, r, c, b, a>>) = n
<1>1. PICK r \in Byte, c \in Byte, b \in Byte, a \in Byte :
         /\ n = 16777216 * r + 65536 * c + 256 * b + a
         /\ n % 256 = a /\ (n \div 256) % 256 = b
         /\ (n \div 65536) % 256 = c /\ n \div 16777216 = r
  BY FourBytes, SMT
<1>2. be64(n) = <<0, 0, 0, 0, r, c, b, a>>
  BY <1>1, SMT DEF be64
<1>3. bytes_to_u64(<<0, 0, 0, 0, r, c, b, a>>) = n
  BY <1>1, SMT DEF bytes_to_u64
<1>4. QED BY <1>2, <1>3, Zenon

-----------------------------------------------------------------------------
(* The bytes of a length *)

\* The bytes m announce a payload of n: one, or 126 and two, or 127 and eight.
Announces(m, n) ==
    \/ n < 126 /\ Len(m) = 1 /\ m[1] = n
    \/ Len(m) = 3 /\ m[1] = 126 /\ bytes_to_u16(<<m[2], m[3]>>) = n
    \/ /\ Len(m) = 9 /\ m[1] = 127
       /\ bytes_to_u64(<<m[2], m[3], m[4], m[5], m[6], m[7], m[8], m[9]>>) = n

\* The one byte of a short length announces it,
LEMMA InOne ==
    ASSUME NEW n \in Nat, n < 126
    PROVE  <<n>> \in Seq(Byte) /\ Announces(<<n>>, n)
<1>1. n \in Byte
  BY SMT DEF Byte
<1> QED
  BY <1>1, SMT DEF Announces

\* so do the three of one of sixteen bits,
LEMMA InThree ==
    ASSUME NEW n \in Nat, n <= Widest
    PROVE  <<126>> \o be16(n) \in Seq(Byte) /\ Announces(<<126>> \o be16(n), n)
<1>1. PICK b \in Byte, a \in Byte : be16(n) = <<b, a>> /\ bytes_to_u16(<<b, a>>) = n
  BY TwoBytes, Zenon
<1> DEFINE m == <<126>> \o <<b, a>>
<1>2. <<126>> \in Seq(Byte) /\ <<b, a>> \in Seq(Byte)
  BY SMT DEF Byte
<1>3. m \in Seq(Byte)
  BY <1>2, ConcatProperties, SMT
<1>4. Len(m) = 3 /\ m[1] = 126 /\ m[2] = b /\ m[3] = a
  BY SMT
<1> HIDE DEF m
<1>5. Announces(m, n)
  BY <1>1, <1>4 DEF Announces
<1> QED
  BY <1>1, <1>3, <1>5 DEF m

\* and the nine of a longer one.
LEMMA InNine ==
    ASSUME NEW n \in Nat, n <= Longest
    PROVE  <<127>> \o be64(n) \in Seq(Byte) /\ Announces(<<127>> \o be64(n), n)
<1>1. PICK r \in Byte, c \in Byte, b \in Byte, a \in Byte :
         /\ be64(n) = <<0, 0, 0, 0, r, c, b, a>>
         /\ bytes_to_u64(<<0, 0, 0, 0, r, c, b, a>>) = n
  BY EightBytes, Zenon
<1> DEFINE m == <<127>> \o <<0, 0, 0, 0, r, c, b, a>>
<1>2. <<127>> \in Seq(Byte) /\ <<0, 0, 0, 0, r, c, b, a>> \in Seq(Byte)
  BY SMT DEF Byte
<1>3. m \in Seq(Byte)
  BY <1>2, ConcatProperties, SMT
<1>4. /\ Len(m) = 9 /\ m[1] = 127
      /\ m[2] = 0 /\ m[3] = 0 /\ m[4] = 0 /\ m[5] = 0
      /\ m[6] = r /\ m[7] = c /\ m[8] = b /\ m[9] = a
  BY SMT
<1> HIDE DEF m
<1>5. Announces(m, n)
  BY <1>1, <1>4 DEF Announces
<1> QED
  BY <1>1, <1>3, <1>5, Zenon DEF m

\* The client's length, and the server's, which has one byte for 125 too.
LEMMA LengthBytes ==
    ASSUME NEW n \in Nat, n <= Longest
    PROVE  length(n) \in Seq(Byte) /\ Announces(length(n), n)
<1>1. CASE n < 125
  <2>1. length(n) = <<n>> /\ n < 126
    BY <1>1, SMT DEF length
  <2> QED
    BY <2>1, InOne
<1>2. CASE n >= 125 /\ n <= 65535
  <2>1. length(n) = <<126>> \o be16(n)
    BY <1>2, SMT DEF length
  <2>2. n <= Widest
    BY <1>2, SMT DEF Widest
  <2> QED
    BY <2>1, <2>2, InThree
<1>3. CASE n > 65535
  <2>1. length(n) = <<127>> \o be64(n)
    BY <1>3, SMT DEF length
  <2> QED
    BY <2>1, InNine
<1> QED
  BY <1>1, <1>2, <1>3, SMT

\* The length as Framed writes it.
ShortLength(n) ==
    IF n <= 125 THEN <<n>> ELSE IF n <= 65535 THEN <<126>> \o be16(n) ELSE <<127>> \o be64(n)

\* It announces the length too.
LEMMA ShortLengthBytes ==
    ASSUME NEW n \in Nat, n <= Longest
    PROVE  ShortLength(n) \in Seq(Byte) /\ Announces(ShortLength(n), n)
<1>1. CASE n <= 125
  <2>1. ShortLength(n) = <<n>> /\ n < 126
    BY <1>1, SMT DEF ShortLength
  <2> QED
    BY <2>1, InOne
<1>2. CASE n > 125 /\ n <= 65535
  <2>1. ShortLength(n) = <<126>> \o be16(n)
    BY <1>2, SMT DEF ShortLength
  <2>2. n <= Widest
    BY <1>2, SMT DEF Widest
  <2> QED
    BY <2>1, <2>2, InThree
<1>3. CASE n > 65535
  <2>1. ShortLength(n) = <<127>> \o be64(n)
    BY <1>3, SMT DEF ShortLength
  <2> QED
    BY <2>1, InNine
<1> QED
  BY <1>1, <1>2, <1>3, SMT

-----------------------------------------------------------------------------
(* The header *)

\* What is read from the first byte.
LEMMA FirstByte ==
    ASSUME NEW flag \in {FIN, NOFLAG}, NEW code \in 0 .. 15
    PROVE  /\ flag + code \in Byte
           /\ (flag + code) - ((flag + code) % 16) = flag
           /\ (flag + code) % 16 = code /\ (flag + code) % 32 = code
  BY SMT DEF FIN, NOFLAG, Byte

\* What is read from the second, whether the mask bit is set or not.
LEMMA SecondByte ==
    ASSUME NEW short \in 0 .. 127, NEW masks \in {0, 1}
    PROVE  /\ short + 128 * masks \in Byte
           /\ (short + 128 * masks) % 128 = short
           /\ (short + 128 * masks) \div 128 = masks
  BY SMT DEF Byte

\* What is needed of the bytes of a length to find them again.
Sized(m) == /\ m \in Seq(Byte) /\ Len(m) \in {1, 3, 9} /\ Len(m) \in Nat /\ Len(m) >= 1
            /\ m[1] \in 0 .. 127

\* The bytes begin with one byte, those of a length and those of a mask.
Begins(bytes, first, m, masks, mask) ==
    /\ Sized(m) /\ masks \in {0, 1} /\ mask \in Seq(Byte)
    /\ bytes \in Seq(Byte) /\ Len(bytes) >= 1 + Len(m) + Len(mask)
    /\ bytes[1] = first /\ bytes[2] = m[1] + 128 * masks
    /\ \A i \in 2 .. Len(m) : bytes[i + 1] = m[i]
    /\ \A i \in 1 .. Len(mask) : bytes[1 + Len(m) + i] = mask[i]

\* Bytes that announce a length have what is needed.
LEMMA AnnouncesLength ==
    ASSUME NEW m \in Seq(Byte), NEW n \in Nat, Announces(m, n)
    PROVE  Sized(m)
<1>1. CASE n < 126 /\ Len(m) = 1 /\ m[1] = n
  BY <1>1, SMT DEF Sized
<1>2. CASE m[1] = 126 /\ Len(m) = 3
  BY <1>2, SMT DEF Sized
<1>3. CASE m[1] = 127 /\ Len(m) = 9
  BY <1>3, SMT DEF Sized
<1> QED
  BY <1>1, <1>2, <1>3, Zenon DEF Announces

\* Where the payload starts and how long it is.
LEMMA ReadsLength ==
    ASSUME NEW bytes, NEW first, NEW m, NEW masks, NEW mask,
           Begins(bytes, first, m, masks, mask), NEW n \in Nat, Announces(m, n)
    PROVE  /\ payload_at(bytes[2] % 128) = 1 + Len(m)
           /\ payload_len(bytes, bytes[2] % 128) = n
           /\ bytes[2] \div 128 = masks
<1> DEFINE short == bytes[2] % 128
<1>1. short = m[1] /\ bytes[2] \div 128 = masks
  <2>1. m[1] \in 0 .. 127 /\ bytes[2] = m[1] + 128 * masks
    BY Zenon DEF Begins, Sized
  <2>3. masks \in {0, 1}
    BY DEF Begins
  <2>2. (m[1] + 128 * masks) % 128 = m[1] /\ (m[1] + 128 * masks) \div 128 = masks
    BY <2>1, <2>3, SecondByte
  <2> QED
    BY <2>1, <2>2
<1>2. /\ bytes \in Seq(Byte) /\ Len(bytes) >= 1 + Len(m) /\ Len(bytes) \in Nat
      /\ m \in Seq(Byte)
  BY SMT DEF Begins, Sized
<1>3. \A i \in 2 .. Len(m) : bytes[i + 1] = m[i]
  BY DEF Begins
<1> HIDE DEF short
<1>4. payload_at(short) = 1 + Len(m) /\ payload_len(bytes, short) = n
  <2>1. CASE n < 126 /\ Len(m) = 1 /\ m[1] = n
    <3>1. short = n /\ short # 126 /\ short # 127
      BY <1>1, <2>1, SMT
    <3> QED
      BY <2>1, <3>1 DEF payload_at, payload_len
  <2>2. CASE Len(m) = 3 /\ m[1] = 126 /\ bytes_to_u16(<<m[2], m[3]>>) = n
    <3>1. SubSeq(bytes, 3, 4)[1] = m[2] /\ SubSeq(bytes, 3, 4)[2] = m[3]
      BY <1>2, <1>3, <2>2
    <3>2. bytes_to_u16(SubSeq(bytes, 3, 4)) = bytes_to_u16(<<m[2], m[3]>>)
      BY <3>1 DEF bytes_to_u16
    <3> QED
      BY <1>1, <2>2, <3>2 DEF payload_at, payload_len
  <2>3. CASE /\ Len(m) = 9 /\ m[1] = 127
             /\ bytes_to_u64(<<m[2], m[3], m[4], m[5], m[6], m[7], m[8], m[9]>>) = n
    <3>1. /\ SubSeq(bytes, 3, 10)[1] = m[2] /\ SubSeq(bytes, 3, 10)[2] = m[3]
          /\ SubSeq(bytes, 3, 10)[3] = m[4] /\ SubSeq(bytes, 3, 10)[4] = m[5]
          /\ SubSeq(bytes, 3, 10)[5] = m[6] /\ SubSeq(bytes, 3, 10)[6] = m[7]
          /\ SubSeq(bytes, 3, 10)[7] = m[8] /\ SubSeq(bytes, 3, 10)[8] = m[9]
      BY <1>2, <1>3, <2>3
    <3>2. bytes_to_u64(SubSeq(bytes, 3, 10)) =
            bytes_to_u64(<<m[2], m[3], m[4], m[5], m[6], m[7], m[8], m[9]>>)
      BY <3>1, SMT DEF bytes_to_u64
    <3> QED
      BY <1>1, <2>3, <3>2 DEF payload_at, payload_len
  <2> QED
    BY <2>1, <2>2, <2>3 DEF Announces
<1> QED
  BY <1>1, <1>4 DEF short

\* A length that a sequence can have here does not overflow.
LEMMA DoesNotOverflow ==
    ASSUME NEW bytes, NEW first, NEW m, NEW masks, NEW mask,
           Begins(bytes, first, m, masks, mask),
           NEW n \in Nat, n <= Longest, Announces(m, n)
    PROVE  ~overflows(bytes, bytes[2] % 128)
<1> SUFFICES ASSUME overflows(bytes, bytes[2] % 128) PROVE FALSE
  OBVIOUS
<1>1. /\ bytes[2] % 128 = 127 /\ bytes[10] >= 246
      /\ \A k \in 3 .. 9 : bytes[k] = 255
  BY DEF overflows
<1>2. m \in Seq(Byte) /\ m[1] \in 0 .. 127 /\ \A i \in 2 .. Len(m) : bytes[i + 1] = m[i]
  BY DEF Begins, Sized
<1>3. m[1] = 127
  <2>1. m[1] \in 0 .. 127 /\ bytes[2] = m[1] + 128 * masks /\ masks \in {0, 1}
    BY Zenon DEF Begins, Sized
  <2>2. (m[1] + 128 * masks) % 128 = m[1]
    BY <2>1, SecondByte
  <2> QED
    BY <1>1, <2>1, <2>2
<1>4. /\ Len(m) = 9
      /\ bytes_to_u64(<<m[2], m[3], m[4], m[5], m[6], m[7], m[8], m[9]>>) = n
  BY <1>3, SMT DEF Announces
<1>5. m[2] = 255 /\ m[3] = 255 /\ m[4] = 255 /\ m[5] = 255
  <2>1. \A i \in 2 .. 8 : i + 1 \in 3 .. 9 /\ i \in 2 .. Len(m)
    BY <1>4
  <2>2. ASSUME NEW i \in 2 .. 8 PROVE m[i] = 255
    <3>1. bytes[i + 1] = m[i]
      BY <1>2, <2>1
    <3>2. bytes[i + 1] = 255
      BY <1>1, <2>1
    <3> QED
      BY <3>1, <3>2
  <2> QED
    BY <2>2
<1>6. m[6] \in Byte /\ m[7] \in Byte /\ m[8] \in Byte /\ m[9] \in Byte
  <2>1. Len(m) = 9 /\ m \in Seq(Byte)
    BY <1>2, <1>4
  <2>2. \A s \in Seq(Byte) : Len(s) = 9 => \A i \in 1 .. 9 : s[i] \in Byte
    BY ElementOfSeq
  <2>3. \A i \in 1 .. 9 : m[i] \in Byte
    BY ONLY <2>1, <2>2, Zenon
  <2> QED
    BY ONLY <2>3
<1>7. \A r, c, b, a \in Byte : bytes_to_u64(<<255, 255, 255, 255, r, c, b, a>>) > Longest
  BY SMT DEF bytes_to_u64, Byte, Longest
<1> QED
  BY <1>4, <1>5, <1>6, <1>7, SMT DEF Longest

\* One sequence after another.
LEMMA OneAfterAnother ==
    ASSUME NEW h \in Seq(Byte), NEW data \in Seq(Byte)
    PROVE  /\ h \o data \in Seq(Byte) /\ Len(h \o data) = Len(h) + Len(data)
           /\ \A i \in 1 .. Len(h) : (h \o data)[i] = h[i]
           /\ \A i \in 1 .. Len(data) : (h \o data)[Len(h) + i] = data[i]
<1>1. Len(h) \in Nat /\ Len(data) \in Nat
  OBVIOUS
<1> QED
  BY <1>1, ConcatProperties

\* What header_bytes makes of the first byte, the length and the mask.
HeaderOf(first, m, masks, mask) == (<<first>> \o [m EXCEPT ![1] = @ + 128 * masks]) \o mask

\* The header that header_bytes writes.
LEMMA HeaderBytes ==
    ASSUME NEW first \in Byte, NEW m, Sized(m), NEW masks \in {0, 1}, NEW mask \in Seq(Byte)
    PROVE  /\ Begins(HeaderOf(first, m, masks, mask), first, m, masks, mask)
           /\ Len(HeaderOf(first, m, masks, mask)) = 1 + Len(m) + Len(mask)
<1> DEFINE marked == [m EXCEPT ![1] = @ + 128 * masks]
           start  == <<first>> \o marked
           h      == start \o mask
<1>1. Len(m) \in Nat /\ Len(m) >= 1 /\ Len(mask) \in Nat /\ m[1] + 128 * masks \in Byte
  BY SecondByte, LenProperties, Zenon DEF Sized
<1>2. /\ marked \in Seq(Byte) /\ Len(marked) = Len(m) /\ marked[1] = m[1] + 128 * masks
      /\ \A i \in 2 .. Len(m) : marked[i] = m[i]
  BY <1>1 DEF Sized
<1> HIDE DEF marked
<1>3. <<first>> \in Seq(Byte) /\ Len(<<first>>) = 1 /\ <<first>>[1] = first
  BY SMT
<1>4. /\ start \in Seq(Byte) /\ Len(start) = 1 + Len(m) /\ start[1] = first
      /\ \A i \in 1 .. Len(m) : start[i + 1] = marked[i]
  BY <1>1, <1>2, <1>3, ConcatProperties, SMT
<1> HIDE DEF start
<1>5. /\ h \in Seq(Byte) /\ Len(h) = 1 + Len(m) + Len(mask)
      /\ \A i \in 1 .. 1 + Len(m) : h[i] = start[i]
      /\ \A i \in 1 .. Len(mask) : h[1 + Len(m) + i] = mask[i]
  <2>1. /\ h \in Seq(Byte) /\ Len(h) = Len(start) + Len(mask)
        /\ \A i \in 1 .. Len(start) : h[i] = start[i]
        /\ \A i \in 1 .. Len(mask) : h[Len(start) + i] = mask[i]
    BY <1>4, OneAfterAnother
  <2> HIDE DEF h
  <2> QED
    BY <1>4, <2>1
<1> HIDE DEF h
<1>6. h[1] = first /\ h[2] = m[1] + 128 * masks
  BY <1>1, <1>2, <1>4, <1>5
<1>7. \A i \in 2 .. Len(m) : h[i + 1] = m[i]
  BY <1>1, <1>2, <1>4, <1>5
<1>8. Begins(h, first, m, masks, mask)
  BY <1>1, <1>5, <1>6, <1>7 DEF Begins
<1> QED
  BY <1>5, <1>8 DEF h, start, marked, HeaderOf

\* Without a mask it is one byte and those of the length.
LEMMA BareHeader ==
    ASSUME NEW first \in Byte, NEW m, Sized(m)
    PROVE  HeaderOf(first, m, 0, <<>>) = <<first>> \o m
<1> DEFINE marked == [m EXCEPT ![1] = @ + 128 * 0]
<1>1. m \in Seq(Byte) /\ Len(m) >= 1 /\ m[1] \in 0 .. 127
  BY DEF Sized
<1>2. m[1] + 128 * 0 = m[1]
  <2>1. \A b \in 0 .. 127 : b + 128 * 0 = b
    BY SMT
  <2> QED
    BY <1>1, <2>1
<1>3. marked = m
  <2>1. marked \in Seq(Byte) /\ Len(marked) = Len(m)
    BY <1>1, <1>2
  <2>2. \A i \in 1 .. Len(m) : marked[i] = m[i]
    BY <1>1, <1>2
  <2> HIDE DEF marked
  <2> QED
    BY <1>1, <2>1, <2>2, SeqEqual
<1>4. <<first>> \in Seq(Byte)
  BY SMT
<1>5. <<first>> \o m \in Seq(Byte)
  BY <1>1, <1>4, ConcatProperties
<1> QED
  BY <1>3, <1>5, ConcatEmptySeq, Zenon DEF marked, HeaderOf

\* The bytes of a header h come first, then those of the payload.
LEMMA Parts ==
    ASSUME NEW h \in Seq(Byte), NEW data \in Seq(Byte), NEW rest \in Seq(Byte)
    PROVE  LET bytes == (h \o data) \o rest
           IN  /\ bytes \in Seq(Byte) /\ Len(bytes) = Len(h) + Len(data) + Len(rest)
               /\ \A i \in 1 .. Len(h) : bytes[i] = h[i]
               /\ SubSeq(bytes, Len(h) + 1, Len(h) + Len(data)) = data
<1> DEFINE bytes == (h \o data) \o rest
           part  == SubSeq(bytes, Len(h) + 1, Len(h) + Len(data))
<1>1. Len(h) \in Nat /\ Len(data) \in Nat /\ Len(rest) \in Nat
  OBVIOUS
<1>2. /\ h \o data \in Seq(Byte) /\ Len(h \o data) = Len(h) + Len(data)
      /\ \A i \in 1 .. Len(h) : (h \o data)[i] = h[i]
      /\ \A i \in 1 .. Len(data) : (h \o data)[Len(h) + i] = data[i]
  BY ConcatProperties
<1>3. /\ bytes \in Seq(Byte) /\ Len(bytes) = Len(h) + Len(data) + Len(rest)
      /\ \A i \in 1 .. Len(h) + Len(data) : bytes[i] = (h \o data)[i]
  BY <1>1, <1>2, ConcatProperties
<1>4. \A i \in 1 .. Len(h) : bytes[i] = h[i]
  BY <1>1, <1>2, <1>3
<1>5. \A i \in 1 .. Len(data) : bytes[Len(h) + i] = data[i]
  BY <1>1, <1>2, <1>3
<1> HIDE DEF bytes
<1>6. /\ part \in Seq(Byte) /\ Len(part) = Len(data)
      /\ \A i \in 1 .. Len(data) : part[i] = bytes[Len(h) + i]
  <2>1. Len(h) + 1 \in Int /\ Len(h) + Len(data) \in Int
    BY <1>1
  <2>2. \A i \in Len(h) + 1 .. Len(h) + Len(data) : bytes[i] \in Byte
    BY <1>1, <1>3
  <2>3. /\ part \in Seq(Byte)
        /\ Len(part) = IF Len(h) + 1 <= Len(h) + Len(data)
                       THEN (Len(h) + Len(data)) - (Len(h) + 1) + 1 ELSE 0
        /\ \A i \in 1 .. (Len(h) + Len(data)) - (Len(h) + 1) + 1 :
              part[i] = bytes[(Len(h) + 1) + i - 1]
    BY <2>1, <2>2, SubSeqProperties
  <2>4. QED BY <1>1, <2>3
<1> HIDE DEF part
<1>7. part = data
  BY <1>5, <1>6, SeqEqual
<1>8. QED BY <1>3, <1>4, <1>7 DEF bytes, part

\* A header, a payload and what follows.
FrameOf(first, m, masks, mask, data, rest) ==
    (HeaderOf(first, m, masks, mask) \o data) \o rest

\* The payload data follows the beginning.
Carries(bytes, first, m, masks, mask, data) ==
    /\ Begins(bytes, first, m, masks, mask)
    /\ Len(bytes) >= 1 + Len(m) + Len(mask) + Len(data)
    /\ SubSeq(bytes, 1 + Len(m) + Len(mask) + 1, 1 + Len(m) + Len(mask) + Len(data)) = data

\* A frame carries its payload behind a beginning that tells where it starts.
LEMMA FrameBytes ==
    ASSUME NEW first \in Byte, NEW m, Sized(m), NEW masks \in {0, 1}, NEW mask \in Seq(Byte),
           NEW data \in Seq(Byte), NEW rest \in Seq(Byte)
    PROVE  Carries(FrameOf(first, m, masks, mask, data, rest), first, m, masks, mask, data)
<1> DEFINE h == HeaderOf(first, m, masks, mask)
<1>0. Begins(h, first, m, masks, mask) /\ Len(h) = 1 + Len(m) + Len(mask)
  BY HeaderBytes
<1> HIDE DEF h
<1> DEFINE bytes == (h \o data) \o rest
<1>1. h \in Seq(Byte)
  BY <1>0 DEF Begins
<1>2. /\ bytes \in Seq(Byte) /\ Len(bytes) = Len(h) + Len(data) + Len(rest)
      /\ \A i \in 1 .. Len(h) : bytes[i] = h[i]
      /\ SubSeq(bytes, Len(h) + 1, Len(h) + Len(data)) = data
  BY <1>1, Parts
<1> HIDE DEF bytes
<1>3. /\ Len(m) \in Nat /\ Len(m) >= 1 /\ Len(mask) \in Nat /\ Len(h) \in Nat
      /\ Len(data) \in Nat /\ Len(rest) \in Nat
  BY <1>1 DEF Sized
<1>4. bytes[1] = h[1] /\ bytes[2] = h[2]
  BY <1>0, <1>2, <1>3
<1>5. \A i \in 2 .. Len(m) : bytes[i + 1] = h[i + 1]
  BY <1>0, <1>2, <1>3
<1>6. \A i \in 1 .. Len(mask) : bytes[1 + Len(m) + i] = h[1 + Len(m) + i]
  BY <1>0, <1>2, <1>3
<1>7. Begins(bytes, first, m, masks, mask)
  BY <1>0, <1>2, <1>3, <1>4, <1>5, <1>6 DEF Begins
<1>8. Carries(bytes, first, m, masks, mask, data)
  BY <1>0, <1>2, <1>3, <1>7 DEF Carries
<1> QED
  BY <1>8 DEF bytes, h, FrameOf

-----------------------------------------------------------------------------
(* What the client reads *)

Flags        == {FIN, NOFLAG}
DataCodes    == {CONTINUATION, TEXT, BINARY}
ControlCodes == {CLOSE, PING, PONG}

\* Every opcode of a frame that is read has four bits and is declared.
LEMMA Codes ==
    \A code \in DataCodes \cup ControlCodes : code \in 0 .. 15 /\ code \in Opcodes
  BY SMT DEF DataCodes, ControlCodes, CONTINUATION, TEXT, BINARY, CLOSE, PING, PONG, Opcodes

\* count elements after the first at.
LEMMA Piece ==
    ASSUME NEW s \in Seq(Byte), NEW at \in Nat, NEW count \in Nat, at + count <= Len(s)
    PROVE  LET part == SubSeq(s, at + 1, at + count)
           IN  /\ part \in Seq(Byte) /\ Len(part) = count
               /\ \A i \in 1 .. count : part[i] = s[at + i]
<1> DEFINE part == SubSeq(s, at + 1, at + count)
<1>1. at + 1 \in Int /\ at + count \in Int /\ Len(s) \in Nat
  OBVIOUS
<1>2. \A i \in at + 1 .. at + count : s[i] \in Byte
  BY <1>1
<1>3. /\ part \in Seq(Byte)
      /\ Len(part) = IF at + 1 <= at + count THEN (at + count) - (at + 1) + 1 ELSE 0
      /\ \A i \in 1 .. (at + count) - (at + 1) + 1 : part[i] = s[(at + 1) + i - 1]
  BY <1>1, <1>2, SubSeqProperties
<1> HIDE DEF part
<1>4. Len(part) = count
  BY <1>3, SMT
<1>5. \A i \in 1 .. count : part[i] = s[at + i]
  <2> TAKE i \in 1 .. count
  <2>1. i \in 1 .. (at + count) - (at + 1) + 1 /\ (at + 1) + i - 1 = at + i
    BY SMT
  <2> QED
    BY <1>3, <2>1
<1> QED
  BY <1>3, <1>4, <1>5 DEF part

\* What follows from a length being in 2 .. 125, in the forms that proofs use.
LEMMA FromTwo == \A n \in 2 .. 125 : n \in Nat /\ n >= 2 /\ n <= 125 /\ n - 2 \in Nat
                                 /\ 2 + (n - 2) = n /\ ~(n < 2)
  BY SMT

\* The status and the rest of a control frame are its payload.
LEMMA StatusAndRest ==
    ASSUME NEW data \in Seq(Byte), Len(data) \in 2 .. 125
    PROVE  LET status == SubSeq(data, 1, 2)
               text   == SubSeq(data, 3, Len(data))
           IN  /\ Len(status) = 2 /\ Len(text) = Len(data) - 2
               /\ status \o text = data
<1> DEFINE status == SubSeq(data, 1, 2)
           text   == SubSeq(data, 3, Len(data))
           n      == Len(data) - 2
<1>1. Len(data) \in Nat /\ Len(data) >= 2 /\ n \in Nat /\ 2 + n = Len(data)
  BY FromTwo
<1>2. status \in Seq(Byte) /\ Len(status) = 2 /\ \A i \in 1 .. 2 : status[i] = data[i]
  BY <1>1
<1>3. /\ text \in Seq(Byte) /\ Len(text) = n
      /\ \A i \in 1 .. n : text[i] = data[2 + i]
  <2>1. /\ SubSeq(data, 2 + 1, 2 + n) \in Seq(Byte) /\ Len(SubSeq(data, 2 + 1, 2 + n)) = n
        /\ \A i \in 1 .. n : SubSeq(data, 2 + 1, 2 + n)[i] = data[2 + i]
    <3>1. 2 \in Nat /\ 2 + n <= Len(data)
      BY <1>1
    <3> HIDE DEF n
    <3> QED
      BY <1>1, <3>1, Piece
  <2>2. SubSeq(data, 2 + 1, 2 + n) = text
    BY <1>1
  <2> QED
    BY <2>1, <2>2
<1> HIDE DEF status, text, n
<1>4. /\ status \o text \in Seq(Byte) /\ Len(status \o text) = Len(data)
      /\ \A i \in 1 .. 2 : (status \o text)[i] = status[i]
      /\ \A i \in 1 .. n : (status \o text)[2 + i] = text[i]
  <2>1. /\ status \o text \in Seq(Byte) /\ Len(status \o text) = Len(status) + Len(text)
        /\ \A i \in 1 .. Len(status) : (status \o text)[i] = status[i]
        /\ \A i \in 1 .. Len(text) : (status \o text)[Len(status) + i] = text[i]
    BY <1>2, <1>3, OneAfterAnother
  <2> QED
    BY <1>1, <1>2, <1>3, <2>1
<1>5. \A i \in 1 .. Len(data) : (status \o text)[i] = data[i]
  <2> TAKE i \in 1 .. Len(data)
  <2>1. CASE i <= 2
    BY <1>1, <1>2, <1>4, <2>1
  <2>2. CASE i > 2
    <3>1. i - 2 \in 1 .. n /\ 2 + (i - 2) = i
      BY <1>1, <1>3, <2>2, SMT
    <3>2. (status \o text)[i] = text[i - 2] /\ text[i - 2] = data[i]
      BY <1>3, <1>4, <3>1
    <3> QED
      BY <3>2
  <2>3. i <= 2 \/ i > 2
    BY SMT
  <2> QED
    BY <2>1, <2>2, <2>3, Zenon
<1>6. status \o text = data
  BY <1>4, <1>5, SeqEqual
<1> QED
  BY <1>2, <1>3, <1>6 DEF status, text, n

\* The same, taken from the bytes of the frame.
LEMMA CutsStatus ==
    ASSUME NEW bytes \in Seq(Byte), NEW data \in Seq(Byte), Len(data) \in 2 .. 125,
           Len(bytes) >= 2 + Len(data), SubSeq(bytes, 3, 2 + Len(data)) = data
    PROVE  /\ SubSeq(bytes, 3, 4) = SubSeq(data, 1, 2)
           /\ SubSeq(bytes, 5, Len(data) + 2) = SubSeq(data, 3, Len(data))
<1> DEFINE n == Len(data) - 2
<1>1. Len(data) \in Nat /\ Len(data) >= 2 /\ n \in Nat /\ 2 + n = Len(data) /\ Len(bytes) \in Nat
  BY FromTwo
<1>2. \A i \in 1 .. Len(data) : data[i] = bytes[2 + i]
  BY <1>1
<1>3. /\ SubSeq(bytes, 3, 4) \in Seq(Byte) /\ Len(SubSeq(bytes, 3, 4)) = 2
      /\ \A i \in 1 .. 2 : SubSeq(bytes, 3, 4)[i] = bytes[2 + i]
  BY <1>1
<1>4. /\ SubSeq(data, 1, 2) \in Seq(Byte) /\ Len(SubSeq(data, 1, 2)) = 2
      /\ \A i \in 1 .. 2 : SubSeq(data, 1, 2)[i] = data[i]
  BY <1>1
<1>5. SubSeq(bytes, 3, 4) = SubSeq(data, 1, 2)
  BY <1>1, <1>2, <1>3, <1>4, SeqEqual
<1>6. /\ SubSeq(bytes, 4 + 1, 4 + n) \in Seq(Byte) /\ Len(SubSeq(bytes, 4 + 1, 4 + n)) = n
      /\ \A i \in 1 .. n : SubSeq(bytes, 4 + 1, 4 + n)[i] = bytes[4 + i]
  <2>1. 4 \in Nat /\ 4 + n <= Len(bytes)
    BY <1>1
  <2> HIDE DEF n
  <2> QED
    BY <1>1, <2>1, Piece
<1>7. /\ SubSeq(data, 2 + 1, 2 + n) \in Seq(Byte) /\ Len(SubSeq(data, 2 + 1, 2 + n)) = n
      /\ \A i \in 1 .. n : SubSeq(data, 2 + 1, 2 + n)[i] = data[2 + i]
  <2>1. 2 \in Nat /\ 2 + n <= Len(data)
    BY <1>1
  <2> HIDE DEF n
  <2> QED
    BY <1>1, <2>1, Piece
<1>10. 4 + 1 = 5 /\ 2 + 1 = 3 /\ 4 + n = Len(data) + 2
  BY <1>1
<1> HIDE DEF n
<1>8. \A i \in 1 .. n : data[2 + i] = bytes[4 + i]
  <2> TAKE i \in 1 .. n
  <2>1. 2 + i \in 1 .. Len(data) /\ 2 + (2 + i) = 4 + i
    BY <1>1, SMT
  <2> QED
    BY <1>2, <2>1
<1>9. SubSeq(bytes, 5, Len(data) + 2) = SubSeq(data, 3, Len(data))
  <2>1. SubSeq(bytes, 4 + 1, 4 + n) = SubSeq(data, 2 + 1, 2 + n)
    BY <1>6, <1>7, <1>8, SeqEqual
  <2> QED
    BY <1>1, <1>10, <2>1
<1> QED
  BY <1>5, <1>9

\* A frame as the client keeps it, with the length its header announces.
Whole(flag, code, mask, data) ==
    [header |-> Header(flag, code, mask, Len(data)), data |-> data]

\* The client reads the frame that is there, whatever follows it.  A control frame
\* has room for a status and its length in one byte.
LEMMA ReadsFrame ==
    ASSUME NEW flag \in Flags, NEW code \in DataCodes \cup ControlCodes,
           NEW m \in Seq(Byte), NEW data \in Seq(Byte), NEW rest \in Seq(Byte),
           Announces(m, Len(data)), Len(data) <= Longest,
           code \in ControlCodes => Len(m) = 1 /\ Len(data) \in 2 .. 125
    PROVE  bytes_to_frame(((<<flag + code>> \o m) \o data) \o rest)
             = Frame(Whole(flag, code, <<>>, data), 1 + Len(m) + Len(data))
<1> DEFINE first == flag + code
           none  == <<>>
           zero  == 0
           bytes == FrameOf(first, m, zero, none, data, rest)
           i     == 1 + Len(m)
           short == bytes[2] % 128
<1>1. code \in 0 .. 15 /\ code \in Opcodes
  BY Codes
<1>2. first \in Byte /\ first - (first % 16) = flag /\ first % 32 = code
  BY <1>1, FirstByte DEF Flags
<1>3. /\ Len(data) \in Nat /\ Len(rest) \in Nat /\ Len(m) \in Nat /\ Len(m) >= 1
      /\ none \in Seq(Byte) /\ Len(none) = 0 /\ zero \in {0, 1} /\ Sized(m)
  <2>1. Len(data) \in Nat /\ Len(rest) \in Nat /\ none \in Seq(Byte) /\ Len(none) = 0
    OBVIOUS
  <2> QED
    BY <2>1, AnnouncesLength, Zenon DEF Sized
<1>4. bytes = ((<<flag + code>> \o m) \o data) \o rest
  BY <1>2, <1>3, BareHeader DEF FrameOf
<1> HIDE DEF first, zero, none
<1>5. Carries(bytes, first, m, zero, none, data)
  BY <1>2, <1>3, FrameBytes
<1> HIDE DEF bytes
<1>6. Len(bytes) >= i + Len(data) /\ SubSeq(bytes, i + 1, i + Len(data)) = data
  <2>1. 1 + Len(m) + Len(none) = i
    BY <1>3
  <2> HIDE DEF i
  <2> QED
    BY <1>5, <2>1 DEF Carries
<1>7. payload_at(short) = i /\ payload_len(bytes, short) = Len(data)
  <2> DEFINE n == Len(data)
  <2>1. n \in Nat /\ Announces(m, n)
    BY <1>3
  <2> HIDE DEF n
  <2>2. payload_at(short) = i /\ payload_len(bytes, short) = n
    BY <1>5, <2>1, ReadsLength DEF Carries
  <2> QED
    BY <2>2 DEF n
<1>8. bytes \in Seq(Byte) /\ bytes[1] = first
  BY <1>5 DEF Carries, Begins
<1>13. ~overflows(bytes, short)
  <2> DEFINE n == Len(data)
  <2>1. n \in Nat /\ n <= Longest /\ Announces(m, n)
    BY <1>3
  <2> HIDE DEF n
  <2> QED
    BY <1>5, <2>1, DoesNotOverflow DEF Carries
<1> HIDE DEF short
<1>9. ~(Len(bytes) < 2) /\ ~(Len(bytes) < i) /\ ~(Len(data) + i > Len(bytes))
  BY <1>3, <1>6, <1>8, SMT
<1>10. bytes[1] - (bytes[1] % 16) = flag /\ bytes[1] % 32 = code
  BY <1>2, <1>8
<1>11. CASE code \in DataCodes
  <2>1. IsDataCode(code)
    BY <1>11 DEF IsDataCode, DataCodes
  <2>2. DataFrame(flag, code, data, <<>>) = Whole(flag, code, <<>>, data)
    BY DEF DataFrame, Whole
  <2> HIDE DEF i
  <2>3. bytes_to_frame(bytes) = Frame(DataFrame(flag, code, data, <<>>), i + Len(data))
    BY <1>1, <1>6, <1>7, <1>9, <1>10, <1>13, <2>1, Zenon DEF bytes_to_frame, short
  <2> QED
    BY <1>4, <2>2, <2>3 DEF i
<1>12. CASE code \in ControlCodes
  <2>1. ~IsDataCode(code)
    BY <1>12, SMT DEF IsDataCode, ControlCodes, CONTINUATION, TEXT, BINARY, CLOSE, PING, PONG
  <2>2. i = 2 /\ Len(data) \in 2 .. 125
    <3>1. Len(m) = 1 /\ Len(data) \in 2 .. 125
      BY <1>12
    <3> QED
      BY <3>1
  <2> HIDE DEF i
  <2> DEFINE status == SubSeq(bytes, 3, 4)
             text   == SubSeq(bytes, 5, Len(data) + 2)
  <2>3. status = SubSeq(data, 1, 2) /\ text = SubSeq(data, 3, Len(data))
    <3>1. Len(bytes) >= 2 + Len(data) /\ SubSeq(bytes, 3, 2 + Len(data)) = data
      BY <1>3, <1>6, <2>2
    <3> QED
      BY <1>8, <2>2, <3>1, CutsStatus
  <2>4. Len(status) = 2 /\ Len(text) = Len(data) - 2 /\ status \o text = data
    BY <2>2, <2>3, StatusAndRest
  <2> HIDE DEF status, text
  <2>5. Len(status) + Len(text) = Len(data) /\ Len(data) <= 125
    BY <1>3, <2>2, <2>4, FromTwo
  <2>6. ControlFrame(flag, code, status, text, <<>>) = Whole(flag, code, <<>>, data)
    BY <2>4, <2>5 DEF ControlFrame, Whole
  <2>7. bytes_to_frame(bytes) = Frame(ControlFrame(flag, code, status, text, <<>>), i + Len(data))
    <3>1. ~(Len(data) < i) /\ i + 1 = 3 /\ i + 2 = 4 /\ i + 3 = 5
      <4>1. ~(Len(data) < 2)
        BY <2>2, FromTwo, Zenon
      <4> QED
        BY <2>2, <4>1
    <3>2. /\ SubSeq(bytes, i + 1, i + 2) = status
          /\ SubSeq(bytes, i + 3, Len(data) + 2) = text
      BY <3>1 DEF status, text
    <3> QED
      BY <1>1, <1>7, <1>9, <1>10, <1>13, <2>1, <3>1, <3>2, Zenon DEF bytes_to_frame, short
  <2> QED
    BY <1>4, <2>6, <2>7 DEF i
<1> QED
  BY <1>11, <1>12

\* How long an unmasked frame is.
LEMMA FramedLength ==
    ASSUME NEW first \in Byte, NEW m \in Seq(Byte), NEW data \in Seq(Byte)
    PROVE  /\ (<<first>> \o m) \o data \in Seq(Byte)
           /\ Len((<<first>> \o m) \o data) = 1 + Len(m) + Len(data)
<1>1. <<first>> \in Seq(Byte) /\ Len(<<first>>) = 1
  BY SMT
<1>2. <<first>> \o m \in Seq(Byte) /\ Len(<<first>> \o m) = 1 + Len(m)
  BY <1>1, OneAfterAnother
<1> QED
  BY <1>2, OneAfterAnother

\* A data frame that serialize writes unmasked is the frame that bytes_to_frame
\* reads, with the offset of what follows, for every payload of less than 2^31
\* bytes: the three forms of the length, header.rs 67-101 and frame.rs 175-204.
THEOREM FrameRoundTrip ==
    ASSUME NEW flag \in Flags, NEW code \in DataCodes,
           NEW data \in Seq(Byte), Len(data) <= Longest, NEW rest \in Seq(Byte)
    PROVE  LET frame == DataFrame(flag, code, data, <<>>)
           IN  bytes_to_frame(serialize(frame) \o rest) = Frame(frame, Len(serialize(frame)))
<1> DEFINE m     == length(Len(data))
           first == flag + code
           frame == DataFrame(flag, code, data, <<>>)
<1>1. m \in Seq(Byte) /\ Announces(m, Len(data)) /\ Sized(m)
  <2> DEFINE n == Len(data)
  <2>1. n \in Nat /\ n <= Longest
    OBVIOUS
  <2> HIDE DEF n
  <2>2. length(n) \in Seq(Byte) /\ Announces(length(n), n)
    BY <2>1, LengthBytes
  <2>3. Sized(length(n))
    BY <2>1, <2>2, AnnouncesLength
  <2> QED
    BY <2>2, <2>3 DEF n
<1>2. first \in Byte /\ code \notin ControlCodes /\ code \in DataCodes \cup ControlCodes
  <2>1. code \in 0 .. 15 /\ code \notin ControlCodes
    BY Codes, SMT DEF DataCodes, ControlCodes, CONTINUATION, TEXT, BINARY, CLOSE, PING, PONG
  <2> QED
    BY <2>1, FirstByte DEF Flags
<1>3. serialize(frame) = (<<first>> \o m) \o data
  <2>1. serialize(frame) = ((<<first>> \o [m EXCEPT ![1] = @ + 0]) \o <<>>) \o data
    BY DEF serialize, header_bytes, DataFrame, Header
  <2>2. 128 * 0 = 0
    BY SMT
  <2>3. (<<first>> \o [m EXCEPT ![1] = @ + 0]) \o <<>> = HeaderOf(first, m, 0, <<>>)
    BY <2>2, Zenon DEF HeaderOf
  <2> HIDE DEF first, m
  <2>4. HeaderOf(first, m, 0, <<>>) = <<first>> \o m
    BY <1>1, <1>2, BareHeader
  <2> QED
    BY <2>1, <2>3, <2>4
<1> HIDE DEF m
<1>4. bytes_to_frame(((<<flag + code>> \o m) \o data) \o rest)
        = Frame(Whole(flag, code, <<>>, data), 1 + Len(m) + Len(data))
  BY <1>1, <1>2, ReadsFrame
<1>5. Whole(flag, code, <<>>, data) = frame
  BY DEF Whole, DataFrame
<1>6. Len((<<first>> \o m) \o data) = 1 + Len(m) + Len(data)
  BY <1>1, <1>2, FramedLength
<1> QED
  BY <1>3, <1>4, <1>5, <1>6

\* A frame that the server writes, in the shortest of the three forms.
Written(flag, code, data) == Framed([flag |-> flag, code |-> code, data |-> data])

\* How it is written: one byte, those of its length, its payload.
LEMMA WrittenBytes ==
    ASSUME NEW flag \in Flags, NEW code \in DataCodes \cup ControlCodes,
           NEW data \in Seq(Byte), Len(data) <= Longest
    PROVE  LET m == ShortLength(Len(data))
           IN  /\ Written(flag, code, data) = (<<flag + code>> \o m) \o data
               /\ m \in Seq(Byte) /\ Announces(m, Len(data)) /\ Sized(m)
               /\ Len(data) <= 125 => Len(m) = 1
               /\ Len(Written(flag, code, data)) = 1 + Len(m) + Len(data)
               /\ flag + code \in Byte
<1> DEFINE n == Len(data)
           m == ShortLength(n)
<1>1. n \in Nat /\ n <= Longest
  OBVIOUS
<1>2. Written(flag, code, data) = (<<flag + code>> \o m) \o data
  BY DEF Written, Framed, ShortLength
<1>3. n <= 125 => Len(m) = 1
  BY DEF ShortLength
<1> HIDE DEF n
<1>4. m \in Seq(Byte) /\ Announces(m, n) /\ Sized(m)
  BY <1>1, ShortLengthBytes, AnnouncesLength
<1>5. flag + code \in Byte
  BY Codes, FirstByte DEF Flags
<1> HIDE DEF m
<1>6. Len((<<flag + code>> \o m) \o data) = 1 + Len(m) + Len(data)
  BY <1>4, <1>5, FramedLength
<1> QED
  BY <1>2, <1>3, <1>4, <1>5, <1>6 DEF n, m

\* The client reads what a server writes: for every frame whose length is below 2^31,
\* bytes_to_frame (frame.rs 175-204) finds its flag, its code and its payload, and
\* where the next one begins, a control frame if it has a status and at most 125 bytes.
THEOREM ClientReadsServer ==
    ASSUME NEW flag \in Flags, NEW code \in DataCodes \cup ControlCodes,
           NEW data \in Seq(Byte), Len(data) <= Longest,
           code \in ControlCodes => Len(data) \in 2 .. 125, NEW rest \in Seq(Byte)
    PROVE  LET bytes == Framed([flag |-> flag, code |-> code, data |-> data])
           IN  bytes_to_frame(bytes \o rest)
                 = Frame([header |-> Header(flag, code, <<>>, Len(data)), data |-> data],
                         Len(bytes))
<1> DEFINE m     == ShortLength(Len(data))
           bytes == Written(flag, code, data)
<1>1. /\ bytes = (<<flag + code>> \o m) \o data
      /\ m \in Seq(Byte) /\ Announces(m, Len(data))
      /\ Len(data) <= 125 => Len(m) = 1
      /\ Len(bytes) = 1 + Len(m) + Len(data)
  BY WrittenBytes
<1>2. code \in ControlCodes => Len(m) = 1 /\ Len(data) \in 2 .. 125
  BY <1>1, FromTwo
<1> HIDE DEF m, bytes
<1>3. bytes_to_frame(((<<flag + code>> \o m) \o data) \o rest)
        = Frame(Whole(flag, code, <<>>, data), 1 + Len(m) + Len(data))
  BY <1>1, <1>2, ReadsFrame
<1>4. bytes_to_frame(bytes \o rest) = Frame(Whole(flag, code, <<>>, data), Len(bytes))
  BY <1>1, <1>3
<1> QED
  BY <1>4 DEF bytes, Written, Whole

\* What has arrived of a frame, k bytes of it, is never taken for a frame.  The client
\* waits for the rest, but not if the length itself is cut: partial_header shows it.
\* frame.rs 175-204.
THEOREM NeverTooEarly ==
    ASSUME NEW flag \in Flags, NEW code \in DataCodes \cup ControlCodes,
           NEW data \in Seq(Byte), Len(data) <= Longest,
           NEW k \in Nat, k < Len(Framed([flag |-> flag, code |-> code, data |-> data]))
    PROVE  LET n     == Len(data)
               bytes == SubSeq(Framed([flag |-> flag, code |-> code, data |-> data]), 1, k)
               start == IF n <= 125 THEN 2 ELSE IF n <= 65535 THEN 4 ELSE 10
           IN  bytes_to_frame(bytes) = IF 2 <= k /\ k < start THEN OutOfBounds ELSE Incomplete
<1> DEFINE n     == Len(data)
           zero  == 0
           none  == <<>>
           m     == ShortLength(n)
           first == flag + code
           all   == Written(flag, code, data)
           bytes == SubSeq(all, 1, k)
           start == IF n <= 125 THEN 2 ELSE IF n <= 65535 THEN 4 ELSE 10
           short == bytes[2] % 128
<1>1. /\ all = (<<first>> \o m) \o data
      /\ m \in Seq(Byte) /\ Announces(m, n) /\ Sized(m)
      /\ Len(all) = 1 + Len(m) + n /\ first \in Byte
  BY WrittenBytes
<1>2. n \in Nat /\ Len(m) \in Nat /\ Len(m) >= 1 /\ k < 1 + Len(m) + n
  BY <1>1 DEF Sized, Written
<1>3. start = 1 + Len(m)
  <2> HIDE DEF n
  <2>1. CASE n <= 125
    BY <2>1 DEF ShortLength
  <2>2. CASE n > 125 /\ n <= 65535
    <3>1. m = <<126>> \o be16(n) /\ start = 4
      BY <1>2, <2>2 DEF ShortLength
    <3> HIDE DEF m, start
    <3> QED
      BY <3>1 DEF be16
  <2>3. CASE n > 65535
    <3>1. m = <<127>> \o be64(n) /\ start = 10
      BY <1>2, <2>3 DEF ShortLength
    <3> HIDE DEF m, start
    <3> QED
      BY <3>1 DEF be64
  <2>4. n <= 125 \/ (n > 125 /\ n <= 65535) \/ n > 65535
    BY <1>2
  <2> HIDE DEF m, start
  <2> QED
    BY <2>1, <2>2, <2>3, <2>4, SMT
<1> HIDE DEF n, m, first, start
<1>4. /\ bytes \in Seq(Byte) /\ Len(bytes) = k
      /\ \A i \in 1 .. k : bytes[i] = all[i]
  <2>1. all \in Seq(Byte)
    BY <1>1, FramedLength
  <2> HIDE DEF all
  <2>2. 0 \in Nat /\ 0 + k <= Len(all)
    BY <1>1, <1>2
  <2>3. LET part == SubSeq(all, 0 + 1, 0 + k)
        IN  part \in Seq(Byte) /\ Len(part) = k /\ \A i \in 1 .. k : part[i] = all[0 + i]
    BY <2>1, <2>2, Piece
  <2> QED
    BY <2>3
<1> HIDE DEF bytes
<1>5. Begins(all, first, m, zero, none)
  <2>1. none \in Seq(Byte) /\ zero \in {0, 1}
    OBVIOUS
  <2>2. FrameOf(first, m, zero, none, data, none) = all \o none
    BY <1>1, BareHeader DEF FrameOf
  <2>3. all \o none = all
    <3>1. all \in Seq(Byte)
      BY <1>1, FramedLength
    <3> HIDE DEF all
    <3> QED
      BY <3>1, ConcatEmptySeq
  <2> HIDE DEF zero, none, all
  <2>4. Carries(FrameOf(first, m, zero, none, data, none), first, m, zero, none, data)
    BY <1>1, <2>1, FrameBytes
  <2> QED
    BY <2>2, <2>3, <2>4 DEF Carries
<1>6. Len(none) = 0 /\ none \in Seq(Byte)
  OBVIOUS
<1> HIDE DEF zero, none, all
<1>7. /\ payload_at(all[2] % 128) = start
      /\ all[1] = first /\ first % 32 = code /\ code \in Opcodes
  <2>1. payload_at(all[2] % 128) = 1 + Len(m)
    BY <1>1, <1>2, <1>5, ReadsLength
  <2>2. first % 32 = code /\ code \in Opcodes
    BY Codes, FirstByte DEF Flags, first
  <2> QED
    BY <1>3, <1>5, <2>1, <2>2 DEF Begins
<1> DEFINE reads == bytes_to_frame(bytes) = IF 2 <= k /\ k < start THEN OutOfBounds ELSE Incomplete
<1>0. SUFFICES reads
  BY DEF bytes, all, n, start, Written
<1>8. CASE k < 2
  <2>1. bytes_to_frame(bytes) = Incomplete
    BY <1>4, <1>8, Zenon DEF bytes_to_frame
  <2> QED
    BY <1>8, <2>1
<1>9. CASE k >= 2 /\ k < start
  <2>1. bytes[1] = all[1] /\ bytes[2] = all[2]
    BY <1>4, <1>9
  <2>2. ~(Len(bytes) < 2) /\ Len(bytes) < start
    BY <1>4, <1>9
  <2>3. bytes_to_frame(bytes) = OutOfBounds
    BY <1>7, <2>1, <2>2, Zenon DEF bytes_to_frame, short
  <2> QED
    BY <1>9, <2>3
<1>10. CASE k >= start
  <2>1. Begins(bytes, first, m, zero, none)
    <3>1. k >= 1 + Len(m) /\ k >= 1 + Len(m) + Len(none) /\ k >= 2
      BY <1>2, <1>3, <1>6, <1>10
    <3>2. bytes[1] = all[1] /\ bytes[2] = all[2]
      BY <1>4, <3>1
    <3>3. \A i \in 2 .. Len(m) : bytes[i + 1] = all[i + 1]
      BY <1>2, <1>4, <3>1
    <3>4. \A i \in 1 .. Len(none) : bytes[1 + Len(m) + i] = none[i]
      BY <1>6
    <3> QED
      BY <1>4, <1>5, <3>1, <3>2, <3>3, <3>4 DEF Begins
  <2>2. payload_at(short) = start /\ payload_len(bytes, short) = n
    BY <1>1, <1>2, <1>3, <2>1, ReadsLength
  <2>3. bytes[1] = first
    BY <2>1 DEF Begins
  <2>4. /\ ~(Len(bytes) < 2) /\ ~(Len(bytes) < start) /\ n + start > Len(bytes)
    BY <1>2, <1>3, <1>4, <1>10
  <2>7. ~overflows(bytes, short)
    BY <1>1, <1>2, <2>1, DoesNotOverflow DEF n
  <2>5. bytes_to_frame(bytes) = Incomplete
    BY <1>7, <2>2, <2>3, <2>4, <2>7, Zenon DEF bytes_to_frame, short
  <2>6. ~(2 <= k /\ k < start)
    BY <1>2, <1>3, <1>10
  <2> QED
    BY <2>5, <2>6
<1>11. k < 2 \/ (k >= 2 /\ k < start) \/ k >= start
  BY <1>2, <1>3
<1> HIDE DEF reads
<1> QED
  BY <1>8, <1>9, <1>10, <1>11

-----------------------------------------------------------------------------
(* What the server reads *)

\* A mask is four bytes, one for each place of the payload.
LEMMA MaskBytes ==
    ASSUME NEW mask \in Masks
    PROVE  /\ mask \in Seq(Byte) /\ Len(mask) = 4 /\ mask # <<>>
           /\ \A k \in Nat \ {0} : 1 + ((k - 1) % 4) \in 1 .. 4
                                    /\ mask[1 + ((k - 1) % 4)] \in Byte
<1>1. mask \in Seq(Byte) /\ Len(mask) = 4 /\ \A j \in 1 .. 4 : mask[j] \in Byte
  <2>1. mask \in [1 .. 4 -> Byte]
    BY Zenon DEF Masks
  <2>2. mask \in Seq(Byte) /\ DOMAIN mask = 1 .. 4 /\ \A j \in 1 .. 4 : mask[j] \in Byte
    BY <2>1
  <2> QED
    BY <2>2
<1>2. mask # <<>>
  <2> SUFFICES ASSUME mask = <<>> PROVE FALSE
    OBVIOUS
  <2>1. Len(mask) = 0
    OBVIOUS
  <2> QED
    BY <1>1, <2>1, SMT
<1>3. \A k \in Nat \ {0} : 1 + ((k - 1) % 4) \in 1 .. 4
  BY SMT
<1> QED
  BY <1>1, <1>2, <1>3

\* The payload is masked with four bytes, over and over.
LEMMA MaskedBytes ==
    ASSUME NEW data \in Seq(Byte), NEW mask \in Masks
    PROVE  /\ masked(data, mask) \in Seq(Byte) /\ Len(masked(data, mask)) = Len(data)
           /\ \A k \in 1 .. Len(data) :
                 xor(masked(data, mask)[k], mask[1 + ((k - 1) % 4)]) = data[k]
<1> DEFINE at(k) == 1 + ((k - 1) % 4)
           n     == Len(data)
           md    == masked(data, mask)
<1>1. n \in Nat /\ DOMAIN data = 1 .. n
  OBVIOUS
<1>2. \A k \in 1 .. n : data[k] \in Byte /\ mask[at(k)] \in Byte
  <2> TAKE k \in 1 .. n
  <2>1. k \in Nat \ {0}
    BY <1>1
  <2> QED
    BY <2>1, MaskBytes
<1> HIDE DEF at, n
<1>3. md = [k \in 1 .. n |-> xor(data[k], mask[at(k)])]
  BY <1>1 DEF masked, at
<1> HIDE DEF md
<1>4. \A k \in 1 .. n : /\ md[k] = xor(data[k], mask[at(k)])
                        /\ md[k] \in Byte /\ xor(md[k], mask[at(k)]) = data[k]
  BY <1>2, <1>3, XorTwice
<1>5. md \in Seq(Byte) /\ Len(md) = n
  <2>1. md \in [1 .. n -> Byte]
    <3>1. md = [k \in 1 .. n |-> md[k]]
      BY <1>3
    <3> QED
      BY <1>4, <3>1
  <2> QED
    BY <1>1, <2>1
<1> QED
  BY <1>4, <1>5 DEF md, n, at

\* The server reads what the client writes: whatever the mask, the code and the
\* payload of less than 2^31 bytes, unmasking the bytes that serialize wrote gives the
\* payload back and finds where the next frame begins.  frame.rs 34-48 and 100-115,
\* header.rs 67-101.
THEOREM ServerReadsClient ==
    ASSUME NEW flag \in Flags, NEW code \in 0 .. 15, NEW mask \in Masks,
           NEW data \in Seq(Byte), Len(data) <= Longest, NEW rest \in Seq(Byte)
    PROVE  LET frame == [header |-> Header(flag, code, mask, Len(data)), data |-> data]
           IN  Unframed(serialize(frame) \o rest)
                 = [flag |-> flag, code |-> code, masks |-> 1,
                    size |-> Len(serialize(frame)), data |-> data]
<1> DEFINE n     == Len(data)
           m     == length(n)
           md    == masked(data, mask)
           first == flag + code
           one   == 1
           bytes == FrameOf(first, m, one, mask, md, rest)
           i     == 1 + Len(m)
           short == bytes[2] % 128
           found == SubSeq(bytes, i + 1, i + 4)
           frame == Whole(flag, code, mask, data)
<1>1. /\ md \in Seq(Byte) /\ Len(md) = n
      /\ \A k \in 1 .. n : xor(md[k], mask[1 + ((k - 1) % 4)]) = data[k]
  BY MaskedBytes
<1>2. mask \in Seq(Byte) /\ Len(mask) = 4 /\ mask # <<>> /\ one \in {0, 1}
  BY MaskBytes
<1>3. n \in Nat /\ n <= Longest /\ data = [k \in 1 .. n |-> data[k]]
  OBVIOUS
<1>4. /\ first \in Byte /\ first - (first % 16) = flag /\ first % 16 = code
  BY FirstByte DEF Flags
<1>5. serialize(frame) = HeaderOf(first, m, one, mask) \o md
  <2>1. serialize(frame) = ((<<first>> \o [m EXCEPT ![1] = @ + 128]) \o mask) \o md
    BY <1>2 DEF serialize, header_bytes, Whole, Header
  <2>2. 128 * 1 = 128
    BY SMT
  <2> QED
    BY <2>1, <2>2, Zenon DEF HeaderOf
<1> HIDE DEF n
<1>6. m \in Seq(Byte) /\ Announces(m, n) /\ Sized(m)
  BY <1>3, LengthBytes, AnnouncesLength
<1> HIDE DEF m, md, first, one
<1>7. Carries(bytes, first, m, one, mask, md)
  BY <1>1, <1>2, <1>4, <1>6, FrameBytes
<1>8. serialize(frame) \o rest = bytes
  BY <1>5 DEF FrameOf
<1>9. Len(serialize(frame)) = i + 4 + n
  <2>1. /\ Begins(HeaderOf(first, m, one, mask), first, m, one, mask)
        /\ Len(HeaderOf(first, m, one, mask)) = 1 + Len(m) + Len(mask)
    BY <1>2, <1>4, <1>6, HeaderBytes
  <2>2. HeaderOf(first, m, one, mask) \in Seq(Byte)
    BY <2>1 DEF Begins
  <2> QED
    <3> DEFINE h == HeaderOf(first, m, one, mask)
    <3>1. h \in Seq(Byte) /\ Len(h) = 1 + Len(m) + 4
      BY <1>2, <2>1, <2>2
    <3> HIDE DEF h
    <3>2. Len(h \o md) = Len(h) + Len(md) /\ Len(m) \in Nat
      BY <1>1, <1>6, <3>1, OneAfterAnother DEF Sized
    <3>3. Len(h \o md) = i + 4 + n
      BY <1>1, <1>3, <3>1, <3>2
    <3> QED
      BY <1>5, <3>3 DEF h
<1> HIDE DEF bytes, frame
<1>10. Begins(bytes, first, m, one, mask)
  BY <1>7 DEF Carries
<1>11. payload_at(short) = i /\ payload_len(bytes, short) = n /\ bytes[2] \div 128 = one
  BY <1>3, <1>6, <1>10, ReadsLength
<1>12. /\ bytes \in Seq(Byte) /\ bytes[1] = first /\ Len(m) \in Nat /\ i \in Nat
       /\ Len(bytes) >= i + 4 + n /\ SubSeq(bytes, i + 4 + 1, i + 4 + n) = md
       /\ \A j \in 1 .. 4 : bytes[i + j] = mask[j]
  <2>1. 1 + Len(m) + Len(mask) = i + 4 /\ Len(m) \in Nat
    BY <1>2, <1>6 DEF Sized
  <2> QED
    <3>1. /\ bytes \in Seq(Byte) /\ bytes[1] = first
          /\ \A j \in 1 .. Len(mask) : bytes[1 + Len(m) + j] = mask[j]
      BY <1>10 DEF Begins
    <3>2. /\ Len(bytes) >= 1 + Len(m) + Len(mask) + Len(md)
          /\ SubSeq(bytes, 1 + Len(m) + Len(mask) + 1, 1 + Len(m) + Len(mask) + Len(md)) = md
      BY <1>7 DEF Carries
    <3>3. Len(bytes) >= i + 4 + n /\ SubSeq(bytes, i + 4 + 1, i + 4 + n) = md
      BY <1>1, <2>1, <3>2, Zenon
    <3>4. \A j \in 1 .. 4 : bytes[i + j] = mask[j]
      BY <1>2, <3>1
    <3> QED
      BY <2>1, <3>1, <3>3, <3>4
<1>13. \A j \in 1 .. 4 : found[j] = mask[j]
  <2> HIDE DEF i
  <2>1. 4 \in Nat /\ i + 4 <= Len(bytes)
    BY <1>3, <1>12
  <2>2. \A j \in 1 .. 4 : SubSeq(bytes, i + 1, i + 4)[j] = bytes[i + j]
    BY <1>12, <2>1, Piece
  <2> QED
    BY <1>12, <2>2
<1>14. \A k \in 1 .. n : bytes[i + 4 + k] = md[k]
  <2> DEFINE at == i + 4
  <2>1. at \in Nat /\ at + n <= Len(bytes) /\ SubSeq(bytes, at + 1, at + n) = md
    <3> HIDE DEF i
    <3>1. i \in Nat /\ i + 4 + n <= Len(bytes)
      BY <1>12, SMT
    <3>2. i + 4 \in Nat
      BY <3>1, SMT
    <3>3. SubSeq(bytes, i + 4 + 1, i + 4 + n) = md
      BY <1>12, Zenon
    <3> QED
      BY <3>1, <3>2, <3>3, Zenon
  <2> HIDE DEF at
  <2>2. \A k \in 1 .. n : SubSeq(bytes, at + 1, at + n)[k] = bytes[at + k]
    BY <1>3, <1>12, <2>1, Piece
  <2>3. \A k \in 1 .. n : md[k] = bytes[at + k]
    BY <2>1, <2>2
  <2> QED
    BY <2>3 DEF at
<1> HIDE DEF i, short, found
<1> DEFINE read == [k \in 1 .. n |-> xor(bytes[i + 4 + k], found[1 + ((k - 1) % 4)])]
<1>15. read = data
  <2>1. \A k \in 1 .. n : xor(bytes[i + 4 + k], found[1 + ((k - 1) % 4)]) = data[k]
    <3> TAKE k \in 1 .. n
    <3>1. 1 + ((k - 1) % 4) \in 1 .. 4
      BY <1>3, SMT
    <3>2. found[1 + ((k - 1) % 4)] = mask[1 + ((k - 1) % 4)]
      BY <1>13, <3>1
    <3> QED
      BY <1>1, <1>14, <3>2
  <2>2. read = [k \in 1 .. n |-> data[k]]
    BY <2>1
  <2> QED
    BY <1>3, <2>2
<1> HIDE DEF read
<1>16. Unframed(bytes) =
         [flag |-> flag, code |-> code, masks |-> 1, size |-> i + 4 + n, data |-> data]
  <2>1. 4 * one = 4 /\ one = 1
    BY DEF one
  <2>2. Unframed(bytes) = [flag |-> first - (first % 16), code |-> first % 16,
                           masks |-> one, size |-> i + 4 + n, data |-> read]
    BY <1>11, <1>12, <2>1, Zenon DEF Unframed, short, found, read
  <2> QED
    BY <1>4, <1>15, <2>1, <2>2, Zenon
<1> QED
  BY <1>8, <1>9, <1>16, Zenon DEF frame, Whole

-----------------------------------------------------------------------------
(* What the server gets of a text *)

\* The server reads from the k-th frame of a text, wherever it stands among the
\* bytes on the connection, the k-th piece, its place in the text by code and flag, and
\* where the frame ends.
PiecesArrive ==
    \A k \in DOMAIN frames, rest \in Seq(Byte) :
        Unframed(serialize(frames[k]) \o rest)
          = [flag  |-> IF k * size >= Len(payload) THEN FIN ELSE NOFLAG,
             code  |-> IF k = 1 \/ size = 0 THEN TEXT ELSE CONTINUATION,
             masks |-> 1, size |-> Len(serialize(frames[k])),
             data  |-> SubSeq(payload, (k - 1) * size + 1, Least(k * size, Len(payload)))]

\* What the server makes of one frame of send.
LEMMA PieceArrives ==
    ASSUME SendTypeOK, TextIsCut, NEW k \in DOMAIN frames, Len(frames[k].data) <= Longest,
           NEW rest \in Seq(Byte)
    PROVE  Unframed(serialize(frames[k]) \o rest)
             = [flag |-> frames[k].header.flag, code |-> frames[k].header.code, masks |-> 1,
                size |-> Len(serialize(frames[k])), data |-> frames[k].data]
<1> DEFINE frame == frames[k]
           flag  == frame.header.flag
           code  == frame.header.code
           mask  == frame.header.mask_key
           data  == frame.data
<1>1. frame \in [header : [flag : {FIN, NOFLAG}, code : {TEXT, CONTINUATION},
                           mask_key : Masks, payload_len : Nat],
                 data : Seq(Byte)]
  <2>1. \A S : \A s \in Seq(S) : \A i \in DOMAIN s : s[i] \in S
    OBVIOUS
  <2> QED
    BY <2>1, Zenon DEF SendTypeOK
<1>2. frame.header.payload_len = Len(data)
  BY DEF TextIsCut
<1> HIDE DEF frame
<1>3. /\ flag \in Flags /\ code \in {TEXT, CONTINUATION} /\ mask \in Masks /\ data \in Seq(Byte)
  BY <1>1 DEF Flags
<1>4. code \in 0 .. 15
  BY <1>3, SMT DEF TEXT, CONTINUATION
<1>5. frame = [header |-> Header(flag, code, mask, Len(data)), data |-> data]
  BY <1>1, <1>2 DEF Header
<1>6. Len(data) <= Longest
  BY DEF frame
<1> HIDE DEF flag, code, mask, data
<1>7. Unframed(serialize(frame) \o rest)
        = [flag |-> flag, code |-> code, masks |-> 1,
           size |-> Len(serialize(frame)), data |-> data]
  BY <1>3, <1>4, <1>5, <1>6, ServerReadsClient
<1> QED
  BY <1>7 DEF frame, flag, code, data

\* At every moment of a send (client.rs 191-207, frame.rs 34-48 and 100-115, header.rs
\* 67-101), what it has pushed is read by the server as its text in pieces of the size
\* set, for every text of less than 2^31 bytes, every size and every mask.
THEOREM TextArrives ==
    ASSUME \A text \in Payloads : Len(text) <= Longest
    PROVE  SendSpec => []PiecesArrive
<1>1. SendTypeOK /\ TextIsCut => PiecesArrive
  <2> SUFFICES ASSUME SendTypeOK, TextIsCut, NEW k \in DOMAIN frames, NEW rest \in Seq(Byte)
               PROVE  Unframed(serialize(frames[k]) \o rest)
          = [flag  |-> IF k * size >= Len(payload) THEN FIN ELSE NOFLAG,
             code  |-> IF k = 1 \/ size = 0 THEN TEXT ELSE CONTINUATION,
             masks |-> 1, size |-> Len(serialize(frames[k])),
             data  |-> SubSeq(payload, (k - 1) * size + 1, Least(k * size, Len(payload)))]
    BY DEF PiecesArrive
  <2>1. /\ frames[k].data = SubSeq(payload, (k - 1) * size + 1, Least(k * size, Len(payload)))
        /\ frames[k].header.code = IF k = 1 \/ size = 0 THEN TEXT ELSE CONTINUATION
        /\ frames[k].header.flag = IF k * size >= Len(payload) THEN FIN ELSE NOFLAG
    BY DEF TextIsCut, size
  <2>2. Len(frames[k].data) <= Longest
    <3> DEFINE from == (k - 1) * size
               to   == Least(k * size, Len(payload))
    <3>1. payload \in Seq(Byte) /\ Len(payload) \in Nat /\ Len(payload) <= Longest
      BY TextFits DEF SendTypeOK
    <3>2. k - 1 \in Nat /\ size \in Nat
      <4>1. \A S : \A s \in Seq(S) : \A i \in DOMAIN s : i - 1 \in Nat
        OBVIOUS
      <4> QED
        BY <4>1, SizeFits, Zenon DEF SendTypeOK
    <3>3. from \in Nat /\ to \in Int /\ to <= Len(payload)
      <4>1. k * size \in Nat
        <5>1. (k - 1) + 1 = k
          BY <3>2
        <5>2. (k - 1) * size \in Nat /\ ((k - 1) + 1) * size = (k - 1) * size + size
          BY <3>2, OneMore
        <5> QED
          BY <3>2, <5>1, <5>2
      <4> QED
        BY <3>1, <3>2, <4>1, OneMore DEF Least
    <3> HIDE DEF from, to
    <3>4. /\ Len(SubSeq(payload, from + 1, to)) \in Nat
          /\ Len(SubSeq(payload, from + 1, to)) <= Len(payload)
      BY <3>1, <3>3
    <3>5. Len(SubSeq(payload, from + 1, to)) <= Longest
      <4>1. \A a, b \in Nat : a <= b /\ b <= Longest => a <= Longest
        BY SMT DEF Longest
      <4> QED
        BY <3>1, <3>4, <4>1, Zenon
    <3> QED
      BY <2>1, <3>5, Zenon DEF from, to
  <2>3. Unframed(serialize(frames[k]) \o rest)
             = [flag |-> frames[k].header.flag, code |-> frames[k].header.code, masks |-> 1,
                size |-> Len(serialize(frames[k])), data |-> frames[k].data]
    BY <2>2, PieceArrives
  <2> QED
    BY <2>1, <2>3, Zenon
<1> QED
  BY <1>1, SendTypeCorrect, SendCutsText, PTL

-----------------------------------------------------------------------------
(* Texts with separators *)

\* A piece of bytes has its bytes.
LEMMA CutOut ==
    ASSUME NEW s \in Seq(Byte), NEW at \in Nat, NEW count \in Nat, at + count <= Len(s)
    PROVE  /\ SubSeq(s, at + 1, at + count) \in Seq(Byte)
           /\ Len(SubSeq(s, at + 1, at + count)) = count
<1> DEFINE part == SubSeq(s, at + 1, at + count)
<1>1. part \in Seq(Byte) /\ Len(part) = count
  BY Piece
<1> QED BY <1>1

\* A set of numbers up to n that is not empty has a greatest.
LEMMA GreatestOf ==
    ASSUME NEW n \in Nat, NEW S, S \subseteq 0 .. n, S # {}
    PROVE  Max(S) \in S
<1> DEFINE T == {n - x : x \in S}
<1>1. T \subseteq Nat /\ T # {}
  <2>1. \A x \in S : n - x \in Nat
    OBVIOUS
  <2> QED BY <2>1
<1>2. PICK y \in T : \A z \in T : y <= z
  <2> HIDE DEF T
  <2> QED BY <1>1, LeastOf, Zenon
<1>3. PICK x \in S : y = n - x
  BY <1>2
<1>4. \A z \in S : x >= z
  <2> TAKE z \in S
  <2>1. n - z \in T
    OBVIOUS
  <2>2. n - x <= n - z
    BY <1>2, <1>3, <2>1
  <2> QED BY <2>2
<1>5. \E u \in S : \A z \in S : u >= z
  BY <1>4
<1> HIDE DEF T
<1> QED BY <1>5 DEF Max

\* Before how many of S's numbers i comes.
Below(S, i) == {j \in S : j < i}

\* In a set of numbers each place is somebody's.
LEMMA Ranked ==
    ASSUME NEW S, S \subseteq Nat, IsFiniteSet(S), NEW k \in Nat, k < Cardinality(S)
    PROVE  \E i \in S : Cardinality(Below(S, i)) = k
<1> DEFINE P == {m \in Nat : m < Cardinality(S) => \E i \in S : Cardinality(Below(S, i)) = m}
<1>0. Cardinality(S) \in Nat
  BY FS_CardinalityType
<1>1. 0 \in P
  <2> SUFFICES ASSUME 0 < Cardinality(S)
               PROVE  \E i \in S : Cardinality(Below(S, i)) = 0
    OBVIOUS
  <2>1. S # {}
    <3>1. S = {} => Cardinality(S) = 0
      BY FS_EmptySet, Zenon
    <3> QED BY <1>0, <3>1
  <2>2. PICK i \in S : \A j \in S : i <= j
    BY <2>1, LeastOf, Zenon
  <2>3. Below(S, i) = {}
    <3>1. \A j \in S : ~(j < i)
      BY <2>2
    <3> QED BY <3>1, Zenon DEF Below
  <2>4. Cardinality({}) = 0
    BY FS_EmptySet
  <2> QED BY <2>3, <2>4
<1>2. ASSUME NEW m \in Nat, m \in P
      PROVE  m + 1 \in P
  <2> SUFFICES ASSUME m + 1 < Cardinality(S)
               PROVE  \E i \in S : Cardinality(Below(S, i)) = m + 1
    OBVIOUS
  <2>1. PICK i \in S : Cardinality(Below(S, i)) = m
    BY <1>0, <1>2
  <2> DEFINE A == Below(S, i)
             B == A \cup {i}
             C == S \ B
  <2>2. IsFiniteSet(A) /\ i \notin A /\ A \subseteq S
    <3>1. A \subseteq S /\ i \notin A
      BY DEF Below
    <3>2. A \in SUBSET S
      BY <3>1
    <3> QED BY <3>1, <3>2, FS_Subset, Zenon
  <2>3. IsFiniteSet(B) /\ Cardinality(B) = m + 1
    <3> HIDE DEF A
    <3>1. IsFiniteSet(B) /\ Cardinality(B) = Cardinality(A) + 1
      BY <2>2, FS_AddElement, Zenon
    <3> QED BY <2>1, <3>1 DEF A
  <2>4. C # {}
    <3> SUFFICES ASSUME C = {} PROVE FALSE
      OBVIOUS
    <3>1. S = B
      BY <2>2
    <3>2. Cardinality(S) = m + 1
      BY <2>3, <3>1
    <3> QED BY <1>0, <3>2
  <2>5. PICK u \in C : \A j \in C : u <= j
    <3>1. C \subseteq Nat
      OBVIOUS
    <3> HIDE DEF C
    <3> QED BY <2>4, <3>1, LeastOf, Zenon
  <2>6. u \in S /\ u \in Nat /\ i \in Nat /\ u > i
    BY <2>5 DEF Below
  <2>7. Below(S, u) = B
    <3>1. ASSUME NEW j \in S
          PROVE  j < u <=> j \in B
      <4>1. j \in C => ~(j < u)
        BY <2>5, <2>6
      <4>2. j \in B => j < u
        BY <2>6 DEF Below
      <4> QED BY <4>1, <4>2
    <3> QED BY <2>2, <3>1 DEF Below
  <2> QED BY <2>3, <2>6, <2>7
<1>3. Nat \subseteq P
  <2>1. \A m \in Nat : m \in P => m + 1 \in P
    BY <1>2
  <2> HIDE DEF P
  <2> QED BY <1>1, <2>1, SetInduction, Zenon
<1> QED BY <1>3

\* The pieces that Split cuts a text into are texts, and there is one at least.
LEMMA SplitPieces ==
    ASSUME NEW text \in Seq(Byte), NEW pattern, Len(pattern) \in Nat \ {0}
    PROVE  /\ Len(Split(text, pattern)) \in Nat \ {0}
           /\ \A k \in 1 .. Len(Split(text, pattern)) : Split(text, pattern)[k] \in Seq(Byte)
<1> DEFINE cuts == Finds(text, pattern)
           N    == Cardinality(cuts)
           L    == Len(pattern)
           at(k) == CASE k = 0 -> 1 - Len(pattern)
                      [] k = Cardinality(cuts) + 1 -> Len(text) + 1
                      [] OTHER -> CHOOSE i \in cuts : Cardinality({j \in cuts : j < i}) = k - 1
<1>0. Len(text) \in Nat
  OBVIOUS
<1>1. /\ cuts \subseteq Nat /\ IsFiniteSet(cuts) /\ N \in Nat
      /\ \A i \in cuts : i >= 1 /\ i + L <= Len(text) + 1
  <2>1. cuts \subseteq 1 .. Len(text) /\ \A i \in cuts : i >= 1 /\ i + L <= Len(text) + 1
    BY <1>0 DEF Finds
  <2>2. IsFiniteSet(1 .. Len(text))
    BY <1>0, FS_Interval
  <2>3. IsFiniteSet(cuts)
    <3>1. cuts \in SUBSET (1 .. Len(text))
      BY <2>1
    <3> QED BY <2>2, <3>1, FS_Subset, Zenon
  <2>4. N \in Nat
    BY <2>3, FS_CardinalityType
  <2> QED BY <1>0, <2>1, <2>3, <2>4
<1>2. Split(text, pattern) = [k \in 1 .. N + 1 |-> SubSeq(text, at(k - 1) + L, at(k) - 1)]
  BY DEF Split
<1> HIDE DEF cuts
<1>3. ASSUME NEW k \in 1 .. N
      PROVE  at(k) \in cuts
  <2>1. k # 0 /\ k # N + 1 /\ k - 1 \in Nat /\ k - 1 < N
    BY <1>1
  <2>2. \E i \in cuts : Cardinality({j \in cuts : j < i}) = k - 1
    BY <1>1, <2>1, Ranked DEF Below
  <2>3. at(k) = CHOOSE i \in cuts : Cardinality({j \in cuts : j < i}) = k - 1
    BY <2>1
  <2> HIDE DEF at
  <2> QED BY <2>2, <2>3, Zenon
<1>4. at(0) = 1 - L /\ at(N + 1) = Len(text) + 1
  BY <1>1
<1> HIDE DEF at
<1>5. ASSUME NEW k \in 1 .. N + 1
      PROVE  SubSeq(text, at(k - 1) + L, at(k) - 1) \in Seq(Byte)
  <2> DEFINE from == at(k - 1) + L
             to   == at(k) - 1
  <2>1. from \in Int /\ from >= 1
    <3>1. CASE k = 1
      BY <1>4, <3>1
    <3>2. CASE k # 1
      <4>1. k - 1 \in 1 .. N
        BY <1>1, <3>2
      <4>2. at(k - 1) \in cuts
        BY <1>3, <4>1
      <4>3. \A x \in cuts : x + L \in Int /\ x + L >= 1
        BY <1>1
      <4> QED BY <4>2, <4>3, Zenon
    <3> QED BY <3>1, <3>2
  <2>2. to \in Int /\ to <= Len(text)
    <3>1. CASE k = N + 1
      BY <1>0, <1>4, <3>1
    <3>2. CASE k # N + 1
      <4>1. k \in 1 .. N
        BY <1>1, <3>2
      <4>2. at(k) \in cuts
        BY <1>3, <4>1
      <4>3. \A x \in cuts : x - 1 \in Int /\ x - 1 <= Len(text)
        BY <1>0, <1>1
      <4> QED BY <4>2, <4>3, Zenon
    <3> QED BY <3>1, <3>2
  <2> HIDE DEF from, to
  <2>3. SubSeq(text, from, to) \in Seq(Byte)
    BY <1>0, <2>1, <2>2
  <2> QED BY <2>3 DEF from, to
<1>6. Len(Split(text, pattern)) = N + 1
  BY <1>1, <1>2
<1>7. ASSUME NEW k \in 1 .. N + 1
      PROVE  Split(text, pattern)[k] = SubSeq(text, at(k - 1) + L, at(k) - 1)
  BY <1>2
<1>8. N + 1 \in Nat \ {0}
  BY <1>1
<1> QED BY <1>5, <1>6, <1>7, <1>8, Zenon

\* c names the numbers of S in order, n of them.
Counts(c, n, S) ==
    /\ S = {c[k] : k \in 1 .. n}
    /\ \A k \in 1 .. n : c[k] \in Nat
    /\ \A k, m \in 1 .. n : k < m => c[k] < c[m]

\* What is counted has so many below.
LEMMA CountIs ==
    ASSUME NEW c, NEW n \in Nat, NEW S, Counts(c, n, S)
    PROVE  /\ Cardinality(S) = n
           /\ \A k \in 1 .. n : c[k] \in S /\ Cardinality(Below(S, c[k])) = k - 1
<1> DEFINE First(m) == {c[k] : k \in 1 .. m}
           P == {m \in Nat : m <= n => IsFiniteSet(First(m)) /\ Cardinality(First(m)) = m}
<1>1. /\ S = {c[k] : k \in 1 .. n}
      /\ \A k \in 1 .. n : c[k] \in Nat
      /\ \A k, m \in 1 .. n : k < m => c[k] < c[m]
  BY DEF Counts
<1>2. 0 \in P
  <2>1. First(0) = {}
    OBVIOUS
  <2>2. IsFiniteSet({}) /\ Cardinality({}) = 0
    BY FS_EmptySet, Zenon
  <2> QED BY <2>1, <2>2
<1>3. ASSUME NEW m \in Nat, m \in P
      PROVE  m + 1 \in P
  <2> SUFFICES ASSUME m + 1 <= n
               PROVE  IsFiniteSet(First(m + 1)) /\ Cardinality(First(m + 1)) = m + 1
    OBVIOUS
  <2>1. IsFiniteSet(First(m)) /\ Cardinality(First(m)) = m
    BY <1>3
  <2>2. First(m + 1) = First(m) \cup {c[m + 1]}
    <3>1. 1 .. m + 1 = (1 .. m) \cup {m + 1}
      OBVIOUS
    <3> QED BY <3>1
  <2>3. c[m + 1] \notin First(m)
    <3>1. \A k \in 1 .. m : k \in 1 .. n /\ m + 1 \in 1 .. n /\ k < m + 1
      OBVIOUS
    <3>2. \A k \in 1 .. m : c[k] < c[m + 1] /\ c[k] \in Nat /\ c[m + 1] \in Nat
      BY <1>1, <3>1, Zenon
    <3>3. \A x, y \in Nat : x < y => x # y
      BY SMT
    <3>4. \A k \in 1 .. m : c[k] # c[m + 1]
      BY <3>2, <3>3, Zenon
    <3> QED BY <3>4, Zenon
  <2> HIDE DEF First
  <2>4. IsFiniteSet(First(m) \cup {c[m + 1]}) /\ Cardinality(First(m) \cup {c[m + 1]}) = Cardinality(First(m)) + 1
    BY <2>1, <2>3, FS_AddElement, Zenon
  <2> QED BY <2>1, <2>2, <2>4, Zenon
<1>4. Nat \subseteq P
  <2>1. \A m \in Nat : m \in P => m + 1 \in P
    BY <1>3
  <2> HIDE DEF P
  <2> QED BY <1>2, <2>1, SetInduction, Zenon
<1>5. \A m \in 0 .. n : Cardinality(First(m)) = m
  <2>1. \A m \in 0 .. n : m \in Nat /\ m <= n
    OBVIOUS
  <2> QED BY <1>4, <2>1, Zenon
<1>6. Cardinality(S) = n
  BY <1>1, <1>5
<1>7. ASSUME NEW k \in 1 .. n
      PROVE  c[k] \in S /\ Cardinality(Below(S, c[k])) = k - 1
  <2>1. c[k] \in S
    BY <1>1
  <2>2. Below(S, c[k]) = First(k - 1)
    <3>1. \A m \in 1 .. n : c[m] < c[k] <=> m < k
      <4> TAKE m \in 1 .. n
      <4>1. m < k => c[m] < c[k]
        BY <1>1
      <4>2. m = k => ~(c[m] < c[k])
        BY <1>1
      <4>3. k < m => ~(c[m] < c[k])
        <5>1. k < m => c[k] < c[m]
          BY <1>1
        <5>2. c[k] \in Nat /\ c[m] \in Nat
          BY <1>1
        <5> QED BY <5>1, <5>2
      <4> QED BY <4>1, <4>2, <4>3
    <3>2. \A m \in 1 .. n : m < k <=> m \in 1 .. k - 1
      OBVIOUS
    <3>3. \A m \in 1 .. k - 1 : m \in 1 .. n
      OBVIOUS
    <3>4. Below(S, c[k]) = {j \in S : j < c[k]}
      BY DEF Below
    <3> QED BY <1>1, <3>1, <3>2, <3>3, <3>4, Zenon
  <2>3. k - 1 \in 0 .. n
    OBVIOUS
  <2> QED BY <1>5, <2>1, <2>2, <2>3, Zenon
<1> QED BY <1>6, <1>7

\* Split cuts a text where the pattern is found.
LEMMA SplitAt ==
    ASSUME NEW text, NEW pattern, NEW c, NEW n \in Nat, Counts(c, n, Finds(text, pattern))
    PROVE  Split(text, pattern) =
              [k \in 1 .. n + 1 |->
                  SubSeq(text, (IF k = 1 THEN 1 - Len(pattern) ELSE c[k - 1]) + Len(pattern),
                         (IF k = n + 1 THEN Len(text) + 1 ELSE c[k]) - 1)]
<1> DEFINE cuts == Finds(text, pattern)
           at(k) == CASE k = 0 -> 1 - Len(pattern)
                      [] k = Cardinality(cuts) + 1 -> Len(text) + 1
                      [] OTHER -> CHOOSE i \in cuts : Cardinality({j \in cuts : j < i}) = k - 1
<1>1. /\ Cardinality(cuts) = n
      /\ \A k \in 1 .. n : c[k] \in cuts /\ Cardinality(Below(cuts, c[k])) = k - 1
      /\ cuts = {c[k] : k \in 1 .. n}
  <2>1. Counts(c, n, cuts)
    OBVIOUS
  <2> HIDE DEF cuts
  <2>2. /\ Cardinality(cuts) = n
        /\ \A k \in 1 .. n : c[k] \in cuts /\ Cardinality(Below(cuts, c[k])) = k - 1
    BY <2>1, CountIs
  <2> QED BY <2>1, <2>2 DEF Counts
<1>2. Split(text, pattern) =
         [k \in 1 .. Cardinality(cuts) + 1 |-> SubSeq(text, at(k - 1) + Len(pattern), at(k) - 1)]
  BY DEF Split
<1> HIDE DEF cuts
<1>3. ASSUME NEW k \in 1 .. n
      PROVE  at(k) = c[k]
  <2>1. k # 0 /\ k # n + 1
    OBVIOUS
  <2>2. at(k) = CHOOSE i \in cuts : Cardinality(Below(cuts, i)) = k - 1
    BY <1>1, <2>1 DEF Below
  <2> HIDE DEF at
  <2>3. \A i \in cuts : Cardinality(Below(cuts, i)) = k - 1 => i = c[k]
    <3> SUFFICES ASSUME NEW m \in 1 .. n, Cardinality(Below(cuts, c[m])) = k - 1 PROVE c[m] = c[k]
      BY <1>1
    <3>1. m - 1 = k - 1
      BY <1>1
    <3> QED BY <3>1
  <2> QED BY <1>1, <2>2, <2>3
<1>4. at(0) = 1 - Len(pattern) /\ at(n + 1) = Len(text) + 1
  BY <1>1
<1> HIDE DEF at
<1>5. ASSUME NEW k \in 1 .. n + 1
      PROVE  /\ at(k - 1) = IF k = 1 THEN 1 - Len(pattern) ELSE c[k - 1]
             /\ at(k) = IF k = n + 1 THEN Len(text) + 1 ELSE c[k]
  <2>1. k = 1 => k - 1 = 0
    OBVIOUS
  <2>2. k # 1 => k - 1 \in 1 .. n
    OBVIOUS
  <2>3. k # n + 1 => k \in 1 .. n
    OBVIOUS
  <2> QED BY <1>3, <1>4, <2>1, <2>2, <2>3, Zenon
<1>6. \A k \in 1 .. n + 1 :
         SubSeq(text, at(k - 1) + Len(pattern), at(k) - 1) =
            SubSeq(text, (IF k = 1 THEN 1 - Len(pattern) ELSE c[k - 1]) + Len(pattern),
                   (IF k = n + 1 THEN Len(text) + 1 ELSE c[k]) - 1)
  BY <1>5, Zenon
<1> QED BY <1>1, <1>2, <1>6

\* Texts without the byte a, and texts each with the separator a, b behind it.
Free(a)        == Seq(Byte \ {a})
\* Sequences, each with the pattern after it.
Ended(s, a, b) == FlattenSeq([i \in DOMAIN s |-> s[i] \o <<a, b>>])

\* c holds where in t the separators are, each behind a text of s.
Cut(c, s, t, a, b) ==
    /\ t \in Seq(Byte)
    /\ \A k \in 1 .. Len(s) :
          /\ c[k] \in Nat \ {0} /\ c[k] + 1 <= Len(t) /\ t[c[k]] = a /\ t[c[k] + 1] = b
          /\ s[k] = SubSeq(t, IF k = 1 THEN 1 ELSE c[k - 1] + 2, c[k] - 1)
    /\ \A k, m \in 1 .. Len(s) : k < m => c[k] < c[m]
    /\ \A i \in 1 .. Len(t) : t[i] = a => \E k \in 1 .. Len(s) : i = c[k]
    /\ Len(t) = IF Len(s) = 0 THEN 0 ELSE c[Len(s)] + 1

\* One more.
LEMMA EndedMore ==
    ASSUME NEW a \in Byte, NEW b \in Byte, NEW s \in Seq(Free(a)), NEW x \in Free(a)
    PROVE  /\ Ended(<<>>, a, b) = <<>>
           /\ Ended(Append(s, x), a, b) = Ended(s, a, b) \o (x \o <<a, b>>)
           /\ x \o <<a, b>> \in Seq(Byte)
<1> DEFINE p    == <<a, b>>
           g(u) == [i \in DOMAIN u |-> u[i] \o p]
<1>1. p \in Seq(Byte) /\ \A w \in Free(a) : w \in Seq(Byte)
  BY DEF Free
<1>2. \A w \in Free(a) : w \o p \in Seq(Byte)
  <2> HIDE DEF p
  <2>1. \A w \in Seq(Byte) : w \o p \in Seq(Byte)
    BY <1>1
  <2> QED BY <1>1, <2>1, Zenon
<1> HIDE DEF p
<1>3. g(s) \in Seq(Seq(Byte))
  <2>1. DOMAIN s = 1 .. Len(s) /\ Len(s) \in Nat /\ \A i \in 1 .. Len(s) : s[i] \in Free(a)
    OBVIOUS
  <2> QED BY <1>2, <2>1
<1>4. g(Append(s, x)) = Append(g(s), x \o p)
  <2>1. /\ DOMAIN Append(s, x) = 1 .. Len(s) + 1 /\ DOMAIN s = 1 .. Len(s) /\ Len(s) \in Nat
        /\ \A i \in 1 .. Len(s) : Append(s, x)[i] = s[i]
        /\ Append(s, x)[Len(s) + 1] = x
    BY AppendProperties
  <2>2. Len(g(s)) = Len(s)
    BY <1>3, <2>1
  <2>3. /\ DOMAIN Append(g(s), x \o p) = 1 .. Len(s) + 1
        /\ \A i \in 1 .. Len(s) : Append(g(s), x \o p)[i] = g(s)[i]
        /\ Append(g(s), x \o p)[Len(s) + 1] = x \o p
    <3>1. g(s) \in Seq(Seq(Byte)) /\ x \o p \in Seq(Byte)
      BY <1>2, <1>3
    <3> HIDE DEF g
    <3> QED BY <2>2, <3>1, AppendProperties
  <2>4. \A i \in 1 .. Len(s) + 1 : g(Append(s, x))[i] = Append(g(s), x \o p)[i]
    <3> TAKE i \in 1 .. Len(s) + 1
    <3>1. i \in 1 .. Len(s) \/ i = Len(s) + 1
      BY <2>1
    <3>2. g(Append(s, x))[i] = Append(s, x)[i] \o p
      BY <2>1
    <3> QED BY <2>1, <2>3, <3>1, <3>2
  <2>5. g(Append(s, x)) = [i \in 1 .. Len(s) + 1 |-> g(Append(s, x))[i]]
    BY <2>1
  <2>6. Append(g(s), x \o p) = [i \in 1 .. Len(s) + 1 |-> Append(g(s), x \o p)[i]]
    <3>1. g(s) \in Seq(Seq(Byte)) /\ x \o p \in Seq(Byte)
      BY <1>2, <1>3
    <3>0. \A z \in Seq(Seq(Byte)) : z = [i \in 1 .. Len(z) |-> z[i]]
      OBVIOUS
    <3> HIDE DEF g
    <3>2. Append(g(s), x \o p) \in Seq(Seq(Byte)) /\ Len(Append(g(s), x \o p)) = Len(s) + 1
      BY <2>2, <3>1, AppendProperties
    <3> QED BY <3>0, <3>2, Zenon
  <2> HIDE DEF g
  <2> QED BY <2>4, <2>5, <2>6
<1>5. FlattenSeq(Append(g(s), x \o p)) = FlattenSeq(g(s)) \o (x \o p)
  <2> HIDE DEF g
  <2> QED BY <1>2, <1>3, FlattenAppend
<1>6. g(<<>>) = <<>>
  OBVIOUS
<1> QED BY <1>2, <1>4, <1>5, <1>6, FlattenNone DEF Ended, p

\* Pieces are the same where the sequences are.
LEMMA SamePiece ==
    ASSUME NEW t \in Seq(Byte), NEW w \in Seq(Byte), NEW from \in Nat \ {0}, NEW hi \in Nat,
           hi <= Len(t), hi <= Len(w), \A i \in from .. hi : w[i] = t[i]
    PROVE  SubSeq(w, from, hi) = SubSeq(t, from, hi)
<1> DEFINE one   == SubSeq(w, from, hi)
           other == SubSeq(t, from, hi)
           n     == IF from <= hi THEN (hi - from) + 1 ELSE 0
<1>1. n \in Nat /\ \A i \in 1 .. n : (from + i) - 1 \in from .. hi
  OBVIOUS
<1>2. one \in Seq(Byte) /\ Len(one) = n /\ \A i \in 1 .. n : one[i] = w[(from + i) - 1]
  OBVIOUS
<1>3. other \in Seq(Byte) /\ Len(other) = n /\ \A i \in 1 .. n : other[i] = t[(from + i) - 1]
  OBVIOUS
<1> HIDE DEF one, other, n
<1>4. \A i \in 1 .. n : one[i] = other[i]
  BY <1>1, <1>2, <1>3, Zenon
<1>5. one = other
  BY <1>2, <1>3, <1>4, SeqEqual
<1> QED BY <1>5 DEF one, other

\* One more text, and its separator.
LEMMA CutMore ==
    ASSUME NEW a \in Byte, NEW b \in Byte, a # b, NEW s \in Seq(Free(a)), NEW x \in Free(a),
           NEW t, NEW c, Cut(c, s, t, a, b)
    PROVE  \E d : Cut(d, Append(s, x), t \o (x \o <<a, b>>), a, b)
<1> DEFINE y == x \o <<a, b>>
           w == t \o y
           n == Len(s)
           l == Len(t)
           m == Len(x)
           d == [k \in 1 .. n + 1 |-> IF k = n + 1 THEN l + m + 1 ELSE c[k]]
           u == Append(s, x)
<1>1. t \in Seq(Byte) /\ x \in Seq(Byte) /\ n \in Nat /\ l \in Nat /\ m \in Nat
      /\ \A i \in 1 .. m : x[i] # a
  BY DEF Cut, Free
<1>2. /\ y \in Seq(Byte) /\ Len(y) = m + 2
      /\ \A i \in 1 .. m : y[i] = x[i]
      /\ y[m + 1] = a /\ y[m + 2] = b
  <2> DEFINE p == <<a, b>>
  <2>1. p \in Seq(Byte) /\ Len(p) = 2 /\ p[1] = a /\ p[2] = b
    OBVIOUS
  <2> HIDE DEF p
  <2>2. /\ x \o p \in Seq(Byte) /\ Len(x \o p) = Len(x) + Len(p)
        /\ \A i \in 1 .. Len(x) : (x \o p)[i] = x[i]
        /\ \A i \in 1 .. Len(p) : (x \o p)[Len(x) + i] = p[i]
    BY <1>1, <2>1, OneAfterAnother, Zenon
  <2>3. 1 \in 1 .. Len(p) /\ 2 \in 1 .. Len(p)
    BY <2>1
  <2>4. y = x \o p
    BY DEF p
  <2> QED BY <2>1, <2>2, <2>3, <2>4, Zenon
<1> HIDE DEF y
<1>3. /\ w \in Seq(Byte) /\ Len(w) = l + (m + 2)
      /\ \A i \in 1 .. l : w[i] = t[i]
      /\ \A i \in 1 .. m + 2 : w[l + i] = y[i]
  <2>1. /\ t \o y \in Seq(Byte) /\ Len(t \o y) = Len(t) + Len(y)
        /\ \A i \in 1 .. Len(t) : (t \o y)[i] = t[i]
        /\ \A i \in 1 .. Len(y) : (t \o y)[Len(t) + i] = y[i]
    BY <1>1, <1>2, OneAfterAnother, Zenon
  <2> QED BY <1>2, <2>1, Zenon
<1>4. /\ u \in Seq(Free(a)) /\ Len(u) = n + 1 /\ u[n + 1] = x
      /\ \A k \in 1 .. n : u[k] = s[k]
  BY AppendProperties
<1>5. /\ \A k \in 1 .. n : /\ c[k] \in Nat \ {0} /\ c[k] + 1 <= l /\ t[c[k]] = a /\ t[c[k] + 1] = b
                           /\ s[k] = SubSeq(t, IF k = 1 THEN 1 ELSE c[k - 1] + 2, c[k] - 1)
      /\ \A k, j \in 1 .. n : k < j => c[k] < c[j]
      /\ \A i \in 1 .. l : t[i] = a => \E k \in 1 .. n : i = c[k]
      /\ l = IF n = 0 THEN 0 ELSE c[n] + 1
  BY Zenon DEF Cut
<1> HIDE DEF w, u, n, l, m
<1>6. d[n + 1] = l + m + 1 /\ \A k \in 1 .. n : d[k] = c[k]
  BY <1>1
<1> HIDE DEF d
<1>7. w[l + m + 1] = a /\ w[l + m + 2] = b /\ \A i \in 1 .. m : w[l + i] = x[i]
  <2>1. m + 1 \in 1 .. m + 2 /\ m + 2 \in 1 .. m + 2 /\ l + (m + 1) = l + m + 1 /\ l + (m + 2) = l + m + 2
        /\ \A i \in 1 .. m : i \in 1 .. m + 2
    BY <1>1
  <2>2. w[l + (m + 1)] = y[m + 1] /\ w[l + (m + 2)] = y[m + 2] /\ \A i \in 1 .. m : w[l + i] = y[i]
    BY <1>3, <2>1, Zenon
  <2> QED BY <1>2, <2>1, <2>2, Zenon
<1>8. ASSUME NEW k \in 1 .. n + 1
      PROVE  /\ d[k] \in Nat \ {0} /\ d[k] + 1 <= Len(w) /\ w[d[k]] = a /\ w[d[k] + 1] = b
             /\ u[k] = SubSeq(w, IF k = 1 THEN 1 ELSE d[k - 1] + 2, d[k] - 1)
  <2>1. CASE k = n + 1
    <3>1. d[k] = l + m + 1 /\ d[k] + 1 = l + m + 2 /\ d[k] - 1 = l + m
      BY <1>1, <1>6, <2>1
    <3>2. d[k] \in Nat \ {0} /\ d[k] + 1 <= Len(w)
      BY <1>1, <1>3, <3>1
    <3>3. (IF k = 1 THEN 1 ELSE d[k - 1] + 2) = l + 1
      <4>1. CASE n = 0
        <5>1. k = 1 /\ l = 0
          BY <1>5, <2>1, <4>1
        <5> QED BY <5>1
      <4>2. CASE n # 0
        <5>1. k # 1 /\ k - 1 = n /\ n \in 1 .. n
          BY <1>1, <2>1, <4>2
        <5>2. d[n] = c[n] /\ l = c[n] + 1 /\ c[n] \in Nat
          BY <1>5, <1>6, <4>2, <5>1, Zenon
        <5>3. d[k - 1] = c[n]
          BY <5>1, <5>2, Zenon
        <5> QED BY <5>1, <5>2, <5>3
      <4> QED BY <4>1, <4>2
    <3>4. SubSeq(w, l + 1, l + m) = x
      <4>1. SubSeq(w, l + 1, l + m) \in Seq(Byte) /\ Len(SubSeq(w, l + 1, l + m)) = m
        <5>1. l + m <= Len(w)
          BY <1>1, <1>3
        <5> QED BY <1>1, <1>3, <5>1, CutOut
      <4>2. \A i \in 1 .. m : SubSeq(w, l + 1, l + m)[i] = w[l + i]
        BY <1>1, <1>3
      <4>3. \A i \in 1 .. m : SubSeq(w, l + 1, l + m)[i] = x[i]
        BY <1>7, <4>2, Zenon
      <4>4. Len(x) = m
        BY DEF m
      <4> QED BY <1>1, <4>1, <4>3, <4>4, SeqEqual
    <3> QED BY <1>4, <1>7, <2>1, <3>1, <3>2, <3>3, <3>4
  <2>2. CASE k # n + 1
    <3>1. k \in 1 .. n
      BY <1>1, <2>2
    <3>2. /\ c[k] \in Nat \ {0} /\ c[k] + 1 <= l /\ t[c[k]] = a /\ t[c[k] + 1] = b
          /\ s[k] = SubSeq(t, IF k = 1 THEN 1 ELSE c[k - 1] + 2, c[k] - 1)
      BY <1>5, <3>1
    <3>3. d[k] = c[k] /\ c[k] \in 1 .. l /\ c[k] + 1 \in 1 .. l /\ c[k] + 1 <= Len(w)
      <4>1. \A q, v \in Nat : q + 1 <= v => q + 1 <= v + (m + 2) /\ (q # 0 => q \in 1 .. v /\ q + 1 \in 1 .. v)
        BY <1>1
      <4>2. d[k] = c[k] /\ c[k] \in Nat /\ c[k] # 0 /\ c[k] + 1 <= l /\ Len(w) = l + (m + 2)
        BY <1>3, <1>6, <3>1, <3>2, Zenon
      <4> QED BY <1>1, <4>1, <4>2, Zenon
    <3>4. w[d[k]] = a /\ w[d[k] + 1] = b
      BY <1>3, <3>2, <3>3, Zenon
    <3>5. k # 1 => k - 1 \in 1 .. n /\ d[k - 1] = c[k - 1] /\ c[k - 1] \in Nat
      <4>1. k # 1 => k - 1 \in 1 .. n
        BY <1>1, <3>1
      <4>2. \A j \in 1 .. n : d[j] = c[j] /\ c[j] \in Nat
        BY <1>5, <1>6, Zenon
      <4> QED BY <4>1, <4>2, Zenon
    <3> DEFINE from == IF k = 1 THEN 1 ELSE c[k - 1] + 2
    <3>6. from \in Nat /\ from >= 1 /\ from = IF k = 1 THEN 1 ELSE d[k - 1] + 2
      BY <3>5
    <3> HIDE DEF from
    <3>7. SubSeq(w, from, c[k] - 1) = SubSeq(t, from, c[k] - 1)
      <4> DEFINE hi == c[k] - 1
      <4>1. hi \in Nat /\ hi <= l /\ hi <= Len(w)
        <5>1. \A q, v \in Nat : q # 0 /\ q + 1 <= v => q - 1 \in Nat /\ q - 1 <= v /\ q - 1 <= v + (m + 2)
          BY <1>1
        <5>2. c[k] \in Nat /\ c[k] # 0 /\ c[k] + 1 <= l /\ Len(w) = l + (m + 2)
          BY <1>3, <3>2, Zenon
        <5> QED BY <1>1, <5>1, <5>2, Zenon
      <4> HIDE DEF hi
      <4>2. \A i \in from .. hi : i \in 1 .. l
        BY <1>1, <3>6, <4>1
      <4>3. \A i \in from .. hi : w[i] = t[i]
        BY <1>3, <4>2, Zenon
      <4>4. from \in Nat \ {0} /\ l = Len(t)
        BY <3>6 DEF l
      <4>5. SubSeq(w, from, hi) = SubSeq(t, from, hi)
        BY <1>1, <1>3, <4>1, <4>3, <4>4, SamePiece
      <4> QED BY <4>5 DEF hi
    <3>8. u[k] = SubSeq(w, IF k = 1 THEN 1 ELSE d[k - 1] + 2, d[k] - 1)
      BY <1>4, <3>1, <3>2, <3>3, <3>6, <3>7 DEF from
    <3> QED BY <3>2, <3>3, <3>4, <3>8
  <2> QED BY <2>1, <2>2
<1>9. \A k, j \in 1 .. n + 1 : k < j => d[k] < d[j]
  <2> TAKE k, j \in 1 .. n + 1
  <2> HAVE k < j
  <2>1. k \in 1 .. n
    BY <1>1
  <2>2. CASE j = n + 1
    <3>1. d[k] = c[k] /\ d[j] = l + m + 1 /\ c[k] \in Nat /\ c[k] + 1 <= l
      BY <1>5, <1>6, <2>1, <2>2, Zenon
    <3>2. \A q \in Nat : q + 1 <= l => q < l + m + 1
      BY <1>1
    <3> QED BY <3>1, <3>2, Zenon
  <2>3. CASE j # n + 1
    <3>1. j \in 1 .. n
      BY <1>1, <2>3
    <3> QED BY <1>5, <1>6, <2>1, <3>1, Zenon
  <2> QED BY <2>2, <2>3
<1>10. \A i \in 1 .. Len(w) : w[i] = a => \E k \in 1 .. n + 1 : i = d[k]
  <2> TAKE i \in 1 .. Len(w)
  <2> HAVE w[i] = a
  <2>1. CASE i <= l
    <3>1. i \in 1 .. l
      BY <1>1, <2>1
    <3>2. PICK k \in 1 .. n : i = c[k]
      BY <1>3, <1>5, <3>1
    <3>3. k \in 1 .. n + 1
      BY <1>1
    <3> QED BY <1>6, <3>2, <3>3
  <2>2. CASE ~(i <= l)
    <3>1. \/ i - l \in 1 .. m /\ l + (i - l) = i
          \/ i = l + m + 1
          \/ i = l + m + 2
      BY <1>1, <1>3, <2>2
    <3>2. ~(i - l \in 1 .. m /\ l + (i - l) = i)
      BY <1>1, <1>7
    <3>3. i = l + m + 1
      BY <1>7, <3>1, <3>2
    <3>4. n + 1 \in 1 .. n + 1
      BY <1>1
    <3> QED BY <1>6, <3>3, <3>4
  <2> QED BY <2>1, <2>2
<1>11. Len(w) = d[n + 1] + 1
  BY <1>1, <1>3, <1>6
<1>12. Cut(d, u, w, a, b)
  <2>1. n + 1 # 0
    BY <1>1
  <2> QED BY <1>3, <1>4, <1>8, <1>9, <1>10, <1>11, <2>1 DEF Cut
<1> QED BY <1>12 DEF u, w, y

\* Every such sequence has its separators somewhere.
LEMMA CutExists ==
    ASSUME NEW a \in Byte, NEW b \in Byte, a # b, NEW s \in Seq(Free(a))
    PROVE  \E c : Cut(c, s, Ended(s, a, b), a, b)
<1> DEFINE P == {u \in Seq(Free(a)) : \E c : Cut(c, u, Ended(u, a, b), a, b)}
<1>1. <<>> \in P
  <2>1. <<>> \in Seq(Free(a)) /\ <<>> \in Seq(Byte) /\ Len(<<>>) = 0 /\ 1 .. 0 = {}
    OBVIOUS
  <2>2. <<>> \in Free(a)
    BY DEF Free
  <2>3. Ended(<<>>, a, b) = <<>>
    BY <2>1, <2>2, EndedMore, Zenon
  <2>4. Cut(<<>>, <<>>, <<>>, a, b)
    BY <2>1 DEF Cut
  <2> QED BY <2>1, <2>3, <2>4
<1>2. ASSUME NEW u \in Seq(Free(a)), NEW x \in Free(a), u \in P
      PROVE  Append(u, x) \in P
  <2>1. PICK c : Cut(c, u, Ended(u, a, b), a, b)
    BY <1>2
  <2> DEFINE t == Ended(u, a, b)
             v == Append(u, x)
  <2>2. Cut(c, u, t, a, b)
    BY <2>1
  <2>3. Ended(v, a, b) = t \o (x \o <<a, b>>)
    BY EndedMore, Zenon
  <2>4. v \in Seq(Free(a))
    BY AppendProperties
  <2> HIDE DEF t
  <2>5. PICK d : Cut(d, v, t \o (x \o <<a, b>>), a, b)
    BY <2>2, CutMore, Zenon
  <2> HIDE DEF v
  <2>6. v \in P
    BY <2>3, <2>4, <2>5, Zenon
  <2> QED BY <2>6 DEF v
<1>3. Seq(Free(a)) \subseteq P
  <2>1. \A u \in Seq(Free(a)) : \A x \in Free(a) : u \in P => Append(u, x) \in P
    BY <1>2, Zenon
  <2> HIDE DEF P
  <2> QED BY <1>1, <2>1, SeqInduction, Zenon
<1> QED BY <1>3

\* Where a pattern of two bytes is found.
LEMMA FindsTwo ==
    ASSUME NEW w \in Seq(Byte), NEW a, NEW b
    PROVE  Finds(w, <<a, b>>) = {i \in 1 .. Len(w) - 1 : w[i] = a /\ w[i + 1] = b}
<1>1. Len(<<a, b>>) = 2 /\ Len(w) - 2 + 1 = Len(w) - 1 /\ Len(w) \in Nat
  OBVIOUS
<1>2. ASSUME NEW i \in 1 .. Len(w) - 1
      PROVE  SubSeq(w, i, i + 2 - 1) = <<a, b>> <=> w[i] = a /\ w[i + 1] = b
  <2> DEFINE z == SubSeq(w, i, i + 1)
  <2>1. i + 2 - 1 = i + 1
    OBVIOUS
  <2>2. z = <<z[1], z[2]>> /\ z[1] = w[i] /\ z[2] = w[i + 1]
    <3>1. z \in Seq(Byte) /\ Len(z) = 2 /\ z[1] = w[i] /\ z[2] = w[i + 1]
      <4>1. i \in Nat /\ i >= 1 /\ i + 1 <= Len(w) /\ (i + 1) - i + 1 = 2
        OBVIOUS
      <4>2. z \in Seq(Byte) /\ Len(z) = 2
        BY <4>1
      <4>3. \A j \in 1 .. 2 : z[j] = w[(i + j) - 1]
        BY <4>1, <4>2
      <4>4. (i + 1) - 1 = i /\ (i + 2) - 1 = i + 1 /\ 1 \in 1 .. 2 /\ 2 \in 1 .. 2
        BY <4>1
      <4> HIDE DEF z
      <4>5. z[1] = w[(i + 1) - 1] /\ z[2] = w[(i + 2) - 1]
        BY <4>3, <4>4, Zenon
      <4> QED BY <4>2, <4>4, <4>5
    <3>2. \A y \in Seq(Byte) : Len(y) = 2 => y = <<y[1], y[2]>>
      OBVIOUS
    <3> QED BY <3>1, <3>2, Zenon
  <2> HIDE DEF z
  <2>3. <<z[1], z[2]>> = <<a, b>> <=> z[1] = a /\ z[2] = b
    OBVIOUS
  <2>4. z = <<a, b>> <=> w[i] = a /\ w[i + 1] = b
    BY <2>2, <2>3, Zenon
  <2> QED BY <2>1, <2>4 DEF z
<1> QED BY <1>1, <1>2, Zenon DEF Finds

\* What was joined is split again, at the separators and nowhere else.
LEMMA SplitsAgain ==
    ASSUME NEW a \in Byte, NEW b \in Byte, a # b, NEW names \in Seq(Free(a)), names # <<>>
    PROVE  LET v == Ended(names, a, b)
           IN  /\ v \in Seq(Byte) /\ Len(v) >= 2
               /\ Split(SubSeq(v, 1, Len(v) - 2), <<a, b>>) = names
<1> DEFINE v == Ended(names, a, b)
           q == Len(names)
           l == Len(v)
           w == SubSeq(v, 1, l - 2)
<1>1. PICK d : Cut(d, names, v, a, b)
  BY CutExists, Zenon
<1>2. q \in Nat /\ q # 0 /\ q \in 1 .. q /\ names = [k \in 1 .. q |-> names[k]]
  OBVIOUS
<1> HIDE DEF v
<1>3. /\ v \in Seq(Byte) /\ l \in Nat
      /\ \A k \in 1 .. q : /\ d[k] \in Nat \ {0} /\ d[k] + 1 <= l /\ v[d[k]] = a /\ v[d[k] + 1] = b
                           /\ names[k] = SubSeq(v, IF k = 1 THEN 1 ELSE d[k - 1] + 2, d[k] - 1)
      /\ \A k, j \in 1 .. q : k < j => d[k] < d[j]
      /\ \A i \in 1 .. l : v[i] = a => \E k \in 1 .. q : i = d[k]
      /\ l = d[q] + 1
  <2>1. v \in Seq(Byte)
    BY <1>1 DEF Cut
  <2>2. Len(v) \in Nat
    BY <2>1
  <2> QED BY <1>1, <1>2, <2>1, <2>2, Zenon DEF Cut
<1> HIDE DEF q, l
<1>4. d[q] \in Nat /\ d[q] >= 1 /\ l >= 2 /\ l - 2 = d[q] - 1
  <2>1. d[q] \in Nat \ {0} /\ l = d[q] + 1
    BY <1>2, <1>3, Zenon
  <2> QED BY <2>1
<1>5. w \in Seq(Byte) /\ Len(w) = d[q] - 1 /\ \A i \in 1 .. d[q] - 1 : w[i] = v[i]
  <2>1. \A z \in Seq(Byte) : \A h \in Nat : h <= Len(z) =>
           /\ SubSeq(z, 1, h) \in Seq(Byte) /\ Len(SubSeq(z, 1, h)) = h
           /\ \A i \in 1 .. h : SubSeq(z, 1, h)[i] = z[i]
    OBVIOUS
  <2>2. l - 2 \in Nat /\ l - 2 <= Len(v)
    BY <1>3, <1>4 DEF l
  <2>3. /\ w \in Seq(Byte) /\ Len(w) = l - 2 /\ \A i \in 1 .. l - 2 : w[i] = v[i]
    BY <1>3, <2>1, <2>2, Zenon
  <2> QED BY <1>4, <2>3
<1> HIDE DEF w
<1>6. ASSUME NEW k \in 1 .. q - 1
      PROVE  k \in 1 .. q /\ d[k] \in 1 .. d[q] - 2 /\ d[k] + 1 \in 1 .. d[q] - 1
  <2>1. k \in 1 .. q /\ k < q
    BY <1>2
  <2>2. d[k] \in Nat /\ d[k] # 0 /\ d[k] < d[q] /\ d[k] + 1 # d[q]
    <3>1. d[k] \in Nat \ {0} /\ d[k] < d[q] /\ v[d[k] + 1] = b /\ v[d[q]] = a
      BY <1>2, <1>3, <2>1, Zenon
    <3>2. d[k] + 1 # d[q]
      BY <3>1, Zenon
    <3> QED BY <3>1, <3>2
  <2> QED BY <1>4, <2>1, <2>2
<1>7. Finds(w, <<a, b>>) = {d[k] : k \in 1 .. q - 1}
  <2>1. Finds(w, <<a, b>>) = {i \in 1 .. d[q] - 2 : w[i] = a /\ w[i + 1] = b}
    <3>1. Len(w) - 1 = d[q] - 2
      BY <1>4, <1>5
    <3>2. Finds(w, <<a, b>>) = {i \in 1 .. Len(w) - 1 : w[i] = a /\ w[i + 1] = b}
      BY <1>5, FindsTwo
    <3> QED BY <3>1, <3>2, Zenon
  <2>2. ASSUME NEW k \in 1 .. q - 1
        PROVE  d[k] \in 1 .. d[q] - 2 /\ w[d[k]] = a /\ w[d[k] + 1] = b
    <3>1. k \in 1 .. q /\ d[k] \in 1 .. d[q] - 2 /\ d[k] + 1 \in 1 .. d[q] - 1
      BY <1>6
    <3>2. d[k] \in 1 .. d[q] - 1
      BY <1>4, <3>1
    <3> QED BY <1>3, <1>5, <3>1, <3>2, Zenon
  <2>3. ASSUME NEW i \in 1 .. d[q] - 2, w[i] = a
        PROVE  \E k \in 1 .. q - 1 : i = d[k]
    <3>1. i \in 1 .. d[q] - 1 /\ i \in 1 .. l /\ i < d[q] /\ i # d[q]
      <4>1. d[q] \in Nat /\ l = d[q] + 1
        BY <1>3, <1>4
      <4> QED BY <4>1
    <3>2. PICK k \in 1 .. q : i = d[k]
      BY <1>3, <1>5, <2>3, <3>1, Zenon
    <3>3. k # q
      BY <3>1, <3>2, Zenon
    <3>4. k \in 1 .. q - 1
      BY <1>2, <3>3
    <3> QED BY <3>2, <3>4
  <2> QED BY <2>1, <2>2, <2>3, Zenon
<1>8. q - 1 \in Nat
  BY <1>2
<1>9. Counts(d, q - 1, Finds(w, <<a, b>>))
  <2>1. \A k \in 1 .. q - 1 : k \in 1 .. q
    BY <1>6
  <2>2. \A k \in 1 .. q : d[k] \in Nat
    BY <1>3
  <2> QED BY <1>3, <1>7, <2>1, <2>2, Zenon DEF Counts
<1>10. Split(w, <<a, b>>) =
          [k \in 1 .. (q - 1) + 1 |->
              SubSeq(w, (IF k = 1 THEN 1 - Len(<<a, b>>) ELSE d[k - 1]) + Len(<<a, b>>),
                     (IF k = (q - 1) + 1 THEN Len(w) + 1 ELSE d[k]) - 1)]
  <2> DEFINE n == q - 1
  <2>1. n \in Nat /\ Counts(d, n, Finds(w, <<a, b>>))
    BY <1>8, <1>9
  <2> HIDE DEF n
  <2>2. Split(w, <<a, b>>) =
          [k \in 1 .. n + 1 |->
              SubSeq(w, (IF k = 1 THEN 1 - Len(<<a, b>>) ELSE d[k - 1]) + Len(<<a, b>>),
                     (IF k = n + 1 THEN Len(w) + 1 ELSE d[k]) - 1)]
    <3> DEFINE p == <<a, b>>
    <3>0. n \in Nat
      BY <2>1
    <3>1. Counts(d, n, Finds(w, p))
      BY <2>1
    <3> HIDE DEF p
    <3>2. Split(w, p) =
          [k \in 1 .. n + 1 |->
              SubSeq(w, (IF k = 1 THEN 1 - Len(p) ELSE d[k - 1]) + Len(p),
                     (IF k = n + 1 THEN Len(w) + 1 ELSE d[k]) - 1)]
      BY ONLY <3>0, <3>1, SplitAt
    <3> QED BY <3>2 DEF p
  <2> QED BY <2>2 DEF n
<1>11. ASSUME NEW k \in 1 .. q
       PROVE  SubSeq(w, (IF k = 1 THEN 1 - Len(<<a, b>>) ELSE d[k - 1]) + Len(<<a, b>>),
                     (IF k = (q - 1) + 1 THEN Len(w) + 1 ELSE d[k]) - 1) = names[k]
  <2> DEFINE from == IF k = 1 THEN 1 ELSE d[k - 1] + 2
             hi   == d[k] - 1
  <2>1. d[k] \in Nat /\ d[k] # 0 /\ names[k] = SubSeq(v, from, hi)
    <3>1. d[k] \in Nat \ {0}
      BY <1>3, Zenon
    <3>2. names[k] = SubSeq(v, from, hi)
      BY <1>3, Zenon
    <3> QED BY <3>1, <3>2
  <2>2. k # 1 => k - 1 \in 1 .. q /\ d[k - 1] \in Nat
    <3>1. k # 1 => k - 1 \in 1 .. q
      BY <1>2
    <3>2. \A j \in 1 .. q : d[j] \in Nat
      BY <1>3
    <3> QED BY <3>1, <3>2, Zenon
  <2>3. from \in Nat \ {0} /\ (IF k = 1 THEN 1 - Len(<<a, b>>) ELSE d[k - 1]) + Len(<<a, b>>) = from
    BY <2>2
  <2>4. (IF k = (q - 1) + 1 THEN Len(w) + 1 ELSE d[k]) - 1 = hi
    <3>1. (q - 1) + 1 = q /\ Len(w) + 1 = d[q]
      BY <1>2, <1>4, <1>5
    <3> QED BY <3>1
  <2>5. hi \in Nat /\ hi <= d[q] - 1 /\ hi <= Len(v)
    <3>1. k = q \/ k < q
      BY <1>2
    <3>2. d[k] <= d[q]
      <4>1. k < q => d[k] < d[q]
        BY <1>2, <1>3, Zenon
      <4> QED BY <1>4, <2>1, <3>1, <4>1
    <3>3. Len(v) = d[q] + 1
      BY <1>3 DEF l
    <3> QED BY <1>4, <2>1, <3>2, <3>3
  <2> HIDE DEF from, hi
  <2>6. \A i \in from .. hi : w[i] = v[i]
    <3>1. \A i \in from .. hi : i \in 1 .. d[q] - 1
      BY <1>4, <2>3, <2>5
    <3> QED BY <1>5, <3>1, Zenon
  <2>7. SubSeq(w, from, hi) = SubSeq(v, from, hi)
    <3>1. hi <= Len(w)
      BY <1>5, <2>5, Zenon
    <3>2. v \in Seq(Byte) /\ w \in Seq(Byte) /\ from \in Nat \ {0} /\ hi \in Nat /\ hi <= Len(v)
      BY <1>3, <1>5, <2>3, <2>5, Zenon
    <3> QED BY ONLY <2>6, <3>1, <3>2, SamePiece
  <2> QED BY <2>1, <2>3, <2>4, <2>7, Zenon
<1>12. Split(w, <<a, b>>) = names
  <2>1. (q - 1) + 1 = q
    BY <1>2
  <2>2. [k \in 1 .. (q - 1) + 1 |->
              SubSeq(w, (IF k = 1 THEN 1 - Len(<<a, b>>) ELSE d[k - 1]) + Len(<<a, b>>),
                     (IF k = (q - 1) + 1 THEN Len(w) + 1 ELSE d[k]) - 1)] = [k \in 1 .. q |-> names[k]]
    BY <1>11, <2>1
  <2> QED BY <1>2, <1>10, <2>2, Zenon
<1>13. v \in Seq(Byte) /\ Len(v) >= 2
  BY <1>3, <1>4 DEF l
<1> QED BY <1>12, <1>13 DEF w, v, l

\* A piece that is not empty begins and ends where it was cut.
LEMMA PieceEdges ==
    ASSUME NEW s \in Seq(Byte), NEW u \in Nat \ {0}, NEW h \in Nat, h <= Len(s),
           NEW y, y = SubSeq(s, u, h), Len(y) # 0
    PROVE  /\ u <= h /\ y \in Seq(Byte) /\ Len(y) = (h - u) + 1
           /\ y[1] = s[u] /\ y[Len(y)] = s[h]
<1>1. u <= h
  OBVIOUS
<1>2. y \in Seq(Byte) /\ Len(y) = (h - u) + 1 /\ \A i \in 1 .. (h - u) + 1 : y[i] = s[(u + i) - 1]
  BY <1>1
<1>3. 1 \in 1 .. (h - u) + 1 /\ (h - u) + 1 \in 1 .. (h - u) + 1 /\ (u + 1) - 1 = u /\ (u + ((h - u) + 1)) - 1 = h
  BY <1>1
<1>4. y[1] = s[(u + 1) - 1] /\ y[(h - u) + 1] = s[(u + ((h - u) + 1)) - 1]
  BY <1>2, <1>3, Zenon
<1>5. y[1] = s[u] /\ y[(h - u) + 1] = s[h]
  BY <1>3, <1>4, Zenon
<1> QED BY <1>1, <1>2, <1>5, Zenon

\* What was joined begins and ends as its texts do.
LEMMA JoinedEdges ==
    ASSUME NEW a \in Byte, NEW b \in Byte, a # b, NEW names \in Seq(Free(a)), names # <<>>,
           \A i \in 1 .. Len(names) : names[i] # <<>>
    PROVE  LET v == Ended(names, a, b)
               j == SubSeq(v, 1, Len(v) - 2)
               z == names[Len(names)]
           IN  /\ j \in Seq(Byte) /\ j # <<>> /\ 1 \in 1 .. Len(names) /\ Len(names) \in 1 .. Len(names)
               /\ Len(z) \in 1 .. Len(z) /\ 1 \in 1 .. Len(names[1])
               /\ j[1] = names[1][1] /\ j[Len(j)] = z[Len(z)]
<1> DEFINE v == Ended(names, a, b)
           q == Len(names)
           l == Len(v)
           j == SubSeq(v, 1, l - 2)
           z == names[q]
           f == names[1]
<1>1. PICK d : Cut(d, names, v, a, b)
  BY CutExists, Zenon
<1>2. q \in Nat /\ q # 0 /\ q \in 1 .. q /\ 1 \in 1 .. q
  OBVIOUS
<1>3. \A x \in Free(a) : x # <<>> => Len(x) \in Nat /\ Len(x) # 0 /\ Len(x) \in 1 .. Len(x) /\ 1 \in 1 .. Len(x)
  <2>1. \A x \in Seq(Byte \ {a}) : x # <<>> => Len(x) \in Nat /\ Len(x) # 0
    OBVIOUS
  <2>2. \A n \in Nat : n # 0 => n \in 1 .. n /\ 1 \in 1 .. n
    OBVIOUS
  <2> QED BY <2>1, <2>2, Zenon DEF Free
<1>4. /\ Len(z) \in Nat /\ Len(z) # 0 /\ Len(z) \in 1 .. Len(z)
      /\ Len(f) \in Nat /\ Len(f) # 0 /\ 1 \in 1 .. Len(f)
  <2>1. z \in Free(a) /\ f \in Free(a) /\ z # <<>> /\ f # <<>>
    BY <1>2
  <2> QED BY <1>3, <2>1, Zenon
<1> HIDE DEF v
<1>5. /\ v \in Seq(Byte) /\ l \in Nat
      /\ \A k \in 1 .. q : /\ d[k] \in Nat \ {0} /\ d[k] + 1 <= l
                           /\ names[k] = SubSeq(v, IF k = 1 THEN 1 ELSE d[k - 1] + 2, d[k] - 1)
      /\ \A k, m \in 1 .. q : k < m => d[k] < d[m]
      /\ l = d[q] + 1
  <2>1. v \in Seq(Byte)
    BY <1>1 DEF Cut
  <2>2. Len(v) \in Nat
    BY <2>1
  <2> QED BY <1>1, <1>2, <2>1, <2>2, Zenon DEF Cut
<1>6. /\ d[1] \in Nat \ {0} /\ d[1] + 1 <= l /\ d[q] \in Nat \ {0}
      /\ f = SubSeq(v, 1, d[1] - 1)
      /\ z = SubSeq(v, IF q = 1 THEN 1 ELSE d[q - 1] + 2, d[q] - 1)
      /\ l = d[q] + 1
  BY <1>2, <1>5, Zenon
<1> HIDE DEF q
<1> DEFINE from == IF q = 1 THEN 1 ELSE d[q - 1] + 2
<1>7. from \in Nat \ {0}
  <2>1. q # 1 => q - 1 \in 1 .. q
    BY <1>2
  <2>2. q # 1 => d[q - 1] \in Nat
    BY <1>5, <2>1
  <2> QED BY <2>2
<1> HIDE DEF q, l, z, f, from
<1>8. d[1] <= d[q]
  <2>1. 1 = q \/ 1 < q
    BY <1>2
  <2>2. 1 < q => d[1] < d[q]
    BY <1>2, <1>5, Zenon
  <2> QED BY <1>6, <2>1, <2>2
<1>9. d[1] - 1 \in Nat /\ d[q] - 1 \in Nat /\ d[1] - 1 <= Len(v) /\ d[q] - 1 <= Len(v) /\ l - 2 = d[q] - 1
  BY <1>5, <1>6, <1>8 DEF l
<1>10. v[1] = f[1] /\ 1 <= d[1] - 1
  <2> DEFINE h == d[1] - 1
             u == 1
  <2>1. v \in Seq(Byte) /\ u \in Nat \ {0} /\ h \in Nat /\ h <= Len(v) /\ f = SubSeq(v, u, h) /\ Len(f) # 0
    <3>1. u \in Nat \ {0}
      OBVIOUS
    <3> QED BY <1>4, <1>5, <1>6, <1>9, <3>1, Zenon
  <2> HIDE DEF h, u
  <2>2. u <= h /\ f[1] = v[u]
    BY ONLY <2>1, PieceEdges
  <2> QED BY <2>2 DEF h, u
<1>11. v[d[q] - 1] = z[Len(z)]
  <2> DEFINE h == d[q] - 1
  <2>1. /\ v \in Seq(Byte) /\ from \in Nat \ {0} /\ h \in Nat /\ h <= Len(v)
        /\ z = SubSeq(v, from, h) /\ Len(z) # 0
    BY <1>4, <1>5, <1>6, <1>7, <1>9, Zenon DEF from
  <2> HIDE DEF h
  <2>2. z[Len(z)] = v[h]
    BY ONLY <2>1, PieceEdges
  <2> QED BY <2>2 DEF h
<1>12. 1 <= d[q] - 1
  BY <1>6, <1>8, <1>10
<1>13. /\ j \in Seq(Byte) /\ Len(j) = d[q] - 1 /\ j[1] = v[1] /\ j[d[q] - 1] = v[d[q] - 1]
  <2> DEFINE h == d[q] - 1
  <2>1. h \in Nat /\ 1 <= h /\ h <= Len(v) /\ v \in Seq(Byte) /\ j = SubSeq(v, 1, h)
    BY <1>5, <1>9, <1>12, Zenon
  <2> HIDE DEF h, j
  <2>2. j \in Seq(Byte) /\ Len(j) = h /\ j[1] = v[1] /\ j[h] = v[h]
    BY ONLY <2>1
  <2> QED BY <2>2 DEF h
<1> HIDE DEF j
<1>14. j # <<>>
  <2>1. Len(<<>>) = 0
    OBVIOUS
  <2> QED BY <1>12, <1>13, <2>1
<1>15. j[1] = f[1] /\ j[Len(j)] = z[Len(z)]
  BY <1>10, <1>11, <1>13, Zenon
<1> QED BY <1>2, <1>4, <1>13, <1>14, <1>15, Zenon DEF j, v, q, l, z, f

\* Nothing is trimmed off a text but the space before it.
LEMMA Untrimmed ==
    ASSUME NEW j \in Seq(Byte), j # <<>>, j[1] \notin White, j[Len(j)] \notin White
    PROVE  trim(<<SP>> \o j) = j
<1> DEFINE t    == <<SP>> \o j
           n    == Len(j)
           kept == {i \in DOMAIN t : t[i] \notin White}
<1>1. n \in Nat /\ n # 0
  OBVIOUS
<1>2. t \in Seq(Byte) /\ Len(t) = 1 + n /\ t[1] = SP /\ \A i \in 1 .. n : t[1 + i] = j[i]
  <2> DEFINE h == <<SP>>
  <2>1. h \in Seq(Byte) /\ Len(h) = 1 /\ h[1] = SP
    BY DEF SP, Byte
  <2> HIDE DEF h
  <2>2. /\ h \o j \in Seq(Byte) /\ Len(h \o j) = Len(h) + Len(j)
        /\ \A i \in 1 .. Len(h) : (h \o j)[i] = h[i]
        /\ \A i \in 1 .. Len(j) : (h \o j)[Len(h) + i] = j[i]
    BY <2>1, OneAfterAnother, Zenon
  <2>3. 1 \in 1 .. Len(h)
    BY <2>1
  <2>4. t = h \o j
    BY DEF h
  <2> QED BY <2>1, <2>2, <2>3, <2>4, Zenon
<1>3. trim(t) = IF kept = {} THEN <<>> ELSE SubSeq(t, Min(kept), Max(kept))
  BY DEF trim
<1> HIDE DEF t, n
<1>4. DOMAIN t = 1 .. n + 1
  BY <1>1, <1>2
<1>5. t[2] = j[1] /\ t[n + 1] = j[n]
  <2>1. 1 + 1 = 2 /\ 1 + n = n + 1 /\ 1 \in 1 .. n /\ n \in 1 .. n
    BY <1>1
  <2>2. t[1 + 1] = j[1] /\ t[1 + n] = j[n]
    BY <1>2, <2>1, Zenon
  <2> QED BY <2>1, <2>2, Zenon
<1>6. 2 \in kept /\ n + 1 \in kept /\ \A i \in kept : 2 <= i /\ i <= n + 1 /\ i \in Nat
  <2>1. 2 \in 1 .. n + 1 /\ n + 1 \in 1 .. n + 1
    BY <1>1
  <2>2. 2 \in kept /\ n + 1 \in kept
    BY <1>4, <1>5, <2>1, Zenon DEF n
  <2>3. \A i \in 1 .. n + 1 : i # 1 => 2 <= i /\ i <= n + 1 /\ i \in Nat
    BY <1>1
  <2>4. 1 \notin kept
    BY <1>2 DEF White
  <2>5. \A i \in kept : i \in 1 .. n + 1
    BY <1>4
  <2> QED BY <2>2, <2>3, <2>4, <2>5, Zenon
<1> HIDE DEF kept
<1>7. Min(kept) = 2
  <2>1. \A x \in kept : (\A y \in kept : x <= y) => x = 2
    BY <1>6
  <2> QED BY <1>6, <2>1, Zenon DEF Min
<1>8. Max(kept) = n + 1
  <2>1. \A x \in kept : (\A y \in kept : x >= y) => x = n + 1
    BY <1>1, <1>6
  <2>2. \A y \in kept : n + 1 >= y
    BY <1>1, <1>6
  <2> QED BY <1>6, <2>1, <2>2 DEF Max
<1>9. SubSeq(t, 2, n + 1) = j
  <2> DEFINE u == SubSeq(t, 2, n + 1)
  <2>1. u \in Seq(Byte) /\ Len(u) = n /\ \A i \in 1 .. n : u[i] = t[1 + i]
    <3>1. n + 1 <= Len(t) /\ n + 1 \in Nat
      BY <1>1, <1>2
    <3>2. u \in Seq(Byte) /\ Len(u) = n
      BY <1>1, <1>2, <3>1
    <3>3. \A i \in 1 .. n : u[i] = t[(2 + i) - 1]
      BY <1>1, <1>2, <3>1
    <3>4. \A i \in 1 .. n : (2 + i) - 1 = 1 + i
      BY <1>1
    <3> HIDE DEF u
    <3> QED BY <3>2, <3>3, <3>4, Zenon
  <2> HIDE DEF u
  <2>2. \A i \in 1 .. n : u[i] = j[i]
    BY <1>2, <2>1, Zenon
  <2>3. u = j
    <3>1. n = Len(j)
      BY DEF n
    <3> QED BY <2>1, <2>2, <3>1, SeqEqual
  <2> QED BY <2>3 DEF u
<1> QED BY <1>3, <1>6, <1>7, <1>8, <1>9 DEF t

\* The value of a header whose name is one byte, and its value as it was written.
LEMMA ValueAgain ==
    ASSUME NEW p \in Byte \ {COLON}, NEW j \in Seq(Byte), j # <<>>,
           j[1] \notin White, j[Len(j)] \notin White
    PROVE  LET line == (<<p>> \o <<COLON, SP>>) \o j
           IN  line \in Seq(Byte) /\ SubSeq(line, 1, 1) = <<p>> /\ ValueOf(line) = j
<1> DEFINE h    == <<p>> \o <<COLON, SP>>
           line == h \o j
           n    == Len(j)
           s    == <<SP>>
<1>1. h \in Seq(Byte) /\ Len(h) = 3 /\ h[1] = p /\ h[2] = COLON /\ h[3] = SP
  <2> DEFINE x == <<p>>
             y == <<COLON, SP>>
  <2>1. x \in Seq(Byte) /\ Len(x) = 1 /\ x[1] = p
    OBVIOUS
  <2>2. y \in Seq(Byte) /\ Len(y) = 2 /\ y[1] = COLON /\ y[2] = SP
    BY DEF COLON, SP, Byte
  <2> HIDE DEF x, y
  <2>3. /\ x \o y \in Seq(Byte) /\ Len(x \o y) = Len(x) + Len(y)
        /\ \A i \in 1 .. Len(x) : (x \o y)[i] = x[i]
        /\ \A i \in 1 .. Len(y) : (x \o y)[Len(x) + i] = y[i]
    BY <2>1, <2>2, OneAfterAnother, Zenon
  <2>4. 1 \in 1 .. Len(x) /\ 1 \in 1 .. Len(y) /\ 2 \in 1 .. Len(y) /\ Len(x) + 1 = 2 /\ Len(x) + 2 = 3
        /\ Len(x) + Len(y) = 3
    BY <2>1, <2>2
  <2>5. (x \o y)[1] = x[1] /\ (x \o y)[Len(x) + 1] = y[1] /\ (x \o y)[Len(x) + 2] = y[2]
    BY <2>3, <2>4, Zenon
  <2>6. h = x \o y
    BY DEF x, y
  <2> QED BY <2>1, <2>2, <2>3, <2>4, <2>5, <2>6, Zenon
<1> HIDE DEF h
<1>2. /\ line \in Seq(Byte) /\ Len(line) = 3 + n /\ n \in Nat
      /\ line[1] = p /\ line[2] = COLON /\ line[3] = SP
      /\ \A i \in 1 .. n : line[3 + i] = j[i]
  <2>1. /\ h \o j \in Seq(Byte) /\ Len(h \o j) = Len(h) + Len(j)
        /\ \A i \in 1 .. Len(h) : (h \o j)[i] = h[i]
        /\ \A i \in 1 .. Len(j) : (h \o j)[Len(h) + i] = j[i]
    BY <1>1, OneAfterAnother, Zenon
  <2>2. 1 \in 1 .. Len(h) /\ 2 \in 1 .. Len(h) /\ 3 \in 1 .. Len(h) /\ Len(j) \in Nat
    BY <1>1
  <2> QED BY <1>1, <2>1, <2>2, Zenon
<1> HIDE DEF line, n
<1>3. \A i \in 1 .. 3 + n : SubSeq(line, i, i) = <<line[i]>>
  <2> TAKE i \in 1 .. 3 + n
  <2> DEFINE y == SubSeq(line, i, i)
  <2>1. y \in Seq(Byte) /\ Len(y) = 1 /\ y[1] = line[i]
    BY <1>2
  <2> HIDE DEF y
  <2>2. y = <<y[1]>>
    BY <2>1
  <2> QED BY <2>1, <2>2, Zenon DEF y
<1>4. \A i \in Finds(line, <<COLON>>) : i \in 1 .. 3 + n /\ line[i] = COLON
  <2> TAKE i \in Finds(line, <<COLON>>)
  <2>1. i \in 1 .. Len(line) - Len(<<COLON>>) + 1 /\ SubSeq(line, i, i + Len(<<COLON>>) - 1) = <<COLON>>
    BY DEF Finds
  <2>2. Len(<<COLON>>) = 1
    OBVIOUS
  <2>3. i \in 1 .. 3 + n /\ i + Len(<<COLON>>) - 1 = i
    BY <1>2, <2>1, <2>2
  <2>4. <<line[i]>> = <<COLON>>
    BY <1>3, <2>1, <2>3
  <2>5. <<line[i]>>[1] = line[i] /\ <<COLON>>[1] = COLON
    OBVIOUS
  <2> QED BY <2>3, <2>4, <2>5, Zenon
<1>5. 2 \in Finds(line, <<COLON>>)
  <2>1. Len(<<COLON>>) = 1 /\ 2 + 1 - 1 = 2
    OBVIOUS
  <2>2. 2 \in 1 .. Len(line) - 1 + 1 /\ 2 \in 1 .. 3 + n
    BY <1>2
  <2>3. SubSeq(line, 2, 2) = <<COLON>>
    BY <1>2, <1>3, <2>2
  <2> QED BY <2>1, <2>2, <2>3, Zenon DEF Finds
<1>6. Min(Finds(line, <<COLON>>)) = 2
  <2> DEFINE F == Finds(line, <<COLON>>)
  <2>1. \A i \in F : i \in Nat /\ 2 <= i
    <3> TAKE i \in F
    <3>1. i \in 1 .. 3 + n /\ line[i] = COLON
      BY <1>4
    <3>2. i # 1
      BY <1>2, <3>1
    <3> QED BY <1>2, <3>1, <3>2
  <2>2. 2 \in F
    BY <1>5
  <2> HIDE DEF F
  <2>3. \A x \in F : (\A y \in F : x <= y) => x = 2
    BY <2>1, <2>2
  <2>4. Min(F) = 2
    BY <2>1, <2>2, <2>3, Zenon DEF Min
  <2> QED BY <2>4 DEF F
<1>7. s \in Seq(Byte) /\ Len(s) = 1 /\ s[1] = SP
  BY DEF SP, Byte
<1> HIDE DEF s
<1>8. SubSeq(line, 2 + 1, Len(line)) = s \o j
  <2> DEFINE u == SubSeq(line, 3, 3 + n)
             v == s \o j
  <2>1. u \in Seq(Byte) /\ Len(u) = 1 + n /\ \A i \in 1 .. 1 + n : u[i] = line[2 + i]
    <3>1. u \in Seq(Byte) /\ Len(u) = 1 + n
      BY <1>2
    <3>2. \A i \in 1 .. 1 + n : u[i] = line[(3 + i) - 1]
      BY <1>2
    <3>3. \A i \in 1 .. 1 + n : (3 + i) - 1 = 2 + i
      BY <1>2
    <3> HIDE DEF u
    <3> QED BY <3>1, <3>2, <3>3, Zenon
  <2>2. /\ v \in Seq(Byte) /\ Len(v) = 1 + n /\ v[1] = SP /\ \A i \in 1 .. n : v[1 + i] = j[i]
    <3>1. /\ s \o j \in Seq(Byte) /\ Len(s \o j) = Len(s) + Len(j)
          /\ \A i \in 1 .. Len(s) : (s \o j)[i] = s[i]
          /\ \A i \in 1 .. Len(j) : (s \o j)[Len(s) + i] = j[i]
      BY <1>7, OneAfterAnother, Zenon
    <3>2. 1 \in 1 .. Len(s)
      BY <1>7
    <3> QED BY <1>7, <3>1, <3>2, Zenon DEF n
  <2> HIDE DEF u, v
  <2>3. \A i \in 1 .. 1 + n : u[i] = v[i]
    <3> TAKE i \in 1 .. 1 + n
    <3>1. CASE i = 1
      <4>1. u[1] = line[2 + 1] /\ 2 + 1 = 3
        BY <2>1, <3>1
      <4> QED BY <1>2, <2>2, <3>1, <4>1
    <3>2. CASE i # 1
      <4>1. i - 1 \in 1 .. n /\ 1 + (i - 1) = i /\ 3 + (i - 1) = 2 + i
        BY <1>2, <3>2
      <4>2. v[i] = j[i - 1] /\ line[2 + i] = j[i - 1]
        BY <1>2, <2>2, <4>1
      <4> QED BY <2>1, <4>2
    <3> QED BY <3>1, <3>2
  <2>4. u = v
    BY <2>1, <2>2, <2>3, SeqEqual
  <2>5. 2 + 1 = 3 /\ Len(line) = 3 + n
    BY <1>2
  <2> QED BY <2>4, <2>5, Zenon DEF u, v
<1>9. trim(s \o j) = j
  BY Untrimmed DEF s
<1>10. ValueOf(line) = j
  BY <1>6, <1>8, <1>9, Zenon DEF ValueOf
<1>11. SubSeq(line, 1, 1) = <<p>>
  <2>1. 1 \in 1 .. 3 + n
    BY <1>2
  <2> QED BY <1>2, <1>3, <2>1
<1> QED BY <1>2, <1>10, <1>11 DEF line, h

\* The protocols that the program may offer: tokens, each in one line.
Offerings == {names \in Seq(Seq(Byte \ {13, 10})) :
                 /\ names # <<>>
                 /\ \A i \in 1 .. Len(names) : /\ names[i] # <<>>
                                               /\ \A k \in 1 .. Len(names[i]) : names[i][k] \notin White \cup {COMMA}}

\* Split again, the header of the protocols names them.
LEMMA ProtocolsAgain ==
    ASSUME NEW names \in Offerings
    PROVE  LET line == (PROTOCOL \o <<COLON, SP>>) \o Joined(names)
           IN  SubSeq(line, 1, 1) = PROTOCOL /\ Split(ValueOf(line), <<COMMA, SP>>) = names
<1>1. COMMA \in Byte /\ SP \in Byte /\ COMMA # SP
  BY DEF COMMA, SP, Byte
<1>2. /\ names \in Seq(Free(COMMA)) /\ names # <<>>
      /\ \A i \in 1 .. Len(names) :
            /\ names[i] # <<>>
            /\ \A k \in 1 .. Len(names[i]) : names[i][k] \notin White
  <2>1. /\ names \in Seq(Seq(Byte \ {13, 10})) /\ names # <<>>
        /\ \A i \in 1 .. Len(names) : /\ names[i] # <<>>
                                      /\ \A k \in 1 .. Len(names[i]) : names[i][k] \notin White \cup {COMMA}
    BY DEF Offerings
  <2>2. ASSUME NEW i \in 1 .. Len(names)
        PROVE  /\ names[i] \in Free(COMMA)
               /\ \A k \in 1 .. Len(names[i]) : names[i][k] \notin White
    <3> DEFINE x == names[i]
    <3>1. x \in Seq(Byte \ {13, 10}) /\ \A k \in 1 .. Len(x) : x[k] \notin White \cup {COMMA}
      BY <2>1
    <3> HIDE DEF x
    <3>2. \A k \in 1 .. Len(x) : x[k] \in Byte \ {13, 10}
      BY <3>1
    <3>3. \A k \in 1 .. Len(x) : x[k] \in Byte \ {COMMA} /\ x[k] \notin White
      BY <3>1, <3>2
    <3>4. Len(x) \in Nat /\ x = [k \in 1 .. Len(x) |-> x[k]]
      BY <3>1
    <3>5. x \in Seq(Byte \ {COMMA})
      BY <3>3, <3>4
    <3> QED BY <3>3, <3>5 DEF x, Free
  <2>3. Len(names) \in Nat /\ names = [i \in 1 .. Len(names) |-> names[i]]
    BY <2>1
  <2>4. names \in Seq(Free(COMMA))
    BY <2>2, <2>3
  <2> QED BY <2>1, <2>2, <2>4
<1> DEFINE v == Ended(names, COMMA, SP)
           j == Joined(names)
<1>3. j = SubSeq(v, 1, Len(v) - 2)
  BY Zenon DEF Joined, Ended
<1>4. Split(j, <<COMMA, SP>>) = names
  <2>1. Split(SubSeq(v, 1, Len(v) - 2), <<COMMA, SP>>) = names
    BY <1>1, <1>2, SplitsAgain, Zenon
  <2> QED BY <1>3, <2>1, Zenon
<1>5. j \in Seq(Byte) /\ j # <<>> /\ j[1] \notin White /\ j[Len(j)] \notin White
  <2> DEFINE w == SubSeq(v, 1, Len(v) - 2)
             z == names[Len(names)]
  <2>1. /\ w \in Seq(Byte) /\ w # <<>> /\ 1 \in 1 .. Len(names) /\ Len(names) \in 1 .. Len(names)
        /\ Len(z) \in 1 .. Len(z) /\ 1 \in 1 .. Len(names[1])
        /\ w[1] = names[1][1] /\ w[Len(w)] = z[Len(z)]
    <3>1. \A i \in 1 .. Len(names) : names[i] # <<>>
      BY <1>2, Zenon
    <3> DEFINE a == COMMA
               b == SP
    <3>2. a \in Byte /\ b \in Byte /\ a # b /\ names \in Seq(Free(a)) /\ names # <<>>
      BY <1>1, <1>2, Zenon
    <3>3. v = Ended(names, a, b)
      BY Zenon
    <3> HIDE DEF a, b, v, w, z
    <3>4. LET u == Ended(names, a, b)
              h == SubSeq(u, 1, Len(u) - 2)
              x == names[Len(names)]
          IN  /\ h \in Seq(Byte) /\ h # <<>> /\ 1 \in 1 .. Len(names) /\ Len(names) \in 1 .. Len(names)
              /\ Len(x) \in 1 .. Len(x) /\ 1 \in 1 .. Len(names[1])
              /\ h[1] = names[1][1] /\ h[Len(h)] = x[Len(x)]
      BY ONLY <3>1, <3>2, JoinedEdges, ZenonT(60)
    <3> QED BY <3>3, <3>4, Zenon DEF w, z
  <2>2. j = w
    BY <1>3
  <2> HIDE DEF w, j
  <2>3. names[1][1] \notin White /\ z[Len(z)] \notin White
    BY <1>2, <2>1, Zenon
  <2> QED BY <2>1, <2>2, <2>3, Zenon
<1> HIDE DEF j, v
<1> DEFINE p == 80
           line == (<<p>> \o <<COLON, SP>>) \o j
<1>6. p \in Byte \ {COLON}
  BY DEF Byte, COLON
<1> HIDE DEF p
<1>7. SubSeq(line, 1, 1) = <<p>> /\ ValueOf(line) = j
  BY <1>5, <1>6, ValueAgain, Zenon
<1>8. PROTOCOL = <<p>>
  BY DEF PROTOCOL, p
<1> QED BY <1>4, <1>7, <1>8, Zenon DEF j
=============================================================================
