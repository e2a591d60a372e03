--------------------------- MODULE SequenceFacts ----------------------------
(***************************************************************************)
(* Facts about sequences the proofs of several modules rest on: what is in *)
(* one after an append, a removal, a join, a cut or a filter, and the      *)
(* induction the last of them takes; and what is computed by a walk of a   *)
(* tree whose items are in a sequence, each after the one it is in.        *)
(***************************************************************************)
EXTENDS Naturals, Sequences, SequencesExt, FilteredSequences, SequenceTheorems, WellFoundedInduction, TLAPS

LEMMA EmptyToSet == ToSet(<<>>) = {} /\ IsInjective(<<>>)
BY DEF ToSet, IsInjective

(* What joins and leaves a queue.                                          *)
LEMMA Appended ==
  ASSUME NEW S, NEW s \in Seq(S), NEW e \in S
  PROVE  /\ Append(s, e) \in Seq(S) /\ Append(s, e) # <<>>
         /\ Len(s) \in Nat /\ Len(Append(s, e)) = Len(s) + 1
         /\ ToSet(Append(s, e)) = ToSet(s) \union {e}
         /\ Append(s, e)[Len(s) + 1] = e /\ \A i \in 1..Len(s) : Append(s, e)[i] = s[i]
         /\ \A i \in 1..Len(Append(s, e)) : Append(s, e)[i] = IF i = Len(s) + 1 THEN e ELSE s[i]
         /\ IsInjective(s) /\ e \notin ToSet(s) => IsInjective(Append(s, e))
<1> DEFINE t == Append(s, e)
<1>1. /\ t \in Seq(S) /\ t # <<>> /\ Len(s) \in Nat /\ Len(t) = Len(s) + 1
      /\ DOMAIN t = 1..Len(t) /\ DOMAIN s = 1..Len(s)
      /\ \A i \in 1..Len(s) : t[i] = s[i]
      /\ t[Len(s) + 1] = e
  BY AppendProperties, LenProperties
<1> HIDE DEF t
<1>2. \A i \in DOMAIN t : i = Len(s) + 1 \/ i \in 1..Len(s)
  BY <1>1
<1>3. ToSet(t) = ToSet(s) \union {e}
  BY <1>1 DEF ToSet
<1>4. IsInjective(s) /\ e \notin ToSet(s) => IsInjective(t)
  BY <1>1, <1>2 DEF ToSet, IsInjective
<1> QED
  BY <1>1, <1>3, <1>4 DEF t

LEMMA Taken ==
  ASSUME NEW S, NEW s \in Seq(S), s # <<>>
  PROVE  /\ Head(s) \in S /\ Head(s) \in ToSet(s) /\ Tail(s) \in Seq(S)
         /\ Len(s) \in Nat /\ Len(Tail(s)) = Len(s) - 1
         /\ Head(s) = s[1] /\ 1 \in 1..Len(s)
         /\ \A i \in 1..Len(Tail(s)) : i + 1 \in 1..Len(s) /\ Tail(s)[i] = s[i + 1]
         /\ ToSet(s) = ToSet(Tail(s)) \union {Head(s)}
<1> DEFINE t == Tail(s)
<1>1. /\ Head(s) \in S /\ t \in Seq(S)
      /\ Len(s) \in Nat /\ Len(s) > 0 /\ Len(t) = Len(s) - 1
      /\ DOMAIN t = 1..Len(t) /\ DOMAIN s = 1..Len(s)
      /\ \A i \in 1..Len(t) : t[i] = s[i + 1]
  BY HeadTailProperties, LenProperties, EmptySeq
<1>2. Head(s) = s[1]
  OBVIOUS
<1> HIDE DEF t
<1>3. \A i \in 1..Len(s) : i = 1 \/ (i - 1 \in 1..Len(t) /\ s[i] = t[i - 1])
  BY <1>1
<1>4. \A i \in 1..Len(t) : i + 1 \in 1..Len(s) /\ t[i] = s[i + 1]
  BY <1>1
<1>5. ToSet(s) \subseteq ToSet(t) \union {Head(s)}
  BY <1>1, <1>2, <1>3 DEF ToSet
<1>6. ToSet(t) \union {Head(s)} \subseteq ToSet(s)
  BY <1>1, <1>2, <1>4 DEF ToSet
<1> QED
  BY <1>1, <1>2, <1>4, <1>5, <1>6 DEF t

(* The end of a sequence from a place on.                                  *)
LEMMA Suffix ==
  ASSUME NEW S, NEW s \in Seq(S), NEW k \in 1..Len(s) + 1
  PROVE  LET t == SubSeq(s, k, Len(s))
         IN  /\ t \in Seq(S) /\ Len(t) = Len(s) - k + 1 /\ Len(t) \in Nat
             /\ ToSet(t) \subseteq ToSet(s) /\ (IsInjective(s) => IsInjective(t))
             /\ \A i \in k..Len(s) : s[i] \in ToSet(t)
<1> DEFINE t == SubSeq(s, k, Len(s))
<1>1. Len(s) \in Nat /\ DOMAIN s = 1..Len(s) /\ (k <= Len(s) \/ k = Len(s) + 1)
  BY LenProperties
<1>2. \A i \in k..Len(s) : s[i] \in S
  BY <1>1, ElementOfSeq
<1>3. t = [i \in 1..(Len(s) - k + 1) |-> s[i + k - 1]]
  BY <1>1, SubSeqProperties
<1>4. t \in Seq(S) /\ Len(t) = Len(s) - k + 1
  BY <1>1, <1>2, SubSeqProperties
<1>5. DOMAIN t = 1..(Len(s) - k + 1) /\ \A i \in DOMAIN t : t[i] = s[i + k - 1] /\ i + k - 1 \in DOMAIN s
  BY <1>1, <1>3
<1> HIDE DEF t
<1>6. ToSet(t) \subseteq ToSet(s) /\ (IsInjective(s) => IsInjective(t))
  BY <1>1, <1>5 DEF ToSet, IsInjective
<1>7. ASSUME NEW i \in k..Len(s) PROVE s[i] \in ToSet(t)
  <2>1. i - k + 1 \in DOMAIN t
    BY <1>1, <1>5
  <2>2. t[i - k + 1] = s[i]
    BY <1>1, <1>5, <2>1
  <2> QED
    BY <2>1, <2>2 DEF ToSet
<1> QED
  BY <1>1, <1>4, <1>6, <1>7 DEF t

LEMMA Joined ==
  ASSUME NEW S, NEW s \in Seq(S), NEW u \in Seq(S)
  PROVE  /\ s \o u \in Seq(S) /\ ToSet(s \o u) = ToSet(s) \union ToSet(u)
         /\ IsInjective(s) /\ IsInjective(u) /\ ToSet(s) \intersect ToSet(u) = {} => IsInjective(s \o u)
<1> DEFINE t == s \o u
<1>1. /\ t \in Seq(S) /\ Len(s) \in Nat /\ Len(u) \in Nat /\ Len(t) = Len(s) + Len(u)
      /\ DOMAIN t = 1..Len(s) + Len(u) /\ DOMAIN s = 1..Len(s) /\ DOMAIN u = 1..Len(u)
      /\ \A i \in 1..Len(s) + Len(u) : t[i] = IF i <= Len(s) THEN s[i] ELSE u[i - Len(s)]
  BY ConcatProperties, LenProperties
<1> HIDE DEF t
<1>2. \A i \in DOMAIN t : \/ i \in DOMAIN s /\ t[i] = s[i]
                          \/ i > Len(s) /\ i - Len(s) \in DOMAIN u /\ t[i] = u[i - Len(s)]
  BY <1>1
<1>3. ToSet(t) \subseteq ToSet(s) \union ToSet(u)
  BY <1>2 DEF ToSet
<1>4. \A i \in DOMAIN s : i \in DOMAIN t /\ t[i] = s[i]
  BY <1>1
<1>5. \A i \in DOMAIN u : i + Len(s) \in DOMAIN t /\ t[i + Len(s)] = u[i]
  BY <1>1
<1>6. ToSet(s) \union ToSet(u) \subseteq ToSet(t)
  BY <1>4, <1>5 DEF ToSet
<1>7. ASSUME IsInjective(s), IsInjective(u), ToSet(s) \intersect ToSet(u) = {} PROVE IsInjective(t)
  <2> SUFFICES ASSUME NEW i \in DOMAIN t, NEW j \in DOMAIN t, t[i] = t[j] PROVE i = j
    BY DEF IsInjective
  <2>1. \A k \in DOMAIN s : s[k] \in ToSet(s)
    BY DEF ToSet
  <2>2. \A k \in DOMAIN u : u[k] \in ToSet(u)
    BY DEF ToSet
  <2>3. (i \in DOMAIN s /\ j \in DOMAIN s /\ s[i] = s[j]) \/ (i > Len(s) /\ j > Len(s) /\ u[i - Len(s)] = u[j - Len(s)])
    BY <1>1, <1>2, <1>7, <2>1, <2>2
  <2> QED
    BY <1>1, <1>2, <1>7, <2>3 DEF IsInjective
<1> QED
  BY <1>1, <1>3, <1>6, <1>7 DEF t


LEMMA Least == ASSUME NEW S \in SUBSET Nat, S # {} PROVE \E x \in S : \A y \in S : x <= y
<1>1. PICK x \in S : \A y \in S : ~(<<y, x>> \in OpToRel(<, Nat))
  BY NatLessThanWellFounded, WFMin, Zenon
<1>2. \A y \in S : ~(y < x)
  BY <1>1, Zenon DEF OpToRel
<1> QED
  BY <1>2

(* What holds of 0 and passes to the next number holds of all: no number   *)
(* is the least exception.                                                 *)
LEMMA NoException == ASSUME NEW S \in SUBSET Nat, 0 \notin S, \A n \in Nat : n + 1 \in S => n \in S PROVE S = {}
<1> SUFFICES ASSUME S # {} PROVE FALSE
  OBVIOUS
<1>1. PICK x \in S : \A y \in S : x <= y
  BY Least
<1>2. x # 0 /\ x \in Nat /\ x - 1 \in Nat /\ (x - 1) + 1 = x
  OBVIOUS
<1>3. x - 1 \in S
  BY <1>1, <1>2
<1> QED
  BY <1>1, <1>2, <1>3

(* Among keeps what is in the set, and keeps it once.                      *)
LEMMA Filters ==
  ASSUME NEW T, NEW s \in Seq(T), NEW S
  PROVE  /\ Among(s, S) \in Seq(T) /\ ToSet(Among(s, S)) = ToSet(s) \intersect S
         /\ IsInjective(s) => IsInjective(Among(s, S))
<1> DEFINE Def(f, n) == f = [i \in 0..n |-> IF i = 0 THEN <<>> ELSE IF s[i] \in S THEN Append(f[i - 1], s[i]) ELSE f[i - 1]]
           F == CHOOSE f : Def(f, Len(s))
           Wrong == {i \in Nat : i <= Len(s) /\
                       ~(/\ F[i] \in Seq(T) /\ ToSet(F[i]) = {s[j] : j \in 1..i} \intersect S
                         /\ IsInjective(s) => IsInjective(F[i]))}
<1>1. \A n \in Nat : \E f : Def(f, n)
  <2> DEFINE Bad == {n \in Nat : ~\E f : Def(f, n)}
  <2>1. 0 \notin Bad
    <3>1. Def([i \in 0..0 |-> <<>>], 0)
      OBVIOUS
    <3> QED
      BY <3>1
  <2>2. ASSUME NEW n \in Nat, n \notin Bad PROVE n + 1 \notin Bad
    <3>1. PICK f : Def(f, n)
      BY <2>2
    <3> DEFINE g == [i \in 0..(n + 1) |-> IF i <= n THEN f[i] ELSE IF s[i] \in S THEN Append(f[i - 1], s[i]) ELSE f[i - 1]]
    <3>2. ASSUME NEW i \in 1..n PROVE f[i] = IF s[i] \in S THEN Append(f[i - 1], s[i]) ELSE f[i - 1]
      <4>1. i \in 0..n /\ i # 0
        OBVIOUS
      <4> QED
        BY <3>1, <4>1, Zenon
    <3>3. f[0] = <<>>
      BY <3>1
    <3>4. \A i \in 0..n : g[i] = f[i]
      OBVIOUS
    <3>5. \A i \in 1..(n + 1) : i - 1 \in 0..n
      OBVIOUS
    <3>6. \A i \in 0..(n + 1) : g[i] = IF i = 0 THEN <<>> ELSE IF s[i] \in S THEN Append(g[i - 1], s[i]) ELSE g[i - 1]
      BY <3>2, <3>3, <3>4, <3>5
    <3>7. g = [i \in 0..(n + 1) |-> g[i]]
      OBVIOUS
    <3> HIDE DEF g
    <3>8. Def(g, n + 1)
      BY <3>6, <3>7
    <3> QED
      BY <3>8
  <2> HIDE DEF Bad
  <2>3. Bad \in SUBSET Nat
    BY DEF Bad
  <2>4. Bad = {}
    BY <2>1, <2>2, <2>3, NoException
  <2> QED
    BY <2>4 DEF Bad
<1>2. Len(s) \in Nat /\ DOMAIN s = 1..Len(s) /\ \A j \in 1..Len(s) : s[j] \in T
  BY LenProperties, ElementOfSeq
<1>3. Def(F, Len(s))
  BY <1>1, <1>2
<1>4. Among(s, S) = F[Len(s)]
  BY Zenon DEF Among
<1> HIDE DEF F
<1>5. F[0] = <<>> /\ \A i \in 1..Len(s) : F[i] = IF s[i] \in S THEN Append(F[i - 1], s[i]) ELSE F[i - 1]
  <2>1. 0 \in 0..Len(s) /\ \A i \in 1..Len(s) : i \in 0..Len(s) /\ i # 0
    BY <1>2
  <2>2. F[0] = <<>>
    BY <1>3, <2>1, Zenon
  <2>3. ASSUME NEW i \in 1..Len(s) PROVE F[i] = IF s[i] \in S THEN Append(F[i - 1], s[i]) ELSE F[i - 1]
    BY <1>3, <2>1, Zenon
  <2> QED
    BY <2>2, <2>3
<1> HIDE DEF Def
<1>6. 0 \notin Wrong
  <2>1. {s[j] : j \in 1..0} = {} /\ <<>> \in Seq(T)
    OBVIOUS
  <2> QED
    BY <1>5, <2>1, EmptyToSet
<1>7. ASSUME NEW n \in Nat, n + 1 \in Wrong PROVE n \in Wrong
  <2> SUFFICES ASSUME /\ F[n] \in Seq(T) /\ ToSet(F[n]) = {s[j] : j \in 1..n} \intersect S
                      /\ IsInjective(s) => IsInjective(F[n])
               PROVE  FALSE
    BY <1>2, <1>7
  <2>1. n + 1 \in 1..Len(s) /\ (n + 1) - 1 = n /\ s[n + 1] \in T
    BY <1>2, <1>7
  <2>2. F[n + 1] = IF s[n + 1] \in S THEN Append(F[n], s[n + 1]) ELSE F[n]
    BY <1>5, <2>1
  <2>3. {s[j] : j \in 1..(n + 1)} = {s[j] : j \in 1..n} \union {s[n + 1]}
    <3>1. 1..(n + 1) = 1..n \union {n + 1}
      OBVIOUS
    <3> QED
      BY <3>1
  <2>4. CASE s[n + 1] \notin S
    BY <1>7, <2>2, <2>3, <2>4
  <2>5. CASE s[n + 1] \in S
    <3>1. /\ F[n + 1] \in Seq(T) /\ ToSet(F[n + 1]) = ToSet(F[n]) \union {s[n + 1]}
          /\ IsInjective(F[n]) /\ s[n + 1] \notin ToSet(F[n]) => IsInjective(F[n + 1])
      BY <2>1, <2>2, <2>5, Appended
    <3>2. IsInjective(s) => s[n + 1] \notin {s[j] : j \in 1..n}
      BY <1>2, <2>1 DEF IsInjective
    <3> QED
      BY <1>7, <2>3, <2>5, <3>1, <3>2
  <2> QED
    BY <2>4, <2>5
<1>8. Wrong = {}
  <2>1. Wrong \in SUBSET Nat
    OBVIOUS
  <2> HIDE DEF Wrong
  <2> QED
    BY <1>6, <1>7, <2>1, NoException
<1>9. {s[j] : j \in 1..Len(s)} = ToSet(s)
  BY <1>2 DEF ToSet
<1> DEFINE R == F[Len(s)]
<1>10. R \in Seq(T) /\ ToSet(R) = ToSet(s) \intersect S /\ (IsInjective(s) => IsInjective(R))
  <2>1. Len(s) \notin Wrong
    BY <1>8
  <2> QED
    BY <1>2, <1>9, <2>1
<1> HIDE DEF R
<1>11. Among(s, S) = R
  BY <1>4 DEF R
<1> QED
  BY <1>10, <1>11

-----------------------------------------------------------------------------
(* Walks of a tree whose items come after the ones they are in             *)

\* What holds of an item when it holds of all before it, or of all after it, holds of all.
LEMMA AfterTheSmaller ==
  ASSUME NEW N \in Nat, NEW S, \A k \in 0..N : (\A j \in 0..N : j < k => j \in S) => k \in S
  PROVE  \A k \in 0..N : k \in S
<1> DEFINE T == {k \in Nat : k \in 0..N /\ k \notin S}
<1> SUFFICES ASSUME T # {} PROVE FALSE
  OBVIOUS
<1>1. PICK x \in T : \A y \in T : x <= y
  <2>1. T \in SUBSET Nat
    OBVIOUS
  <2> HIDE DEF T
  <2> QED
    BY <2>1, Least
<1>2. x \in 0..N /\ \A j \in 0..N : j < x => j \in S
  BY <1>1
<1> QED
  BY <1>1, <1>2

LEMMA AfterTheLarger ==
  ASSUME NEW N \in Nat, NEW S, \A k \in 1..N : (\A j \in 1..N : j > k => j \in S) => k \in S
  PROVE  \A k \in 1..N : k \in S
<1> DEFINE T == {N - k : k \in {k \in 1..N : k \notin S}}
<1> SUFFICES ASSUME NEW k \in 1..N, k \notin S PROVE FALSE
  OBVIOUS
<1>1. N - k \in T /\ T \in SUBSET Nat
  OBVIOUS
<1>2. PICK x \in T : \A y \in T : x <= y
  <2> HIDE DEF T
  <2> QED
    BY <1>1, Least
<1>3. PICK l \in 1..N : x = N - l /\ l \notin S
  OBVIOUS
<1>4. \A j \in 1..N : j > l => j \in S
  <2> SUFFICES ASSUME NEW j \in 1..N, j > l, j \notin S PROVE FALSE
    OBVIOUS
  <2>1. N - j \in T
    OBVIOUS
  <2>2. N - l <= N - j
    BY <1>2, <1>3, <2>1
  <2> QED
    BY <2>2
<1> QED
  BY <1>3, <1>4

\* A value for the root, and for every item a step from that of the item it is in
Walks(f, N, in, zero, step, V) ==
  f \in [0..N -> V] /\ f[0] = zero /\ \A k \in 1..N : f[k] = step[k][f[in[k]]]

LEMMA WalkExists ==
  ASSUME NEW V, NEW zero \in V, NEW N \in Nat, NEW in, \A k \in 1..N : in[k] \in 0..(k - 1),
         NEW step, \A k \in 1..N : step[k] \in [V -> V]
  PROVE  \E f : Walks(f, N, in, zero, step, V)
<1> DEFINE S == {n \in Nat : n <= N /\ ~ \E f : Walks(f, n, in, zero, step, V)}
<1> SUFFICES S = {}
  OBVIOUS
<1>1. 0 \notin S
  <2>1. Walks([k \in 0..0 |-> zero], 0, in, zero, step, V)
    BY DEF Walks
  <2> QED
    BY <2>1
<1>2. ASSUME NEW n \in Nat, n + 1 \in S PROVE n \in S
  <2> SUFFICES ASSUME NEW f, Walks(f, n, in, zero, step, V) PROVE FALSE
    BY <1>2
  <2>1. n + 1 \in 1..N /\ in[n + 1] \in 0..n
    BY <1>2
  <2> DEFINE g == [k \in 0..(n + 1) |-> IF k = n + 1 THEN step[n + 1][f[in[n + 1]]] ELSE f[k]]
  <2>2. f[in[n + 1]] \in V /\ step[n + 1] \in [V -> V]
    BY <2>1 DEF Walks
  <2>3. step[n + 1][f[in[n + 1]]] \in V
    BY <2>2
  <2>4. \A k \in 0..(n + 1) : k # n + 1 => k \in 0..n
    OBVIOUS
  <2>5. g \in [0..(n + 1) -> V]
    BY <2>3, <2>4 DEF Walks
  <2>6. g[0] = zero
    BY DEF Walks
  <2>7. g[n + 1] = step[n + 1][f[in[n + 1]]] /\ \A k \in 0..n : g[k] = f[k]
    <3>1. n + 1 \in 0..(n + 1) /\ \A k \in 0..n : k \in 0..(n + 1) /\ k # n + 1
      OBVIOUS
    <3> QED
      BY Zenon, <3>1
  <2> HIDE DEF g
  <2>8. ASSUME NEW k \in 1..(n + 1) PROVE g[k] = step[k][g[in[k]]]
    <3>1. CASE k = n + 1
      <4>1. g[in[n + 1]] = f[in[n + 1]]
        BY Zenon, <2>1, <2>7
      <4>2. g[n + 1] = step[n + 1][g[in[n + 1]]]
        BY Zenon, <2>7, <4>1
      <4> QED
        BY Zenon, <3>1, <4>2
    <3>2. CASE k # n + 1
      <4>1. k \in 1..n /\ k \in 1..N
        BY <2>1, <3>2
      <4>2. in[k] \in 0..(k - 1)
        BY <4>1
      <4>3. in[k] \in 0..n /\ k \in 0..n
        BY <4>1, <4>2
      <4>4. g[k] = f[k] /\ g[in[k]] = f[in[k]]
        BY Zenon, <2>7, <4>3
      <4> QED
        BY Zenon, <4>1, <4>4 DEF Walks
    <3> QED
      BY <3>1, <3>2
  <2>9. Walks(g, n + 1, in, zero, step, V)
    BY Zenon, <2>5, <2>6, <2>8 DEF Walks
  <2> QED
    BY <1>2, <2>9
<1>3. S \in SUBSET Nat
  OBVIOUS
<1> HIDE DEF S
<1> QED
  BY <1>1, <1>2, <1>3, NoException

Alike(f, g, N, in) ==
  f[0] = g[0] /\ \A k \in 1..N : in[k] \in 0..(k - 1) /\ (f[in[k]] = g[in[k]] => f[k] = g[k])

LEMMA WalksAgree == ASSUME NEW N \in Nat, NEW in, NEW f, NEW g, Alike(f, g, N, in) PROVE \A k \in 0..N : f[k] = g[k]
<1> DEFINE S == {k \in Nat : f[k] = g[k]}
<1>1. ASSUME NEW k \in 0..N, \A j \in 0..N : j < k => j \in S PROVE k \in S
  <2>1. CASE k = 0
    BY <2>1 DEF Alike
  <2>2. CASE k # 0
    <3>1. k \in 1..N /\ in[k] \in 0..(k - 1)
      BY <2>2 DEF Alike
    <3>2. in[k] \in 0..N /\ in[k] < k
      BY <3>1
    <3> QED
      BY <1>1, <3>1, <3>2 DEF Alike
  <2> QED
    BY <2>1, <2>2
<1>2. \A k \in 0..N : k \in S
  <2> HIDE DEF S
  <2> QED
    BY <1>1, AfterTheSmaller
<1> QED
  BY <1>2

-----------------------------------------------------------------------------
(* Two sequences end to end                                                *)

Joint(T, s, t) ==
  /\ s \o t \in Seq(T) /\ Len(s \o t) = Len(s) + Len(t)
  /\ \A i \in 1..(Len(s) + Len(t)) : (s \o t)[i] = IF i <= Len(s) THEN s[i] ELSE t[i - Len(s)]

LEMMA JointIs == ASSUME NEW T, NEW s \in Seq(T), NEW t \in Seq(T) PROVE Joint(T, s, t)
BY ConcatProperties DEF Joint

Seam(T, s, t, m, n) ==
  /\ s \o t \in Seq(T) /\ Len(s \o t) = m + n
  /\ \A i \in 1..m : (s \o t)[i] = s[i]
  /\ \A i \in 1..n : (s \o t)[m + i] = t[i]

LEMMA SeamIs == ASSUME NEW T, NEW s \in Seq(T), NEW t \in Seq(T) PROVE Seam(T, s, t, Len(s), Len(t))
<1> DEFINE r == s \o t
           m == Len(s)
           n == Len(t)
<1>1. r \in Seq(T) /\ Len(r) = m + n /\ \A i \in 1..(m + n) : r[i] = IF i <= m THEN s[i] ELSE t[i - m]
  BY JointIs DEF Joint
<1>2. m \in Nat /\ n \in Nat
  BY LenProperties
<1> HIDE DEF r, m, n
<1>3. \A i \in 1..m : r[i] = s[i]
  BY <1>1, <1>2
<1>4. ASSUME NEW i \in 1..n PROVE r[m + i] = t[i]
  <2>1. m + i \in 1..(m + n) /\ ~(m + i <= m) /\ (m + i) - m = i
    BY <1>2
  <2> QED
    BY <1>1, <2>1
<1> QED
  BY <1>1, <1>3, <1>4 DEF Seam, r, m, n

LEMMA LengthIs ==
  ASSUME NEW T, NEW f \in Seq(T), NEW n \in Nat, DOMAIN f = 1..n
  PROVE  Len(f) = n
<1> DEFINE m == Len(f)
<1>1. m \in Nat /\ 1..m = 1..n
  BY LenProperties
<1> HIDE DEF m
<1>2. (m # 0 => m \in 1..n) /\ (n # 0 => n \in 1..m)
  BY <1>1
<1>3. m = n
  BY <1>1, <1>2
<1> QED
  BY <1>3 DEF m

=============================================================================
