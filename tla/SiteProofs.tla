----------------------------- MODULE SiteProofs -----------------------------
(***************************************************************************)
(* What visitors and search engines rely on, for any tree of pages, any    *)
(* languages, settings and catalogue: that the walks which make the pages, *)
(* the routes, the sitemap, the addresses the server renders and the       *)
(* breadcrumbs agree (SiteTree); and what the documents of the site keep   *)
(* and send, for any number of clients and changes, any lifetime and any   *)
(* timeout (SitemapCache).                                                 *)
(***************************************************************************)
EXTENDS SiteTree, SitemapCache, SequenceFacts, FiniteSetTheorems

-----------------------------------------------------------------------------
(* SiteTree.  Paths, and the line of a page: its containers and itself      *)

LEMMA TreeIs ==
  ASSUME NEW tree, IsTree(tree)
  PROVE  /\ Len(tree) \in Nat /\ DOMAIN tree = 1..Len(tree)
         /\ \A n \in 1..Len(tree) : tree[n].in \in 0..(n - 1) /\ tree[n].in \in 0..Len(tree)
BY LenProperties DEF IsTree

LEMMA SegmentsOfPath ==
  ASSUME NEW path, IsPath(path), NEW lang
  PROVE  ResolvePath(path, lang) \in Seq(Segments)
BY DEF IsPath, ResolvePath

LEMMA PrefixIs == ASSUME NEW lang \in Tongues PROVE LangPrefix(lang) \in Seq(Segments)
<1>1. lang \in Segments
  BY SegmentsAreKnown
<1> QED
  BY <1>1 DEF LangPrefix

LEMMA FullPathIs ==
  ASSUME NEW tree, IsTree(tree), NEW lang \in Tongues
  PROVE  /\ FullPath(tree, 0, lang) = LangPrefix(lang)
         /\ \A n \in 0..Len(tree) : FullPath(tree, n, lang) \in Seq(Segments)
         /\ \A n \in 1..Len(tree) :
              FullPath(tree, n, lang) = FullPath(tree, tree[n].in, lang) \o ResolvePath(tree[n].path, lang)
<1> DEFINE N == Len(tree)
           V == Seq(Segments)
           seg(k) == ResolvePath(tree[k].path, lang)
           root == LangPrefix(lang)
           in == [k \in 1..N |-> tree[k].in]
           step == [k \in 1..N |-> [v \in V |-> v \o seg(k)]]
<1>1. N \in Nat /\ \A k \in 1..N : in[k] = tree[k].in /\ in[k] \in 0..(k - 1) /\ in[k] \in 0..N
  BY TreeIs
<1>2. \A k \in 1..N : seg(k) \in V
  BY SegmentsOfPath DEF IsTree, IsPage
<1>3. root \in V
  BY PrefixIs
<1>4. \A k \in 1..N : step[k] \in [V -> V]
  BY <1>2, ConcatProperties
<1>5. PICK W : Walks(W, N, in, root, step, V)
  <2> HIDE DEF N, V, in, step, root
  <2> QED
    BY <1>1, <1>3, <1>4, WalkExists
<1>6. W \in [0..N -> V] /\ W[0] = root
  BY <1>5 DEF Walks
<1>7. \A k \in 1..N : tree[k].in \in 0..N /\ W[k] = W[tree[k].in] \o seg(k)
  BY <1>1, <1>5, <1>6 DEF Walks
<1> HIDE DEF V, root, seg
<1>8. ASSUME NEW n \in 0..N PROVE FullPath(tree, n, lang) = W[n]
  <2> DEFINE eq(f) == f = [k \in 0..n |-> IF k = 0 THEN root ELSE f[tree[k].in] \o seg(k)]
             at == CHOOSE f : eq(f)
             g == [k \in 0..n |-> W[k]]
  <2>1. n \in Nat /\ \A k \in 1..n : k \in 1..N /\ in[k] \in 0..(k - 1) /\ in[k] = tree[k].in /\ in[k] \in 0..n
    <3>1. \A k \in 1..n : k \in 1..N
      BY <1>1
    <3>2. \A k \in 1..n : in[k] \in 0..(k - 1) => in[k] \in 0..n
      BY <1>1
    <3> QED
      BY <1>1, <3>1, <3>2
  <2>2. \A k \in 1..n : g[tree[k].in] = W[tree[k].in]
    BY <2>1
  <2>3. \A k \in 0..n : k # 0 => k \in 1..n
    BY <2>1
  <2>4. eq(g)
    <3>1. \A k \in 0..n : W[k] = IF k = 0 THEN root ELSE g[tree[k].in] \o seg(k)
      BY <1>6, <1>7, <2>1, <2>2, <2>3
    <3> HIDE DEF in, step
    <3> QED
      BY <3>1
  <2>5. eq(at)
    <3> HIDE DEF eq, g
    <3> QED
      BY <2>4
  <2>6. at = [k \in 0..n |-> IF k = 0 THEN root ELSE at[tree[k].in] \o seg(k)]
    BY <2>5
  <2>7. FullPath(tree, n, lang) = at[n]
    BY DEF FullPath, root, seg
  <2> HIDE DEF at
  <2>8. at[0] = W[0] /\ \A k \in 1..n : at[k] = at[tree[k].in] \o seg(k)
    <3>1. 0 \in 0..n /\ \A k \in 1..n : k \in 0..n /\ k # 0
      BY <2>1
    <3> HIDE DEF in, step, g
    <3>2. at[0] = W[0]
      BY <1>6, <2>6, <3>1
    <3>3. \A k \in 1..n : at[k] = at[tree[k].in] \o seg(k)
      BY <2>6, <3>1
    <3> QED
      BY <3>2, <3>3
  <2> HIDE DEF in, step, g
  <2>9. \A k \in 1..n : at[in[k]] = W[in[k]] => at[k] = W[k]
    BY <1>7, <2>1, <2>8
  <2>10. \A k \in 0..n : at[k] = W[k]
    <3>1. \A k \in 1..n : in[k] \in 0..(k - 1)
      BY <2>1
    <3>2. Alike(at, W, n, in)
      BY <2>8, <2>9, <3>1 DEF Alike
    <3> QED
      BY <2>1, <3>2, WalksAgree
  <2>11. n \in 0..n
    BY <2>1
  <2> QED
    BY <2>7, <2>10, <2>11
<1> HIDE DEF in, step
<1>9. \A n \in 0..N : FullPath(tree, n, lang) \in V
  BY <1>6, <1>8
<1>10. \A n \in 1..N : FullPath(tree, n, lang) = FullPath(tree, tree[n].in, lang) \o seg(n)
  <2>1. \A n \in 1..N : n \in 0..N
    BY <1>1
  <2> QED
    BY <1>7, <1>8, <2>1
<1>11. FullPath(tree, 0, lang) = root
  BY <1>1, <1>6, <1>8
<1> QED
  BY <1>9, <1>10, <1>11 DEF V, root, seg

\* The containers of a page, from the outermost, and the page.
LineOf(tree, n) == IF n = 0 THEN <<>> ELSE Chain(tree, n) \o <<n>>
Around(tree, n) == ToSet(LineOf(tree, n))

LEMMA LineIs ==
  ASSUME NEW tree, IsTree(tree)
  PROVE  /\ \A n \in 0..Len(tree) : LineOf(tree, n) \in Seq(Nat)
         /\ \A n \in 1..Len(tree) : /\ Chain(tree, n) = LineOf(tree, tree[n].in)
                                    /\ LineOf(tree, n) = LineOf(tree, tree[n].in) \o <<n>>
<1> DEFINE N == Len(tree)
           V == Seq(Nat)
           in == [k \in 1..N |-> tree[k].in]
           step == [k \in 1..N |-> [v \in V |-> v \o <<k>>]]
<1>1. N \in Nat /\ \A k \in 1..N : in[k] = tree[k].in /\ in[k] \in 0..(k - 1) /\ in[k] \in 0..N
  BY TreeIs
<1>2. \A k \in 1..N : <<k>> \in V
  OBVIOUS
<1>3. <<>> \in V
  OBVIOUS
<1>4. \A k \in 1..N : step[k] \in [V -> V]
  BY <1>2, ConcatProperties
<1>5. PICK W : Walks(W, N, in, <<>>, step, V)
  <2> HIDE DEF N, V, in, step
  <2> QED
    BY <1>1, <1>3, <1>4, WalkExists
<1>6. W \in [0..N -> V] /\ W[0] = <<>>
  BY <1>5 DEF Walks
<1>7. \A k \in 1..N : tree[k].in \in 0..N /\ W[k] = W[tree[k].in] \o <<k>>
  BY <1>1, <1>5, <1>6 DEF Walks
<1> HIDE DEF V
<1>8. ASSUME NEW n \in 1..N PROVE Chain(tree, n) = W[tree[n].in]
  <2> DEFINE eq(f) == f = [k \in 0..n |-> IF k = 0 THEN <<>> ELSE f[tree[k].in] \o <<k>>]
             up == CHOOSE f : eq(f)
             g == [k \in 0..n |-> W[k]]
  <2>1. n \in Nat /\ \A k \in 1..n : k \in 1..N /\ in[k] \in 0..(k - 1) /\ in[k] = tree[k].in /\ in[k] \in 0..n
    <3>1. \A k \in 1..n : k \in 1..N
      BY <1>1
    <3>2. \A k \in 1..n : in[k] \in 0..(k - 1) => in[k] \in 0..n
      BY <1>1
    <3> QED
      BY <1>1, <3>1, <3>2
  <2>2. \A k \in 1..n : g[tree[k].in] = W[tree[k].in]
    BY <2>1
  <2>3. \A k \in 0..n : k # 0 => k \in 1..n
    BY <2>1
  <2>4. eq(g)
    <3>1. \A k \in 0..n : W[k] = IF k = 0 THEN <<>> ELSE g[tree[k].in] \o <<k>>
      BY <1>6, <1>7, <2>1, <2>2, <2>3
    <3> HIDE DEF in, step
    <3> QED
      BY <3>1
  <2>5. eq(up)
    <3> HIDE DEF eq, g
    <3> QED
      BY <2>4
  <2>6. up = [k \in 0..n |-> IF k = 0 THEN <<>> ELSE up[tree[k].in] \o <<k>>]
    BY <2>5
  <2>7. Chain(tree, n) = up[tree[n].in]
    BY DEF Chain
  <2> HIDE DEF up
  <2>8. up[0] = W[0] /\ \A k \in 1..n : up[k] = up[tree[k].in] \o <<k>>
    <3>1. 0 \in 0..n /\ \A k \in 1..n : k \in 0..n /\ k # 0
      BY <2>1
    <3> HIDE DEF in, step, g
    <3>2. up[0] = W[0]
      BY <1>6, <2>6, <3>1
    <3>3. \A k \in 1..n : up[k] = up[tree[k].in] \o <<k>>
      BY <2>6, <3>1
    <3> QED
      BY <3>2, <3>3
  <2> HIDE DEF in, step, g
  <2>9. \A k \in 1..n : up[in[k]] = W[in[k]] => up[k] = W[k]
    BY <1>7, <2>1, <2>8
  <2>10. \A k \in 0..n : up[k] = W[k]
    <3>1. \A k \in 1..n : in[k] \in 0..(k - 1)
      BY <2>1
    <3>2. Alike(up, W, n, in)
      BY <2>8, <2>9, <3>1 DEF Alike
    <3> QED
      BY <2>1, <3>2, WalksAgree
  <2>11. tree[n].in \in 0..n
    BY <2>1
  <2> QED
    BY <2>7, <2>10, <2>11
<1> HIDE DEF in, step
<1>9. LineOf(tree, 0) = W[0] /\ \A n \in 1..N : LineOf(tree, n) = W[n]
  BY <1>6, <1>7, <1>8 DEF LineOf
<1>10. \A n \in 0..N : LineOf(tree, n) = W[n]
  <2>1. \A n \in 0..N : n = 0 \/ n \in 1..N
    BY <1>1
  <2> QED
    BY <1>9, <2>1
<1>11. \A n \in 1..N : n \in 0..N
  BY <1>1
<1>12. \A n \in 0..N : LineOf(tree, n) \in Seq(Nat)
  BY <1>6, <1>10 DEF V
<1>13. \A n \in 1..N : Chain(tree, n) = LineOf(tree, tree[n].in) /\ LineOf(tree, n) = LineOf(tree, tree[n].in) \o <<n>>
  BY <1>7, <1>8, <1>10, <1>11
<1> QED
  BY <1>12, <1>13

LEMMA AroundIs ==
  ASSUME NEW tree, IsTree(tree)
  PROVE  /\ Around(tree, 0) = {}
         /\ \A n \in 1..Len(tree) : /\ Around(tree, n) = {n} \union Around(tree, tree[n].in)
                                    /\ {n} \union ToSet(Chain(tree, n)) = Around(tree, n)
<1>1. Around(tree, 0) = {}
  BY EmptyToSet DEF Around, LineOf
<1>2. ASSUME NEW n \in 1..Len(tree)
      PROVE  Around(tree, n) = {n} \union Around(tree, tree[n].in) /\ {n} \union ToSet(Chain(tree, n)) = Around(tree, n)
  <2> DEFINE s == LineOf(tree, tree[n].in)
  <2>1. s \in Seq(Nat) /\ LineOf(tree, n) = s \o <<n>> /\ Chain(tree, n) = s
    BY LineIs, TreeIs
  <2> DEFINE u == <<n>>
  <2>2. u \in Seq(Nat) /\ ToSet(u) = {n}
    BY TreeIs DEF ToSet
  <2> HIDE DEF s, u
  <2>3. ToSet(s \o u) = ToSet(s) \union ToSet(u)
    BY <2>1, <2>2, Joined
  <2> QED
    BY <2>1, <2>2, <2>3 DEF Around, s, u
<1> QED
  BY <1>1, <1>2

LEMMA AroundAreBefore ==
  ASSUME NEW tree, IsTree(tree)
  PROVE  \A n \in 0..Len(tree) : Around(tree, n) \subseteq 1..n
<1> DEFINE N == Len(tree)
           S == {n \in Nat : Around(tree, n) \subseteq 1..n}
<1>1. N \in Nat
  BY TreeIs
<1>2. ASSUME NEW n \in 0..N, \A j \in 0..N : j < n => j \in S PROVE n \in S
  <2>1. CASE n = 0
    BY <2>1, AroundIs
  <2>2. CASE n # 0
    <3> DEFINE p == tree[n].in
    <3>1. n \in 1..N /\ p \in 0..(n - 1)
      BY <1>1, <2>2, TreeIs
    <3>2. Around(tree, n) = {n} \union Around(tree, p)
      BY <3>1, AroundIs
    <3> HIDE DEF p
    <3>3. Around(tree, p) \subseteq 1..p
      BY <1>1, <1>2, <3>1
    <3> QED
      BY <3>1, <3>2, <3>3
  <2> QED
    BY <2>1, <2>2
<1> HIDE DEF S
<1>3. \A n \in 0..N : n \in S
  BY <1>1, <1>2, AfterTheSmaller
<1> QED
  BY <1>3 DEF S

-----------------------------------------------------------------------------
(* What the walk of the builder reaches                                    *)

AllOn(tree, n) == \A k \in Around(tree, n) : tree[k].enabled

LEMMA ReachedIs ==
  ASSUME NEW tree, IsTree(tree)
  PROVE  Reached(tree) = {n \in DOMAIN tree : AllOn(tree, n) /\ tree[n].kind # "parent"}
<1> DEFINE N == Len(tree)
           eq(f) == f = [n \in 0..N |-> n = 0 \/ (tree[n].enabled /\ f[tree[n].in])]
           on == CHOOSE f : eq(f)
           g == [n \in 0..N |-> n = 0 \/ AllOn(tree, n)]
           S == {n \in Nat : on[n] <=> (n = 0 \/ AllOn(tree, n))}
<1>1. N \in Nat /\ DOMAIN tree = 1..N /\ \A n \in 1..N : tree[n].in \in 0..(n - 1) /\ tree[n].in \in 0..N
  BY TreeIs
<1>2. \A n \in 0..N : n # 0 => n \in 1..N
  BY <1>1
<1>3. \A n \in 1..N : AllOn(tree, n) <=> tree[n].enabled /\ (tree[n].in = 0 \/ AllOn(tree, tree[n].in))
  <2>1. AllOn(tree, 0)
    BY AroundIs DEF AllOn
  <2> QED
    BY <2>1, AroundIs DEF AllOn
<1>4. eq(g)
  <2>1. ASSUME NEW n \in 0..N
        PROVE  (n = 0 \/ AllOn(tree, n)) <=> (n = 0 \/ (tree[n].enabled /\ g[tree[n].in]))
    <3>1. CASE n = 0
      BY <3>1
    <3>2. CASE n # 0
      <4>1. n \in 1..N /\ tree[n].in \in 0..N
        BY <1>1, <1>2, <3>2
      <4>2. g[tree[n].in] <=> (tree[n].in = 0 \/ AllOn(tree, tree[n].in))
        BY <4>1
      <4> QED
        BY <1>3, <4>1, <4>2
    <3> QED
      BY <3>1, <3>2
  <2> DEFINE h == [n \in 0..N |-> n = 0 \/ (tree[n].enabled /\ g[tree[n].in])]
  <2>2. \A n \in 0..N : g[n] \in BOOLEAN /\ h[n] \in BOOLEAN /\ (g[n] <=> h[n])
    BY <2>1
  <2>3. \A n \in 0..N : g[n] = h[n]
    BY <2>2
  <2>4. g = h
    BY <2>3
  <2> QED
    BY <2>4
<1>5. eq(on)
  <2> HIDE DEF eq, g
  <2> QED
    BY <1>4
<1>6. on = [n \in 0..N |-> n = 0 \/ (tree[n].enabled /\ on[tree[n].in])]
  BY <1>5
<1>7. Reached(tree) = {n \in DOMAIN tree : on[n] /\ tree[n].kind # "parent"}
  BY DEF Reached
<1> HIDE DEF on, N
<1>8. on[0] /\ \A n \in 1..N : on[n] <=> tree[n].enabled /\ on[tree[n].in]
  <2>1. 0 \in 0..N /\ \A n \in 1..N : n \in 0..N /\ n # 0
    BY <1>1
  <2>2. on[0]
    BY <1>6, <2>1
  <2>3. \A n \in 1..N : on[n] <=> tree[n].enabled /\ on[tree[n].in]
    BY <1>6, <2>1
  <2> QED
    BY <2>2, <2>3
<1>9. ASSUME NEW n \in 0..N, \A j \in 0..N : j < n => j \in S PROVE n \in S
  <2>1. CASE n = 0
    BY <1>8, <2>1
  <2>2. CASE n # 0
    <3>1. n \in 1..N /\ tree[n].in \in 0..N /\ tree[n].in < n /\ n \in Nat
      BY <1>1, <1>2, <2>2
    <3>2. tree[n].in \in S
      BY <1>9, <3>1
    <3>3. on[n] <=> AllOn(tree, n)
      BY <1>3, <1>8, <3>1, <3>2
    <3> QED
      BY <2>2, <3>1, <3>3
  <2> QED
    BY <2>1, <2>2
<1> HIDE DEF S
<1>10. \A n \in 0..N : n \in S
  BY <1>1, <1>9, AfterTheSmaller
<1>11. \A n \in 1..N : on[n] <=> AllOn(tree, n)
  <2>1. \A n \in 1..N : n \in 0..N /\ n # 0
    BY <1>1
  <2> QED
    BY <1>10, <2>1 DEF S
<1> QED
  BY <1>1, <1>7, <1>11

-----------------------------------------------------------------------------
(* What the routes take of a url                                           *)

LEMMA TakesIs ==
  ASSUME NEW A, NEW p \in Seq(A), NEW q \in Seq(A), NEW B, NEW u \in Seq(B)
  PROVE  /\ Takes(p, u) => /\ Len(p) <= Len(u) /\ SubSeq(u, Len(p) + 1, Len(u)) \in Seq(B)
                           /\ Len(SubSeq(u, Len(p) + 1, Len(u))) = Len(u) - Len(p)
         /\ Takes(p \o q, u) <=> Takes(p, u) /\ Takes(q, SubSeq(u, Len(p) + 1, Len(u)))
         /\ Takes(p \o q, u) =>
              SubSeq(SubSeq(u, Len(p) + 1, Len(u)), Len(q) + 1, Len(SubSeq(u, Len(p) + 1, Len(u))))
                = SubSeq(u, Len(p \o q) + 1, Len(u))
<1> DEFINE m == Len(p)
           n == Len(q)
           l == Len(u)
           r == p \o q
           v == SubSeq(u, m + 1, l)
<1>1. m \in Nat /\ n \in Nat /\ l \in Nat /\ DOMAIN p = 1..m /\ DOMAIN q = 1..n /\ DOMAIN u = 1..l
  BY LenProperties
<1>2. r \in Seq(A) /\ Len(r) = m + n /\ DOMAIN r = 1..(m + n)
      /\ (\A i \in 1..m : r[i] = p[i]) /\ \A i \in 1..n : r[m + i] = q[i]
  BY SeamIs, LenProperties DEF Seam
<1>3. m <= l => /\ v \in Seq(B) /\ Len(v) = l - m
                /\ \A i \in 1..(l - m) : v[i] = u[m + i]
  <2> SUFFICES ASSUME m <= l PROVE v \in Seq(B) /\ Len(v) = l - m /\ \A i \in 1..(l - m) : v[i] = u[m + i]
    OBVIOUS
  <2>1. m + 1 \in 1..l + 1 /\ m + 1 \in Nat
    BY <1>1
  <2>2. v = [i \in 1..(l - (m + 1) + 1) |-> u[i + (m + 1) - 1]] /\ Len(v) = l - (m + 1) + 1
    <3>1. \A i \in (m + 1)..l : u[i] \in B
      BY <1>1, ElementOfSeq
    <3> HIDE DEF m, l
    <3> QED
      BY <1>1, <2>1, <3>1, SubSeqProperties
  <2>3. v \in Seq(B)
    <3> DEFINE k == m + 1
    <3> HIDE DEF k
    <3>1. k \in 1..Len(u) + 1
      BY <2>1 DEF k
    <3>2. SubSeq(u, k, Len(u)) \in Seq(B)
      BY <3>1, Suffix
    <3> QED
      BY <3>2 DEF k
  <2> HIDE DEF v, m, l
  <2>4. l - (m + 1) + 1 = l - m /\ \A i \in 1..(l - m) : i + (m + 1) - 1 = m + i
    BY <1>1
  <2> QED
    BY <2>2, <2>3, <2>4
<1> HIDE DEF m, n, l, r, v
<1>4. Takes(p, u) <=> m <= l /\ \A i \in 1..m : p[i] \in ParamSegs \union {u[i]}
  BY <1>1 DEF Takes, m, l
<1>5. Takes(r, u) <=> m + n <= l /\ \A i \in 1..(m + n) : r[i] \in ParamSegs \union {u[i]}
  BY <1>1, <1>2 DEF Takes, l
<1>6. m <= l => (Takes(q, v) <=> n <= l - m /\ \A i \in 1..n : q[i] \in ParamSegs \union {v[i]})
  BY <1>1, <1>3 DEF Takes, n
<1>7. Takes(r, u) <=> Takes(p, u) /\ Takes(q, v)
  <2>1. ASSUME Takes(r, u) PROVE Takes(p, u) /\ Takes(q, v)
    <3>1. m + n <= l /\ \A i \in 1..(m + n) : r[i] \in ParamSegs \union {u[i]}
      BY <1>5, <2>1
    <3>2. \A i \in 1..m : i \in 1..(m + n)
      BY <1>1
    <3>3. \A i \in 1..n : m + i \in 1..(m + n) /\ i \in 1..(l - m)
      BY <1>1, <3>1
    <3>4. m <= l /\ n <= l - m
      BY <1>1, <3>1
    <3>5. Takes(p, u)
      BY <1>2, <1>4, <3>1, <3>2, <3>4
    <3>6. \A i \in 1..n : q[i] \in ParamSegs \union {v[i]}
      BY <1>2, <1>3, <3>1, <3>3, <3>4
    <3> QED
      BY <1>6, <3>4, <3>5, <3>6
  <2>2. ASSUME Takes(p, u), Takes(q, v) PROVE Takes(r, u)
    <3>1. m <= l /\ n <= l - m /\ (\A i \in 1..m : p[i] \in ParamSegs \union {u[i]})
          /\ \A i \in 1..n : q[i] \in ParamSegs \union {v[i]}
      BY <1>4, <1>6, <2>2
    <3>2. m + n <= l
      BY <1>1, <3>1
    <3>3. ASSUME NEW i \in 1..(m + n) PROVE r[i] \in ParamSegs \union {u[i]}
      <4>1. CASE i \in 1..m
        BY <1>2, <3>1, <4>1
      <4>2. CASE i \notin 1..m
        <5>1. i - m \in 1..n /\ m + (i - m) = i /\ i - m \in 1..(l - m)
          BY <1>1, <3>1, <4>2
        <5>2. r[m + (i - m)] = q[i - m] /\ v[i - m] = u[m + (i - m)]
          BY <1>2, <1>3, <3>1, <5>1
        <5> QED
          BY <3>1, <5>1, <5>2
      <4> QED
        BY <4>1, <4>2
    <3> QED
      BY <1>5, <3>2, <3>3
  <2> QED
    BY <2>1, <2>2
<1>8. Takes(r, u) => SubSeq(v, n + 1, Len(v)) = SubSeq(u, Len(r) + 1, l)
  <2> SUFFICES ASSUME m + n <= l PROVE SubSeq(v, n + 1, Len(v)) = SubSeq(u, Len(r) + 1, l)
    BY <1>5
  <2>1. m <= l /\ v \in Seq(B) /\ Len(v) = l - m /\ \A i \in 1..(l - m) : v[i] = u[m + i]
    BY <1>1, <1>3
  <2> DEFINE k == l - m
             j == m + n
  <2>2. k \in Nat /\ j \in Nat /\ n + 1 \in 1..(k + 1) /\ j + 1 \in 1..(l + 1) /\ k - (n + 1) + 1 = l - (j + 1) + 1
    BY <1>1
  <2>3. SubSeq(v, n + 1, k) = [i \in 1..(k - (n + 1) + 1) |-> v[i + (n + 1) - 1]]
    <3>1. \A i \in (n + 1)..k : v[i] \in B
      <4>1. DOMAIN v = 1..k /\ \A i \in (n + 1)..k : i \in 1..k
        BY <1>1, <2>1, <2>2, LenProperties
      <4> QED
        BY <2>1, <4>1, ElementOfSeq
    <3>2. n + 1 \in Nat
      BY <1>1
    <3> HIDE DEF k
    <3> QED
      BY <1>1, <2>1, <2>2, <3>1, <3>2, SubSeqProperties
  <2>4. SubSeq(u, j + 1, l) = [i \in 1..(l - (j + 1) + 1) |-> u[i + (j + 1) - 1]]
    <3>1. \A i \in (j + 1)..l : u[i] \in B
      <4>1. \A i \in (j + 1)..l : i \in 1..l
        BY <1>1, <2>2
      <4> QED
        BY <1>1, <4>1, ElementOfSeq
    <3>2. j + 1 \in Nat
      BY <2>2
    <3> HIDE DEF j
    <3> QED
      BY <1>1, <2>2, <3>1, <3>2, SubSeqProperties
  <2>5. \A i \in 1..(k - (n + 1) + 1) : v[i + (n + 1) - 1] = u[i + (j + 1) - 1]
    <3>1. \A i \in 1..(k - (n + 1) + 1) : i + (n + 1) - 1 \in 1..(l - m) /\ m + (i + (n + 1) - 1) = i + (j + 1) - 1
      BY <1>1, <2>2
    <3> HIDE DEF k, j
    <3> QED
      BY <2>1, <3>1
  <2> HIDE DEF k, j
  <2>6. SubSeq(v, n + 1, k) = SubSeq(u, j + 1, l)
    BY <2>2, <2>3, <2>4, <2>5
  <2> QED
    BY <1>2, <2>1, <2>6 DEF k, j
<1>9. Takes(p, u) => m <= l /\ v \in Seq(B) /\ Len(v) = l - m
  BY <1>3, <1>4
<1> QED
  BY <1>7, <1>8, <1>9 DEF m, n, l, r, v

After(path, before) == {SubSeq(r, Len(path) + 1, Len(r)) : r \in {b \in before : Takes(path, b)}}

LEMMA AfterIs ==
  ASSUME NEW path
  PROVE  /\ After(path, {}) = {}
         /\ \A b : After(path, {b}) = IF Takes(path, b) THEN {SubSeq(b, Len(path) + 1, Len(b))} ELSE {}
BY DEF After

RoutesTo(tree, n) == \A k \in Around(tree, n) : Routable(tree[k])
RestOf(tree, n, lang, url) ==
  IF RoutesTo(tree, n) /\ Takes(FullPath(tree, n, lang), url)
  THEN {SubSeq(url, Len(FullPath(tree, n, lang)) + 1, Len(url))} ELSE {}

LEMMA RestSteps ==
  ASSUME NEW tree, IsTree(tree), NEW lang \in Tongues, NEW B, NEW url \in Seq(B)
  PROVE  /\ RestOf(tree, 0, lang, url) = After(LangPrefix(lang), {url})
         /\ \A n \in 1..Len(tree) :
              RestOf(tree, n, lang, url) = After(ResolvePath(tree[n].path, lang),
                                                 IF Routable(tree[n]) THEN RestOf(tree, tree[n].in, lang, url) ELSE {})
<1>1. RestOf(tree, 0, lang, url) = After(LangPrefix(lang), {url})
  <2>1. RoutesTo(tree, 0) /\ FullPath(tree, 0, lang) = LangPrefix(lang)
    BY AroundIs, FullPathIs DEF RoutesTo
  <2> QED
    BY <2>1, AfterIs DEF RestOf
<1>2. ASSUME NEW n \in 1..Len(tree)
      PROVE  RestOf(tree, n, lang, url) = After(ResolvePath(tree[n].path, lang),
                                                IF Routable(tree[n]) THEN RestOf(tree, tree[n].in, lang, url) ELSE {})
  <2> DEFINE p == FullPath(tree, tree[n].in, lang)
             q == ResolvePath(tree[n].path, lang)
             r == FullPath(tree, n, lang)
             v == SubSeq(url, Len(p) + 1, Len(url))
             P == RestOf(tree, tree[n].in, lang, url)
  <2>1. p \in Seq(Segments) /\ q \in Seq(Segments) /\ r = p \o q
    <3>1. tree[n].in \in 0..Len(tree) /\ IsPath(tree[n].path)
      BY TreeIs DEF IsTree, IsPage
    <3> QED
      BY <3>1, FullPathIs, SegmentsOfPath
  <2>2. RoutesTo(tree, n) <=> Routable(tree[n]) /\ RoutesTo(tree, tree[n].in)
    BY AroundIs DEF RoutesTo
  <2>3. P = IF RoutesTo(tree, tree[n].in) /\ Takes(p, url) THEN {v} ELSE {}
    BY DEF RestOf
  <2>4. RestOf(tree, n, lang, url) = IF RoutesTo(tree, n) /\ Takes(r, url) THEN {SubSeq(url, Len(r) + 1, Len(url))} ELSE {}
    BY DEF RestOf
  <2> HIDE DEF P, p, q, r
  <2>5. Takes(r, url) <=> Takes(p, url) /\ Takes(q, v)
    BY <2>1, TakesIs
  <2>6. Takes(r, url) => SubSeq(v, Len(q) + 1, Len(v)) = SubSeq(url, Len(r) + 1, Len(url))
    BY <2>1, TakesIs
  <2> HIDE DEF v
  <2>7. CASE Routable(tree[n]) /\ RoutesTo(tree, tree[n].in) /\ Takes(p, url)
    <3>1. P = {v}
      BY <2>3, <2>7
    <3>2. After(q, {v}) = IF Takes(q, v) THEN {SubSeq(v, Len(q) + 1, Len(v))} ELSE {}
      BY AfterIs
    <3> QED
      BY <2>2, <2>4, <2>5, <2>6, <2>7, <3>1, <3>2 DEF P, q
  <2>8. CASE ~(Routable(tree[n]) /\ RoutesTo(tree, tree[n].in) /\ Takes(p, url))
    <3>1. (IF Routable(tree[n]) THEN P ELSE {}) = {}
      BY <2>3, <2>8
    <3>2. RestOf(tree, n, lang, url) = {}
      BY <2>2, <2>4, <2>5, <2>8
    <3> QED
      BY <3>1, <3>2, AfterIs DEF P, q
  <2> QED
    BY <2>7, <2>8
<1> QED
  BY <1>1, <1>2

LEMMA LeftOverIs ==
  ASSUME NEW tree, IsTree(tree), NEW lang \in Tongues, NEW n \in 1..Len(tree), NEW B, NEW url \in Seq(B)
  PROVE  LeftOver(tree, n, lang, url) = RestOf(tree, n, lang, url)
<1> DEFINE N == Len(tree)
           path(k) == IF k = 0 THEN LangPrefix(lang) ELSE ResolvePath(tree[k].path, lang)
           before(f, k) == IF k = 0 THEN {url} ELSE IF Routable(tree[k]) THEN f[tree[k].in] ELSE {}
           eq(f) == f = [k \in 0..n |-> After(path(k), before(f, k))]
           left == CHOOSE f : eq(f)
           g == [k \in 0..n |-> RestOf(tree, k, lang, url)]
           in == [k \in 1..n |-> tree[k].in]
<1>1. n \in Nat /\ \A k \in 1..n : in[k] = tree[k].in /\ in[k] \in 0..(k - 1) /\ in[k] \in 0..n /\ k \in 1..N
  <2>1. N \in Nat /\ n \in Nat /\ \A k \in 1..n : k \in 1..N
    BY TreeIs
  <2>2. \A k \in 1..n : tree[k].in \in 0..(k - 1)
    BY <2>1, TreeIs
  <2>3. \A k \in 1..n : \A j \in 0..(k - 1) : j \in 0..n
    BY <2>1
  <2> QED
    BY <2>1, <2>2, <2>3
<1>2. \A k \in 0..n : RestOf(tree, k, lang, url) = After(path(k), before(g, k))
  <2>1. ASSUME NEW k \in 0..n PROVE RestOf(tree, k, lang, url) = After(path(k), before(g, k))
    <3>1. CASE k = 0
      BY <3>1, RestSteps
    <3>2. CASE k # 0
      <4>1. k \in 1..n /\ k \in 1..N /\ tree[k].in \in 0..n
        BY <1>1, <3>2
      <4>2. g[tree[k].in] = RestOf(tree, tree[k].in, lang, url)
        BY <4>1
      <4>3. RestOf(tree, k, lang, url) = After(ResolvePath(tree[k].path, lang),
                                                IF Routable(tree[k]) THEN RestOf(tree, tree[k].in, lang, url) ELSE {})
        <5>1. k \in 1..Len(tree)
          BY <4>1
        <5> HIDE DEF N, path, before, g, in
        <5> QED
          BY <5>1, RestSteps
      <4>4. path(k) = ResolvePath(tree[k].path, lang)
        BY <3>2
      <4>5. before(g, k) = IF Routable(tree[k]) THEN RestOf(tree, tree[k].in, lang, url) ELSE {}
        BY <3>2, <4>2
      <4> HIDE DEF path, before, g
      <4> QED
        BY <4>3, <4>4, <4>5
    <3> QED
      BY <3>1, <3>2
  <2> QED
    BY <2>1
<1>3. eq(g)
  <2> HIDE DEF path, before
  <2> QED
    BY <1>2
<1>4. eq(left)
  <2> HIDE DEF eq, g
  <2> QED
    BY <1>3
<1>5. left = [k \in 0..n |-> After(path(k), before(left, k))]
  <2> HIDE DEF left, path, before
  <2> QED
    BY <1>4
<1>6. LeftOver(tree, n, lang, url) = left[n]
  BY DEF LeftOver, After
<1> HIDE DEF left, in, N
<1>7. \A k \in 0..n : left[k] = After(path(k), before(left, k))
  <2> HIDE DEF path, before
  <2> QED
    BY <1>5
<1>8. \A k \in 0..n : g[k] = After(path(k), before(g, k))
  BY <1>2
<1>9. left[0] = g[0]
  <2>1. 0 \in 0..n
    BY <1>1
  <2>2. before(left, 0) = before(g, 0)
    OBVIOUS
  <2> HIDE DEF g, path, before
  <2> QED
    BY <1>7, <1>8, <2>1, <2>2
<1>10. ASSUME NEW k \in 1..n, left[in[k]] = g[in[k]] PROVE left[k] = g[k]
  <2>1. k \in 0..n
    BY <1>1
  <2>2. left[tree[k].in] = g[tree[k].in]
    BY <1>1, <1>10
  <2> HIDE DEF g
  <2>3. before(left, k) = before(g, k)
    BY <1>1, <2>2
  <2> HIDE DEF path, before
  <2> QED
    BY <1>7, <1>8, <2>1, <2>3
<1> HIDE DEF path, before, g
<1>11. Alike(left, g, n, in)
  BY <1>1, <1>9, <1>10 DEF Alike
<1>12. \A k \in 0..n : left[k] = g[k]
  BY <1>1, <1>11, WalksAgree
<1>13. n \in 0..n /\ g[n] = RestOf(tree, n, lang, url)
  BY <1>1 DEF g
<1> QED
  BY <1>6, <1>12, <1>13

\* A route takes the whole of a url if and only if its path and that of its containers do.
LEMMA RouteTakesAll ==
  ASSUME NEW tree, IsTree(tree), NEW lang \in Tongues, NEW n \in 1..Len(tree), NEW B, NEW url \in Seq(B)
  PROVE  <<>> \in LeftOver(tree, n, lang, url) <=>
           RoutesTo(tree, n) /\ Takes(FullPath(tree, n, lang), url) /\ Len(FullPath(tree, n, lang)) = Len(url)
<1> DEFINE p == FullPath(tree, n, lang)
           v == SubSeq(url, Len(p) + 1, Len(url))
<1>1. p \in Seq(Segments) /\ Len(p) \in Nat /\ Len(url) \in Nat
  <2>1. n \in 0..Len(tree)
    BY TreeIs
  <2> QED
    BY <2>1, FullPathIs, LenProperties
<1>2. LeftOver(tree, n, lang, url) = IF RoutesTo(tree, n) /\ Takes(p, url) THEN {v} ELSE {}
  BY LeftOverIs DEF RestOf
<1> HIDE DEF p
<1>3. Takes(p, url) => v \in Seq(B) /\ Len(v) = Len(url) - Len(p) /\ Len(p) <= Len(url)
  BY <1>1, TakesIs
<1> HIDE DEF v
<1>4. v \in Seq(B) => (v = <<>> <=> Len(v) = 0)
  BY EmptySeq
<1> DEFINE m == Len(p)
           l == Len(url)
<1> HIDE DEF m, l
<1>5. Takes(p, url) => (v = <<>> <=> m = l)
  <2>1. Takes(p, url) => v \in Seq(B) /\ Len(v) = l - m
    BY <1>3 DEF m, l
  <2> QED
    BY <1>1, <1>4, <2>1 DEF m, l
<1> QED
  BY <1>2, <1>5 DEF m, l, p

-----------------------------------------------------------------------------
(* The tree the builder makes of the declared one                          *)

LEMMA MappedTree ==
  ASSUME NEW tree, IsTree(tree), NEW t, t \in [DOMAIN tree -> {t[n] : n \in DOMAIN tree}],
         \A n \in 1..Len(tree) : IsPage(t[n]) /\ t[n].in = tree[n].in /\ t[n].kind = tree[n].kind
  PROVE  IsTree(t) /\ Len(t) = Len(tree)
<1> DEFINE N == Len(tree)
<1>1. N \in Nat /\ DOMAIN tree = 1..N /\ \A n \in 1..N : tree[n].in \in 0..(n - 1)
  BY TreeIs
<1> HIDE DEF N
<1>2. DOMAIN t = 1..N /\ ToSet(t) = {t[n] : n \in 1..N} /\ t \in [1..N -> ToSet(t)]
  BY <1>1 DEF ToSet
<1>3. t \in Seq(ToSet(t))
  <2> DEFINE T == ToSet(t)
  <2> HIDE DEF T
  <2>1. t \in [1..N -> T]
    BY <1>2 DEF T
  <2>2. t \in Seq(T)
    BY <1>1, <2>1, SeqDef
  <2> QED
    BY <2>2 DEF T
<1>4. Len(t) = N
  BY <1>1, <1>2, <1>3, LengthIs
<1>5. \A n \in 1..N : IsPage(t[n]) /\ t[n].in = tree[n].in /\ t[n].kind = tree[n].kind
  BY DEF N
<1>6. ASSUME NEW n \in 1..N, t[n].in # 0 PROVE t[t[n].in].kind = "parent"
  <2>1. tree[n].in = t[n].in /\ tree[n].in \in 1..N
    BY <1>1, <1>5, <1>6
  <2>2. tree[tree[n].in].kind = "parent"
    BY <1>6, <2>1 DEF IsTree, N
  <2> QED
    BY <1>5, <2>1, <2>2
<1> QED
  BY <1>1, <1>3, <1>4, <1>5, <1>6 DEF IsTree, N

AuthRule(tree) ==
  \A n \in 1..Len(tree) :
    tree[n].kind # "external" /\ tree[n].auth = "unset" /\ tree[n].in # 0 => tree[tree[n].in].auth # "yes"

LEMMA InheritIs ==
  ASSUME NEW tree, IsTree(tree)
  PROVE  IsTree(Inherit(tree)) /\ AuthRule(Inherit(tree))
<1> DEFINE N == Len(tree)
           V == {"yes", "no", "unset"}
           own(n, a) == IF tree[n].auth = "unset" /\ a = "yes" /\ tree[n].kind # "external" THEN "yes" ELSE tree[n].auth
           in == [k \in 1..N |-> tree[k].in]
           step == [k \in 1..N |-> [v \in V |-> own(k, v)]]
           eq(f) == f = [n \in 0..N |-> IF n = 0 THEN "unset" ELSE own(n, f[tree[n].in])]
           auth == CHOOSE f : eq(f)
           t == [n \in DOMAIN tree |-> [tree[n] EXCEPT !.auth = auth[n]]]
<1>1. N \in Nat /\ DOMAIN tree = 1..N /\ \A k \in 1..N : in[k] = tree[k].in /\ in[k] \in 0..(k - 1) /\ in[k] \in 0..N
  BY TreeIs
<1>2. \A n \in 1..N : IsPage(tree[n]) /\ tree[n].auth \in V
  BY DEF IsTree, IsPage, PageInput
<1>3. \A k \in 1..N : step[k] \in [V -> V]
  BY <1>2
<1>4. PICK W : Walks(W, N, in, "unset", step, V)
  <2>1. "unset" \in V
    OBVIOUS
  <2> HIDE DEF N, V, in, step
  <2> QED
    BY <1>1, <1>3, <2>1, WalkExists
<1>5. W \in [0..N -> V] /\ W[0] = "unset" /\ \A k \in 1..N : W[k] = own(k, W[tree[k].in])
  <2>1. \A k \in 1..N : W[k] = step[k][W[in[k]]] /\ W[in[k]] \in V
    BY <1>1, <1>4 DEF Walks
  <2>2. W \in [0..N -> V] /\ W[0] = "unset"
    BY <1>4 DEF Walks
  <2> QED
    BY <1>1, <2>1, <2>2
<1> HIDE DEF in, step, own
<1>6. eq(W)
  <2>1. \A n \in 0..N : W[n] = IF n = 0 THEN "unset" ELSE own(n, W[tree[n].in])
    <3>1. \A n \in 0..N : n # 0 => n \in 1..N
      BY <1>1
    <3> QED
      BY <1>5, <3>1
  <2> QED
    BY <1>5, <2>1
<1>7. eq(auth)
  <2> HIDE DEF eq
  <2> QED
    BY <1>6
<1>8. auth = [n \in 0..N |-> IF n = 0 THEN "unset" ELSE own(n, auth[tree[n].in])]
  BY <1>7
<1>9. Inherit(tree) = t
  BY DEF Inherit, own
<1> HIDE DEF auth, V, N
<1>10. \A n \in 1..N : auth[n] = own(n, auth[tree[n].in])
  <2>1. \A n \in 1..N : n \in 0..N /\ n # 0
    BY <1>1
  <2> QED
    BY <1>8, <2>1
<1>11. \A n \in 1..N : auth[n] \in V
  BY <1>2, <1>10 DEF own, V
<1>12. \A n \in 1..N : t[n] = [tree[n] EXCEPT !.auth = auth[n]]
  BY <1>1
<1>13. ASSUME NEW n \in 1..N
       PROVE  IsPage(t[n]) /\ t[n].in = tree[n].in /\ t[n].kind = tree[n].kind /\ t[n].auth = auth[n]
  <2> DEFINE page == tree[n]
             new == [page EXCEPT !.auth = auth[n]]
  <2>1. page \in PageInput({page.path}) /\ IsPath(page.path)
    BY <1>2 DEF IsPage
  <2> HIDE DEF page
  <2>2. auth[n] \in {"yes", "no", "unset"}
    BY <1>11 DEF V
  <2>3. new \in PageInput({page.path}) /\ new.path = page.path /\ new.in = page.in /\ new.kind = page.kind /\ new.auth = auth[n]
    BY <2>1, <2>2 DEF PageInput
  <2>4. t[n] = new
    BY <1>12 DEF page
  <2> HIDE DEF new, t
  <2> QED
    BY <2>1, <2>3, <2>4 DEF IsPage, page
<1>14. t \in [DOMAIN tree -> {t[n] : n \in DOMAIN tree}]
  OBVIOUS
<1> HIDE DEF t
<1>15. IsTree(t) /\ Len(t) = N
  BY <1>13, <1>14, MappedTree DEF N
<1>16. ASSUME NEW n \in 1..N, t[n].kind # "external", t[n].auth = "unset", t[n].in # 0 PROVE t[t[n].in].auth # "yes"
  <2>1. tree[n].in \in 1..N
    BY <1>1, <1>13, <1>16
  <2>2. auth[n] = "unset" /\ tree[n].kind # "external"
    BY <1>13, <1>16
  <2>3. auth[tree[n].in] # "yes"
    BY <1>10, <2>2 DEF own
  <2> QED
    BY <1>13, <2>1, <2>3
<1> QED
  BY <1>9, <1>15, <1>16 DEF AuthRule

LEMMA WithoutLoginIs ==
  ASSUME NEW tree, IsTree(tree), AuthRule(tree), NEW def
  PROVE  IsTree(WithoutLogin(tree, def)) /\ AuthRule(WithoutLogin(tree, def))
<1> DEFINE N == Len(tree)
           off(n) == ~def.loginOn /\ def.login # NoType /\ tree[n].type = def.login
           t == [n \in DOMAIN tree |-> IF off(n) THEN [tree[n] EXCEPT !.enabled = FALSE] ELSE tree[n]]
<1>1. DOMAIN tree = 1..N /\ N \in Nat /\ \A n \in 1..N : tree[n].in \in 0..(n - 1)
  BY TreeIs
<1>2. WithoutLogin(tree, def) = t
  BY DEF WithoutLogin
<1>3. \A n \in 1..N : t[n] = IF off(n) THEN [tree[n] EXCEPT !.enabled = FALSE] ELSE tree[n]
  BY <1>1
<1>4. t \in [DOMAIN tree -> {t[n] : n \in DOMAIN tree}]
  OBVIOUS
<1> HIDE DEF t, off
<1>5. ASSUME NEW n \in 1..N
      PROVE  IsPage(t[n]) /\ t[n].in = tree[n].in /\ t[n].kind = tree[n].kind /\ t[n].auth = tree[n].auth
  <2> DEFINE page == tree[n]
             new == [page EXCEPT !.enabled = FALSE]
  <2>1. page \in PageInput({page.path}) /\ IsPath(page.path)
    BY DEF IsTree, IsPage
  <2>2. t[n] = new \/ t[n] = page
    BY <1>3
  <2> HIDE DEF page
  <2>3. new \in PageInput({page.path}) /\ new.path = page.path /\ new.in = page.in /\ new.kind = page.kind /\ new.auth = page.auth
    BY <2>1 DEF PageInput
  <2> HIDE DEF new
  <2> QED
    BY <2>1, <2>2, <2>3 DEF IsPage, page
<1>6. IsTree(t) /\ Len(t) = N
  BY <1>4, <1>5, MappedTree
<1>7. AuthRule(t)
  <2> SUFFICES ASSUME NEW n \in 1..N, t[n].kind # "external", t[n].auth = "unset", t[n].in # 0 PROVE t[t[n].in].auth # "yes"
    BY <1>6 DEF AuthRule
  <2>1. tree[n].in \in 1..N /\ tree[tree[n].in].auth # "yes"
    BY <1>1, <1>5 DEF AuthRule
  <2> QED
    BY <1>5, <2>1
<1> QED
  BY <1>2, <1>6, <1>7

LEMMA SlotsAreListed ==
  ASSUME NEW S, IsFiniteSet(S)
  PROVE  SetToSeq(S) \in [1..Cardinality(S) -> S] /\ Cardinality(S) \in Nat
<1>1. Cardinality(S) \in Nat /\ ExistsBijection(1..Cardinality(S), S)
  BY FS_CardinalityType
<1>2. \E f \in [1..Cardinality(S) -> S] : IsInjective(f)
  BY <1>1 DEF ExistsBijection, Bijection, Injection
<1> QED
  BY <1>1, <1>2 DEF SetToSeq

PolicyPage(kind, in, type, path, noindex) ==
  [in |-> in, kind |-> kind, type |-> type, path |-> path, enabled |-> TRUE, auth |-> "unset",
   noindex |-> noindex, render |-> "server", catalog |-> FALSE]

LEMMA PolicyPageIs ==
  ASSUME NEW kind \in {"parent", "leaf"}, NEW in \in Nat, NEW type \in PageTypes \union {NoType}, NEW path, IsPath(path),
         NEW noindex \in {"yes", "unset"}
  PROVE  LET page == PolicyPage(kind, in, type, path, noindex) IN IsPage(page) /\ page.in = in /\ page.kind = kind
BY DEF PolicyPage, IsPage, PageInput

\* The container of the legal pages, which is the page n, and they.
PolicyShape(p, n) ==
  /\ Len(p) \in Nat /\ p \in Seq(ToSet(p))
  /\ \A i \in 1..Len(p) : IsPage(p[i]) /\ p[i].in = IF i = 1 THEN 0 ELSE n
  /\ Len(p) > 0 => p[1].kind = "parent"

LEMMA PolicyIs ==
  ASSUME NEW tree, IsTree(tree), NEW def \in Settings
  PROVE  PolicyShape(PolicySection(tree, def), Len(tree) + 1)
<1> DEFINE n == Len(tree) + 1
           M == Managed(tree, def)
           slots == SetToSeq(M)
           head == PolicyPage("parent", 0, NoType, [l \in Tongues |-> <<"policy">>], "unset")
           leaf(s) == PolicyPage("leaf", n, def.legal[s].type, LegalPath(s, def), "yes")
           rest == [i \in DOMAIN slots |-> leaf(slots[i])]
           p == PolicySection(tree, def)
<1>1. p = IF slots = <<>> THEN <<>> ELSE <<head>> \o rest
  BY DEF PolicySection, PolicyPage
<1>2. n \in Nat
  BY TreeIs
<1>3. M \subseteq DOMAIN def.legal /\ DOMAIN def.legal \subseteq {"privacy", "cookie"}
  BY SettingsAreTyped DEF Managed, LegalPages
<1>4. IsFiniteSet(M)
  <2>1. IsFiniteSet({"privacy", "cookie"})
    <3>1. IsFiniteSet({"privacy"}) /\ IsFiniteSet({"cookie"})
      BY FS_Singleton
    <3> DEFINE S == {"privacy"}
               T == {"cookie"}
    <3> HIDE DEF S, T
    <3>2. IsFiniteSet(S \union T)
      BY <3>1, FS_Union DEF S, T
    <3>3. {"privacy", "cookie"} = S \union T
      BY DEF S, T
    <3> QED
      BY <3>2, <3>3
  <2> HIDE DEF M
  <2> QED
    BY <1>3, <2>1, FS_Subset
<1>5. slots \in [1..Cardinality(M) -> M] /\ Cardinality(M) \in Nat
  <2> HIDE DEF M
  <2> QED
    BY <1>4, SlotsAreListed
<1>6. IsPage(head) /\ head.in = 0 /\ head.kind = "parent"
  <2> DEFINE path == [l \in Tongues |-> <<"policy">>]
  <2>1. IsPath(path)
    <3>1. <<"policy">> \in Seq(Segments)
      BY SegmentsAreKnown
    <3> QED
      BY <3>1 DEF IsPath
  <2> HIDE DEF path
  <2>2. PolicyPage("parent", 0, NoType, path, "unset").in = 0
    BY DEF PolicyPage
  <2>3. IsPage(PolicyPage("parent", 0, NoType, path, "unset"))
    BY <2>1, PolicyPageIs
  <2>4. PolicyPage("parent", 0, NoType, path, "unset").kind = "parent"
    BY DEF PolicyPage
  <2> QED
    BY <2>2, <2>3, <2>4 DEF path
<1>7. ASSUME NEW s \in M PROVE IsPage(leaf(s)) /\ leaf(s).in = n
  <2>1. def.legal[s].type \in PageTypes /\ IsPath(def.legal[s].path)
    BY <1>3, SettingsAreTyped
  <2>2. IsPath(LegalPath(s, def))
    <3> DEFINE own == def.legal[s].path
               engine == [l \in Tongues |-> IF s = "cookie" THEN <<"cookie">> ELSE <<"privacy">>]
    <3>1. <<"cookie">> \in Seq(Segments) /\ <<"privacy">> \in Seq(Segments)
      BY SegmentsAreKnown
    <3>2. \A l \in Tongues : engine[l] \in Seq(Segments)
      BY <3>1
    <3>3. \A l \in DOMAIN own : own[l] \in Seq(Segments)
      BY <2>1 DEF IsPath
    <3>4. LegalPath(s, def) = [l \in Tongues |-> IF l \in DOMAIN own THEN own[l] ELSE engine[l]]
      BY DEF LegalPath
    <3> HIDE DEF own, engine
    <3> QED
      BY <3>2, <3>3, <3>4 DEF IsPath
  <2> DEFINE type == def.legal[s].type
             path == LegalPath(s, def)
  <2> HIDE DEF n, type, path
  <2>3. IsPage(PolicyPage("leaf", n, type, path, "yes"))
    BY <1>2, <2>1, <2>2, PolicyPageIs DEF type, path
  <2>4. PolicyPage("leaf", n, type, path, "yes").in = n
    BY DEF PolicyPage
  <2> QED
    BY <2>3, <2>4 DEF type, path
<1> HIDE DEF p, head, leaf, n, M, slots
<1>8. CASE slots = <<>>
  <2>1. p = <<>> /\ Len(p) = 0 /\ p \in Seq(ToSet(p))
    BY <1>1, <1>8
  <2> QED
    BY <2>1 DEF PolicyShape, p, n
<1>9. CASE slots # <<>>
  <2> DEFINE k == Cardinality(M)
             A == {page : page \in {head} \union {leaf(s) : s \in M}}
             first == <<head>>
  <2>1. first \in Seq(A) /\ Len(first) = 1 /\ first[1] = head
    OBVIOUS
  <2>2. rest \in [1..k -> A] /\ \A i \in 1..k : rest[i] = leaf(slots[i]) /\ slots[i] \in M
    BY <1>5
  <2> HIDE DEF k, A, rest, first
  <2>3. k \in Nat
    BY <1>5 DEF k
  <2>4. rest \in Seq(A) /\ DOMAIN rest = 1..k
    BY <2>2, <2>3, SeqDef
  <2>5. Len(rest) = k
    BY <2>3, <2>4, LengthIs
  <2>6. p = first \o rest
    BY <1>1, <1>9 DEF first
  <2>7. Seam(A, first, rest, Len(first), Len(rest))
    BY <2>1, <2>4, SeamIs
  <2>8. p \in Seq(A) /\ Len(p) = 1 + k /\ p[1] = head /\ \A i \in 1..k : p[1 + i] = leaf(slots[i]) /\ slots[i] \in M
    BY <2>1, <2>2, <2>5, <2>6, <2>7 DEF Seam
  <2>9. p \in Seq(ToSet(p))
    <3>1. DOMAIN p = 1..(1 + k) /\ p \in [1..(1 + k) -> ToSet(p)]
      <4>1. DOMAIN p = 1..(1 + k) /\ p = [i \in DOMAIN p |-> p[i]]
        BY <2>8, LenProperties
      <4> QED
        BY <4>1 DEF ToSet
    <3> DEFINE T == ToSet(p)
               l == 1 + k
    <3>2. l \in Nat
      BY <2>3
    <3> HIDE DEF T, l
    <3>3. p \in [1..l -> T]
      BY <3>1 DEF T, l
    <3>4. p \in Seq(T)
      BY <3>2, <3>3, SeqDef
    <3> QED
      BY <3>4 DEF T
  <2>10. ASSUME NEW i \in 1..Len(p) PROVE IsPage(p[i]) /\ p[i].in = IF i = 1 THEN 0 ELSE n
    <3>1. CASE i = 1
      BY <1>6, <2>8, <3>1
    <3>2. CASE i # 1
      <4>1. i - 1 \in 1..k /\ 1 + (i - 1) = i
        BY <2>3, <2>8, <3>2
      <4>2. p[i] = leaf(slots[i - 1]) /\ slots[i - 1] \in M
        BY <2>8, <4>1
      <4> QED
        BY <1>7, <3>2, <4>2
    <3> QED
      BY <3>1, <3>2
  <2>11. Len(p) \in Nat /\ p[1].kind = "parent"
    BY <1>6, <2>3, <2>8
  <2> QED
    BY <2>9, <2>10, <2>11 DEF PolicyShape, p, n
<1> QED
  BY <1>8, <1>9

LEMMA JoinedTree ==
  ASSUME NEW tree, IsTree(tree), NEW p, PolicyShape(p, Len(tree) + 1)
  PROVE  IsTree(tree \o p)
<1> DEFINE m == Len(tree)
           k == Len(p)
           A == ToSet(tree) \union ToSet(p)
           t == tree \o p
<1>1. m \in Nat /\ \A n \in 1..m : IsPage(tree[n]) /\ tree[n].in \in 0..(n - 1) /\ (tree[n].in # 0 => tree[tree[n].in].kind = "parent")
  BY TreeIs DEF IsTree
<1>2. k \in Nat /\ (\A i \in 1..k : IsPage(p[i]) /\ p[i].in = IF i = 1 THEN 0 ELSE m + 1) /\ (k > 0 => p[1].kind = "parent")
  BY DEF PolicyShape
<1>3. tree \in Seq(A) /\ p \in Seq(A)
  <2>1. tree \in Seq(ToSet(tree)) /\ p \in Seq(ToSet(p))
    BY DEF IsTree, PolicyShape
  <2>2. \A S, T : S \subseteq T => Seq(S) \subseteq Seq(T)
    <3>1. \A S, T : S \subseteq T => \A n \in Nat : [1..n -> S] \subseteq [1..n -> T]
      OBVIOUS
    <3> QED
      BY <3>1, SeqDef
  <2> QED
    BY <2>1, <2>2
<1>4. t \in Seq(A) /\ Len(t) = m + k /\ (\A i \in 1..m : t[i] = tree[i]) /\ \A i \in 1..k : t[m + i] = p[i]
  BY <1>3, SeamIs DEF Seam
<1> HIDE DEF t, m, k
<1>5. \A n \in 1..(m + k) : n \in 1..m \/ (n - m \in 1..k /\ m + (n - m) = n)
  BY <1>1, <1>2
<1>6. ASSUME NEW n \in 1..(m + k) PROVE IsPage(t[n]) /\ t[n].in \in 0..(n - 1) /\ (t[n].in # 0 => t[t[n].in].kind = "parent")
  <2>1. CASE n \in 1..m
    <3>1. tree[n].in \in 0..(n - 1) /\ (tree[n].in # 0 => tree[n].in \in 1..m)
      BY <1>1, <2>1
    <3> QED
      BY <1>1, <1>4, <2>1, <3>1
  <2>2. CASE n - m \in 1..k /\ m + (n - m) = n
    <3> DEFINE i == n - m
    <3>1. i \in 1..k /\ t[n] = p[i] /\ i \in Nat /\ n = m + i
      BY <1>4, <2>2
    <3> HIDE DEF i
    <3>2. CASE i = 1
      BY <1>1, <1>2, <3>1, <3>2
    <3>3. CASE i # 1
      <4>1. t[n].in = m + 1 /\ 1 \in 1..k /\ k > 0 /\ IsPage(t[n])
        BY <1>2, <3>1, <3>3
      <4>2. m + 1 \in 0..(n - 1)
        BY <1>1, <3>1, <3>3
      <4>3. t[m + 1].kind = "parent"
        BY <1>2, <1>4, <4>1
      <4> QED
        BY <4>1, <4>2, <4>3
    <3> QED
      BY <3>2, <3>3
  <2> QED
    BY <1>5, <2>1, <2>2
<1>7. t \in Seq(ToSet(t))
  <2> DEFINE l == m + k
             T == ToSet(t)
  <2>1. l \in Nat /\ DOMAIN t = 1..l /\ t = [i \in DOMAIN t |-> t[i]]
    BY <1>1, <1>2, <1>4, LenProperties
  <2>2. t \in [1..l -> T]
    BY <2>1 DEF ToSet
  <2> HIDE DEF l, T
  <2>3. t \in Seq(T)
    BY <2>1, <2>2, SeqDef
  <2> QED
    BY <2>3 DEF T
<1> QED
  BY <1>4, <1>6, <1>7 DEF IsTree, t

LEMMA SitePagesAre ==
  ASSUME NEW tree, IsTree(tree), NEW def \in Settings
  PROVE  IsTree(SitePages(tree, def)) /\ AuthRule(SitePages(tree, def))
<1> DEFINE p == PolicySection(tree, def)
           t == tree \o p
           u == Inherit(t)
<1>1. IsTree(t)
  BY PolicyIs, JoinedTree
<1> HIDE DEF t
<1>2. IsTree(u) /\ AuthRule(u)
  BY <1>1, InheritIs
<1> HIDE DEF u
<1>3. IsTree(WithoutLogin(u, def)) /\ AuthRule(WithoutLogin(u, def))
  BY <1>2, WithoutLoginIs
<1> QED
  BY <1>3 DEF SitePages, t, u

\* The builder has thrown, or what it made is of one tree.
SiteBuilt ==
  /\ IsTree(built.pages) /\ AuthRule(built.pages) /\ OneType(built.pages) /\ OnePath(built.pages)
  /\ built.map = PageMap(built.pages, definition) /\ built.server = ServerRenderEntries(built.pages)
  /\ built.sitemap = SitemapEntries(built.pages, definition) /\ built.audit = AuditPaths(built.pages)

SiteIInv == definition \in Settings /\ IsTree(pages) /\ built = BuildSite(pages, definition)

LEMMA BuiltIs ==
  ASSUME SiteIInv
  PROVE  (built.map = {} /\ built.server = {} /\ built.sitemap = {} /\ built.audit = {}) \/ SiteBuilt
<1> DEFINE all == SitePages(pages, definition)
<1>1. IsTree(all) /\ AuthRule(all)
  BY SitePagesAre DEF SiteIInv
<1> HIDE DEF all
<1>2. built = BuildSite(pages, definition)
  BY DEF SiteIInv
<1>3. CASE (definition.cookies => "cookie" \in DOMAIN definition.legal) /\ OneType(all) /\ OnePath(all) /\ SlotsResolve(all, definition)
  <2>1. built = [ok |-> TRUE, pages |-> all, map |-> PageMap(all, definition), server |-> ServerRenderEntries(all),
                 sitemap |-> SitemapEntries(all, definition), dynamic |-> DynamicPages(all, definition), audit |-> AuditPaths(all)]
    BY <1>2, <1>3 DEF BuildSite, all
  <2>2. built.pages = all /\ built.map = PageMap(all, definition) /\ built.server = ServerRenderEntries(all)
        /\ built.sitemap = SitemapEntries(all, definition) /\ built.audit = AuditPaths(all)
    BY <2>1
  <2> QED
    BY <1>1, <1>3, <2>2 DEF SiteBuilt
<1>4. CASE ~((definition.cookies => "cookie" \in DOMAIN definition.legal) /\ OneType(all) /\ OnePath(all) /\ SlotsResolve(all, definition))
  <2>1. built = [ok |-> FALSE, pages |-> <<>>, map |-> {}, server |-> {}, sitemap |-> {}, dynamic |-> {}, audit |-> {}]
    BY <1>2, <1>4 DEF BuildSite, all
  <2> QED
    BY <2>1
<1> QED
  BY <1>3, <1>4

LEMMA DeclaredTree ==
  ASSUME NEW tree, IsTree(tree), NEW page, IsPage(page),
         NEW in, in = 0 \/ (in \in DOMAIN tree /\ tree[in].kind = "parent")
  PROVE  IsTree(Append(tree, [page EXCEPT !.in = in]))
<1> DEFINE N == Len(tree)
           new == [page EXCEPT !.in = in]
           t == Append(tree, new)
           A == ToSet(tree) \union {new}
<1>1. N \in Nat /\ DOMAIN tree = 1..N
  BY TreeIs
<1>2. in \in Nat /\ in \in 0..N
  BY <1>1
<1>3. IsPage(new) /\ new.in = in
  <2>1. page \in PageInput({page.path}) /\ IsPath(page.path)
    BY DEF IsPage
  <2>2. new \in PageInput({page.path}) /\ new.path = page.path /\ new.in = in
    BY <1>2, <2>1 DEF PageInput
  <2> HIDE DEF new
  <2> QED
    BY <2>1, <2>2 DEF IsPage
<1> HIDE DEF new
<1>4. tree \in Seq(A) /\ new \in A
  <2>1. tree \in Seq(ToSet(tree))
    BY DEF IsTree
  <2>2. \A S, T : S \subseteq T => Seq(S) \subseteq Seq(T)
    <3>1. \A S, T : S \subseteq T => \A n \in Nat : [1..n -> S] \subseteq [1..n -> T]
      OBVIOUS
    <3> QED
      BY <3>1, SeqDef
  <2> QED
    BY <2>1, <2>2
<1> HIDE DEF A
<1>5. t \in Seq(A) /\ Len(t) = N + 1 /\ t[N + 1] = new /\ \A i \in 1..N : t[i] = tree[i]
  BY <1>4, Appended
<1> HIDE DEF t
<1>6. t \in Seq(ToSet(t))
  <2> DEFINE l == N + 1
             T == ToSet(t)
  <2>1. l \in Nat /\ DOMAIN t = 1..l /\ t = [i \in DOMAIN t |-> t[i]]
    BY <1>1, <1>5, LenProperties
  <2>2. t \in [1..l -> T]
    BY <2>1 DEF ToSet
  <2> HIDE DEF l, T
  <2>3. t \in Seq(T)
    BY <2>1, <2>2, SeqDef
  <2> QED
    BY <2>3 DEF T
<1> HIDE DEF N
<1>7. ASSUME NEW n \in 1..(N + 1) PROVE IsPage(t[n]) /\ t[n].in \in 0..(n - 1) /\ (t[n].in # 0 => t[t[n].in].kind = "parent")
  <2>1. CASE n = N + 1
    <3>1. t[n] = new /\ n - 1 = N
      BY <1>1, <1>5, <2>1
    <3>2. in # 0 => t[in] = tree[in] /\ tree[in].kind = "parent"
      BY <1>1, <1>5
    <3> QED
      BY <1>2, <1>3, <3>1, <3>2
  <2>2. CASE n # N + 1
    <3>1. n \in 1..N
      BY <1>1, <2>2
    <3>2. IsPage(tree[n]) /\ tree[n].in \in 0..(n - 1) /\ (tree[n].in # 0 => tree[tree[n].in].kind = "parent")
      BY <3>1 DEF IsTree, N
    <3>3. t[n] = tree[n] /\ (tree[n].in # 0 => tree[n].in \in 1..N)
      BY <1>1, <1>5, <3>1, <3>2
    <3> QED
      BY <1>5, <3>2, <3>3
  <2> QED
    BY <2>1, <2>2
<1> QED
  BY <1>5, <1>6, <1>7 DEF IsTree, t, new

LEMMA SiteStarts == SiteInit => SiteIInv
BY DraftsAreTrees DEF SiteInit, SiteIInv

LEMMA SiteStays == SiteIInv /\ [SiteNext]_siteVars => SiteIInv'
<1> SUFFICES ASSUME SiteIInv, [SiteNext]_siteVars PROVE SiteIInv'
  OBVIOUS
<1>1. ASSUME NEW page \in Declarations, NEW in \in Holders, DeclarePage(page, in) PROVE SiteIInv'
  <2>1. in = 0 \/ (in \in DOMAIN pages /\ pages[in].kind = "parent")
    BY DEF Holders
  <2>2. IsTree(pages) /\ IsPage(page) /\ definition \in Settings
    BY DeclarationsAreTyped DEF SiteIInv
  <2>3. IsTree(Append(pages, [page EXCEPT !.in = in]))
    BY <2>1, <2>2, DeclaredTree
  <2>4. pages' = Append(pages, [page EXCEPT !.in = in]) /\ built' = BuildSite(pages', definition) /\ definition' = definition
    BY <1>1 DEF DeclarePage
  <2>5. BuildSite(pages', definition) = BuildSite(pages', definition')
    BY <2>4
  <2> QED
    BY <2>2, <2>3, <2>4, <2>5 DEF SiteIInv
<1>2. CASE UNCHANGED siteVars
  <2>1. pages' = pages /\ definition' = definition /\ built' = built
    BY <1>2 DEF siteVars
  <2>2. BuildSite(pages, definition) = BuildSite(pages', definition')
    BY <2>1
  <2> QED
    BY <2>1, <2>2 DEF SiteIInv
<1> QED
  BY <1>1, <1>2 DEF SiteNext

-----------------------------------------------------------------------------
(* What the pages of a site open                                           *)

LEMMA HoldersAreParents ==
  ASSUME NEW tree, IsTree(tree)
  PROVE  \A n \in 0..Len(tree) : \A k \in Around(tree, n) : k # n => tree[k].kind = "parent"
<1> DEFINE N == Len(tree)
           S == {n \in Nat : \A k \in Around(tree, n) : k # n => tree[k].kind = "parent"}
<1>1. N \in Nat
  BY TreeIs
<1>2. ASSUME NEW n \in 0..N, \A j \in 0..N : j < n => j \in S PROVE n \in S
  <2>1. CASE n = 0
    BY <2>1, AroundIs
  <2>2. CASE n # 0
    <3> DEFINE p == tree[n].in
    <3>1. n \in 1..N /\ p \in 0..(n - 1) /\ (p # 0 => tree[p].kind = "parent")
      BY <1>1, <2>2, TreeIs DEF IsTree
    <3>2. Around(tree, n) = {n} \union Around(tree, p)
      BY <3>1, AroundIs
    <3>3. p \in 0..N /\ p < n /\ Around(tree, p) \subseteq 1..p
      BY <1>1, <3>1, AroundAreBefore
    <3> HIDE DEF p
    <3>4. p \in S
      BY <1>2, <3>3
    <3>5. \A k \in Around(tree, p) : k # 0 /\ (k = p => p # 0)
      BY <3>1, <3>3
    <3> QED
      BY <1>1, <3>1, <3>2, <3>4, <3>5
  <2> QED
    BY <2>1, <2>2
<1> HIDE DEF S
<1>3. \A n \in 0..N : n \in S
  BY <1>1, <1>2, AfterTheSmaller
<1> QED
  BY <1>3 DEF S

\* The leaves the builder reaches are those the routes have.
LEMMA LeavesAre ==
  ASSUME NEW tree, IsTree(tree)
  PROVE  Leaves(tree) = {n \in 1..Len(tree) : tree[n].kind = "leaf" /\ RoutesTo(tree, n)}
<1>1. DOMAIN tree = 1..Len(tree) /\ Len(tree) \in Nat
  BY TreeIs
<1>2. ASSUME NEW n \in 1..Len(tree), tree[n].kind = "leaf" PROVE AllOn(tree, n) <=> RoutesTo(tree, n)
  <2>1. n \in 0..Len(tree)
    BY <1>1
  <2>2. \A k \in Around(tree, n) : tree[k].kind # "external"
    BY <1>2, <2>1, HoldersAreParents
  <2> QED
    BY <2>2 DEF AllOn, RoutesTo, Routable
<1> QED
  BY <1>1, <1>2, ReachedIs DEF Leaves

\* An address of a page is as long as its path, which takes it.
LEMMA AddressIs ==
  ASSUME NEW A, NEW path \in Seq(A), NEW url \in Addresses(path)
  PROVE  /\ url \in Seq(ToSet(url)) /\ Len(url) = Len(path) /\ Takes(path, url)
         /\ ~HasParam(path) => url = path
<1> DEFINE l == Len(path)
           T == ToSet(url)
<1>1. l \in Nat /\ DOMAIN path = 1..l
  BY LenProperties
<1>2. DOMAIN url = 1..l /\ url \in [1..l -> T] /\ (\A i \in 1..l : path[i] \in ParamSegs \union {url[i]})
      /\ (~HasParam(path) => url = path)
  <2>1. CASE HasParam(path)
    <3>1. PICK v : url = ApplyPathParams(path, v)
      BY <2>1 DEF Addresses
    <3> DEFINE w == [i \in DOMAIN path |-> IF path[i] \in ParamSegs THEN v[Params(path, i)] ELSE path[i]]
    <3>2. url = w
      BY <3>1 DEF ApplyPathParams
    <3>3. DOMAIN url = 1..l /\ \A i \in 1..l : path[i] \notin ParamSegs => url[i] = path[i]
      BY <1>1, <3>2
    <3>4. url = [i \in 1..l |-> url[i]]
      BY <1>1, <3>2
    <3> HIDE DEF w
    <3>5. \A i \in 1..l : url[i] \in T
      BY <3>3 DEF ToSet
    <3> HIDE DEF T
    <3>6. url \in [1..l -> T]
      BY <3>4, <3>5
    <3> QED
      BY <2>1, <3>3, <3>6
  <2>2. CASE ~HasParam(path)
    <3>1. url = path
      BY <2>2 DEF Addresses
    <3>2. path = [i \in 1..l |-> path[i]]
      BY <1>1
    <3>3. url \in [1..l -> T]
      BY <3>1, <3>2 DEF ToSet
    <3> QED
      BY <1>1, <3>1, <3>3
  <2> QED
    BY <2>1, <2>2
<1> HIDE DEF T, l
<1>3. url \in Seq(T)
  BY <1>1, <1>2, SeqDef
<1>4. Len(url) = l
  BY <1>1, <1>2, <1>3, LengthIs
<1>5. Takes(path, url)
  BY <1>1, <1>2, <1>4 DEF Takes, l
<1> QED
  BY <1>2, <1>3, <1>4, <1>5 DEF T, l

\* Two paths of the same length, one of which takes the other and has no parameter
LEMMA TakenIsSame ==
  ASSUME NEW A, NEW path \in Seq(A), NEW B, NEW url \in Seq(B), Takes(path, url), Len(path) = Len(url), ~HasParam(path)
  PROVE  path = url
<1>1. DOMAIN path = 1..Len(path) /\ DOMAIN url = 1..Len(path) /\ Len(path) \in Nat
  BY LenProperties
<1>2. \A i \in 1..Len(path) : path[i] = url[i]
  BY <1>1 DEF Takes, HasParam
<1>3. path = [i \in 1..Len(path) |-> path[i]] /\ url = [i \in 1..Len(path) |-> url[i]]
  BY <1>1
<1> QED
  BY <1>2, <1>3
LEMMA PathBegins ==
  ASSUME NEW tree, IsTree(tree), NEW lang \in Tongues, lang # MainLang
  PROVE  \A n \in 0..Len(tree) : FullPath(tree, n, lang) # <<>> /\ FullPath(tree, n, lang)[1] = lang
<1> DEFINE N == Len(tree)
           p(n) == FullPath(tree, n, lang)
           S == {n \in Nat : Len(p(n)) > 0 /\ p(n)[1] = lang}
<1>1. N \in Nat
  BY TreeIs
<1>2. ASSUME NEW n \in 0..N, \A j \in 0..N : j < n => j \in S PROVE n \in S
  <2>1. CASE n = 0
    <3>1. p(n) = <<lang>>
      BY <2>1, FullPathIs DEF LangPrefix
    <3> HIDE DEF p
    <3> QED
      BY <2>1, <3>1
  <2>2. CASE n # 0
    <3> DEFINE k == tree[n].in
               u == p(k)
               v == ResolvePath(tree[n].path, lang)
    <3>1. n \in 1..N /\ k \in 0..(n - 1) /\ IsPath(tree[n].path)
      <4>1. n \in 1..N
        BY <1>1, <2>2
      <4>2. IsPage(tree[n])
        BY <4>1 DEF IsTree
      <4>3. k \in 0..(n - 1)
        BY <4>1, TreeIs
      <4> QED
        BY <4>1, <4>2, <4>3 DEF IsPage
    <3>2. k \in 0..N /\ k < n
      BY <1>1, <3>1
    <3>3. u \in Seq(Segments) /\ v \in Seq(Segments) /\ p(n) = u \o v
      BY <3>1, <3>2, FullPathIs, SegmentsOfPath
    <3>4. Len(u) > 0 /\ u[1] = lang
      BY <1>2, <3>2
    <3> HIDE DEF u, v, p, k
    <3>5. Len(u) \in Nat /\ Len(v) \in Nat
      BY <3>3, LenProperties
    <3>6. Len(u \o v) = Len(u) + Len(v) /\ \A i \in 1..Len(u) : (u \o v)[i] = u[i]
      BY <3>3, SeamIs DEF Seam
    <3> QED
      BY <1>1, <3>3, <3>4, <3>5, <3>6
  <2> QED
    BY <2>1, <2>2
<1> HIDE DEF S
<1>3. \A n \in 0..N : n \in S
  BY <1>1, <1>2, AfterTheSmaller
<1> QED
  BY <1>3 DEF S

LEMMA MatchesAre ==
  ASSUME SiteBuilt, NEW B, NEW url \in Seq(B)
  PROVE  /\ \A m \in Matches(url) :
              /\ m.node \in Leaves(built.pages) /\ m.at \in Nat /\ m.lang \in Tongues
              /\ Takes(FullPath(built.pages, m.node, m.lang), url)
              /\ Len(FullPath(built.pages, m.node, m.lang)) = Len(url)
         /\ \A n \in Leaves(built.pages), lang \in Tongues :
              Takes(FullPath(built.pages, n, lang), url) /\ Len(FullPath(built.pages, n, lang)) = Len(url)
                => \E m \in Matches(url) : m.node = n
<1> DEFINE T == built.pages
           Candidates == {[node |-> n, lang |-> SiteLangs[j], at |-> j] :
                            n \in {k \in DOMAIN T : T[k].kind = "leaf"}, j \in DOMAIN SiteLangs}
<1>1. IsTree(T)
  BY DEF SiteBuilt
<1>2. DOMAIN T = 1..Len(T) /\ Leaves(T) = {n \in 1..Len(T) : T[n].kind = "leaf" /\ RoutesTo(T, n)}
  BY <1>1, TreeIs, LeavesAre
<1>3. DOMAIN SiteLangs \subseteq Nat /\ \A j \in DOMAIN SiteLangs : SiteLangs[j] \in Tongues
  BY LanguagesAreListed, LenProperties DEF Tongues, ToSet
<1>4. \A lang \in Tongues : \E j \in DOMAIN SiteLangs : SiteLangs[j] = lang
  BY DEF Tongues, ToSet
<1>5. \A m : m \in Matches(url) <=> m \in Candidates /\ <<>> \in LeftOver(T, m.node, m.lang, url)
  BY DEF Matches
<1>6. ASSUME NEW n \in 1..Len(T), NEW lang \in Tongues
      PROVE  <<>> \in LeftOver(T, n, lang, url) <=>
               RoutesTo(T, n) /\ Takes(FullPath(T, n, lang), url) /\ Len(FullPath(T, n, lang)) = Len(url)
  BY <1>1, <1>6, RouteTakesAll
<1>7. \A m \in Candidates : /\ m.node \in 1..Len(T) /\ T[m.node].kind = "leaf" /\ m.at \in Nat /\ m.lang \in Tongues
  BY <1>2, <1>3
<1>8. \A n \in 1..Len(T), lang \in Tongues : T[n].kind = "leaf" => \E m \in Candidates : m.node = n /\ m.lang = lang
  <2> SUFFICES ASSUME NEW n \in 1..Len(T), NEW lang \in Tongues, T[n].kind = "leaf"
               PROVE  \E m \in Candidates : m.node = n /\ m.lang = lang
    OBVIOUS
  <2>1. PICK j \in DOMAIN SiteLangs : SiteLangs[j] = lang
    BY <1>4
  <2> DEFINE m == [node |-> n, lang |-> SiteLangs[j], at |-> j]
  <2>2. m \in Candidates /\ m.node = n /\ m.lang = lang
    BY <1>2, <2>1
  <2> QED
    BY <2>2
<1> HIDE DEF T, Candidates
<1>9. ASSUME NEW m \in Matches(url)
      PROVE  /\ m.node \in Leaves(T) /\ m.at \in Nat /\ m.lang \in Tongues
             /\ Takes(FullPath(T, m.node, m.lang), url) /\ Len(FullPath(T, m.node, m.lang)) = Len(url)
  <2>1. m \in Candidates /\ <<>> \in LeftOver(T, m.node, m.lang, url)
    BY <1>5
  <2>2. m.node \in 1..Len(T) /\ T[m.node].kind = "leaf" /\ m.at \in Nat /\ m.lang \in Tongues
    BY <1>7, <2>1
  <2> QED
    BY <1>2, <1>6, <2>1, <2>2
<1>10. ASSUME NEW n \in Leaves(T), NEW lang \in Tongues,
              Takes(FullPath(T, n, lang), url), Len(FullPath(T, n, lang)) = Len(url)
       PROVE  \E m \in Matches(url) : m.node = n
  <2>1. n \in 1..Len(T) /\ T[n].kind = "leaf" /\ RoutesTo(T, n)
    BY <1>2
  <2>2. PICK m \in Candidates : m.node = n /\ m.lang = lang
    BY <1>8, <2>1
  <2>3. <<>> \in LeftOver(T, m.node, m.lang, url)
    BY <1>6, <1>10, <2>1, <2>2
  <2> QED
    BY <1>5, <2>2, <2>3
<1> QED
  BY <1>9, <1>10 DEF T

LEMMA OpensSome ==
  ASSUME NEW url, \A m \in Matches(url) : m.at \in Nat /\ m.node \in Nat
  PROVE  /\ Opens(url) \subseteq Matches(url)
         /\ Matches(url) # {} => Opens(url) # {}
<1>1. Opens(url) \subseteq Matches(url)
  BY DEF Opens
<1>2. ASSUME Matches(url) # {} PROVE Opens(url) # {}
  <2> DEFINE M == Matches(url)
             Ats == {m.at : m \in M}
  <2> HIDE DEF M
  <2>1. Ats \in SUBSET Nat /\ Ats # {}
    BY <1>2 DEF M
  <2>2. PICK a \in Ats : \A b \in Ats : a <= b
    <3> HIDE DEF Ats
    <3> QED
      BY <2>1, Least
  <2> DEFINE Nodes == {m.node : m \in {k \in M : k.at = a}}
  <2>3. Nodes \in SUBSET Nat /\ Nodes # {}
    BY <2>2 DEF M
  <2>4. PICK x \in Nodes : \A y \in Nodes : x <= y
    <3> HIDE DEF Nodes
    <3> QED
      BY <2>3, Least
  <2>5. PICK m \in M : m.at = a /\ m.node = x
    BY <2>4
  <2>6. \A k \in M : m.at < k.at \/ (m.at = k.at /\ m.node <= k.node)
    <3> SUFFICES ASSUME NEW k \in M PROVE m.at < k.at \/ (m.at = k.at /\ m.node <= k.node)
      OBVIOUS
    <3>1. k.at \in Nat /\ a \in Nat /\ a <= k.at
      BY <2>1, <2>2 DEF M
    <3>2. CASE k.at = a
      <4>1. k.node \in Nodes
        BY <3>2
      <4> QED
        BY <2>4, <2>5, <3>2, <4>1
    <3>3. CASE k.at # a
      BY <2>5, <3>1, <3>3
    <3> QED
      BY <3>2, <3>3
  <2>7. m \in Opens(url)
    BY <2>5, <2>6 DEF Opens, M
  <2> QED
    BY <2>7
<1> QED
  BY <1>1, <1>2

\* What the map of the pages holds of the pages that are not external.
LEMMA InnerIs ==
  ASSUME SiteBuilt
  PROVE  /\ \A e \in Inner : /\ e.node \in Leaves(built.pages) /\ e.lang \in Tongues
                             /\ e.path = FullPath(built.pages, e.node, e.lang)
                             /\ e.type = built.pages[e.node].type
         /\ \A n \in Leaves(built.pages), lang \in Tongues :
              \E e \in Inner : e.node = n /\ e.lang = lang /\ e.path = FullPath(built.pages, n, lang)
<1> DEFINE T == built.pages
           entry(n, lang) ==
             [node |-> n, type |-> T[n].type, lang |-> lang, external |-> T[n].kind = "external",
              path |-> IF T[n].kind = "external" THEN <<>> ELSE FullPath(T, n, lang),
              noindex |-> T[n].kind = "leaf" /\ Noindex(T[n], definition)]
<1>1. built.map = {entry(n, lang) : n \in Reached(T), lang \in Tongues}
  BY DEF SiteBuilt, PageMap
<1>2. \A n, lang : /\ entry(n, lang).node = n /\ entry(n, lang).lang = lang /\ entry(n, lang).type = T[n].type
                   /\ entry(n, lang).external = (T[n].kind = "external")
                   /\ T[n].kind # "external" => entry(n, lang).path = FullPath(T, n, lang)
  OBVIOUS
<1>3. \A n \in Reached(T) : T[n].kind # "external" <=> T[n].kind = "leaf"
  <2>1. \A n \in Reached(T) : n \in 1..Len(T) /\ T[n].kind # "parent"
    BY TreeIs, ReachedIs DEF SiteBuilt
  <2>2. \A n \in 1..Len(T) : T[n].kind \in {"parent", "leaf", "external"}
    BY DEF SiteBuilt, IsTree, IsPage, PageInput
  <2> QED
    BY <2>1, <2>2
<1> HIDE DEF entry, T
<1>4. ASSUME NEW e \in Inner
      PROVE  e.node \in Leaves(T) /\ e.lang \in Tongues /\ e.path = FullPath(T, e.node, e.lang) /\ e.type = T[e.node].type
  <2>1. e \in built.map /\ ~e.external
    BY DEF Inner
  <2>2. PICK n \in Reached(T), lang \in Tongues : e = entry(n, lang)
    BY <1>1, <2>1
  <2>3. T[n].kind = "leaf" /\ n \in Leaves(T)
    BY <1>2, <1>3, <2>1, <2>2 DEF Leaves
  <2> QED
    BY <1>2, <2>2, <2>3
<1>5. ASSUME NEW n \in Leaves(T), NEW lang \in Tongues
      PROVE  \E e \in Inner : e.node = n /\ e.lang = lang /\ e.path = FullPath(T, n, lang)
  <2>1. n \in Reached(T) /\ T[n].kind = "leaf"
    BY DEF Leaves
  <2>2. entry(n, lang) \in built.map
    BY <1>1, <2>1
  <2>3. entry(n, lang) \in Inner
    BY <1>2, <2>1, <2>2 DEF Inner
  <2> QED
    BY <1>2, <2>1, <2>3
<1> QED
  BY <1>4, <1>5 DEF T

LEMMA PagesOpen ==
  ASSUME SiteBuilt, NoPageIsALanguage, NEW e \in Inner, NEW url \in Addresses(e.path)
  PROVE  /\ Opens(url) # {}
         /\ \A m \in Opens(url) : \/ m.node = e.node /\ m.lang = e.lang
                                  \/ Parametric(m.node)
                                  \/ HasParam(e.path) /\ FullPath(built.pages, m.node, m.lang) = url
<1> DEFINE T == built.pages
           p(n, lang) == FullPath(T, n, lang)
<1>1. IsTree(T) /\ OnePath(T) /\ Leaves(T) \subseteq 0..Len(T) /\ Leaves(T) \subseteq Nat
  <2>1. IsTree(T) /\ OnePath(T)
    BY DEF SiteBuilt
  <2>2. Leaves(T) \subseteq 1..Len(T) /\ Len(T) \in Nat
    BY <2>1, LeavesAre, TreeIs
  <2> QED
    BY <2>1, <2>2
<1>2. e.node \in Leaves(T) /\ e.lang \in Tongues /\ e.path = p(e.node, e.lang)
  BY InnerIs
<1>3. \A n \in Leaves(T), lang \in Tongues : p(n, lang) \in Seq(Segments)
  BY <1>1, FullPathIs
<1> DEFINE B == ToSet(url)
<1>4. url \in Seq(B) /\ Len(url) = Len(e.path) /\ Takes(e.path, url) /\ (~HasParam(e.path) => url = e.path)
  BY <1>2, <1>3, AddressIs
<1> HIDE DEF B, p, T
<1>5. \A m \in Matches(url) : /\ m.node \in Leaves(T) /\ m.at \in Nat /\ m.lang \in Tongues
                              /\ Takes(p(m.node, m.lang), url) /\ Len(p(m.node, m.lang)) = Len(url)
  BY <1>4, MatchesAre DEF T, p
<1>6. Matches(url) # {}
  <2>1. \E m \in Matches(url) : m.node = e.node
    BY <1>2, <1>4, MatchesAre DEF T, p
  <2> QED
    BY <2>1
<1>7. Opens(url) # {} /\ Opens(url) \subseteq Matches(url)
  BY <1>1, <1>5, <1>6, OpensSome
<1>8. ASSUME NEW m \in Opens(url), ~Parametric(m.node)
      PROVE  \/ m.node = e.node /\ m.lang = e.lang
             \/ HasParam(e.path) /\ p(m.node, m.lang) = url
  <2>1. m.node \in Leaves(T) /\ m.lang \in Tongues /\ Takes(p(m.node, m.lang), url) /\ Len(p(m.node, m.lang)) = Len(url)
    BY <1>5, <1>7
  <2>2. ~HasParam(p(m.node, m.lang))
    BY <1>8, <2>1 DEF Parametric, T, p
  <2>3. p(m.node, m.lang) = url
    BY <1>3, <1>4, <2>1, <2>2, TakenIsSame
  <2>4. CASE HasParam(e.path)
    BY <2>3, <2>4
  <2>5. CASE ~HasParam(e.path)
    <3>1. p(m.node, m.lang) = p(e.node, e.lang)
      BY <1>2, <1>4, <2>3, <2>5
    <3>2. CASE m.lang = e.lang
      BY <1>1, <1>2, <2>1, <3>1, <3>2 DEF OnePath, p
    <3>3. CASE m.lang # e.lang
      <4>1. ASSUME NEW n \in Leaves(T), NEW k \in Leaves(T), NEW lang \in Tongues, lang # MainLang,
                   p(n, MainLang) = p(k, lang), MainLang \in Tongues
            PROVE  FALSE
        <5>1. p(k, lang) # <<>> /\ p(k, lang)[1] = lang
          BY <1>1, <4>1, PathBegins DEF p
        <5>2. PICK h \in Inner : h.lang = MainLang /\ h.path = p(n, MainLang)
          BY <4>1, InnerIs DEF T, p
        <5> QED
          BY <4>1, <5>1, <5>2 DEF NoPageIsALanguage
      <4>2. ASSUME m.lang # MainLang, e.lang # MainLang PROVE FALSE
        <5>1. p(m.node, m.lang)[1] = m.lang
          BY <1>1, <2>1, <4>2, PathBegins DEF p
        <5>2. p(e.node, e.lang)[1] = e.lang
          BY <1>1, <1>2, <4>2, PathBegins DEF p
        <5> QED
          BY <3>1, <3>3, <5>1, <5>2
      <4>3. m.lang = MainLang => FALSE
        BY <1>2, <2>1, <3>1, <3>3, <4>1
      <4>4. e.lang = MainLang => FALSE
        BY <1>2, <2>1, <3>1, <3>3, <4>1
      <4> QED
        BY <4>2, <4>3, <4>4
    <3> QED
      BY <3>2, <3>3
  <2> QED
    BY <2>4, <2>5
<1> QED
  BY <1>7, <1>8 DEF T, p

\* Links open their page.
LEMMA LinksOpen == ASSUME SiteIInv PROVE LinksOpenTheirPage
<1>1. CASE built.map = {}
  BY <1>1 DEF LinksOpenTheirPage, Inner
<1>2. CASE SiteBuilt
  BY <1>2, PagesOpen DEF LinksOpenTheirPage
<1> QED
  BY <1>1, <1>2, BuiltIs
-----------------------------------------------------------------------------
(* What is published                                                       *)

\* Under a container that asks for a login, a page that does not has a container between
\* them, or itself, that says it asks for none.
LEMMA BetweenIsNo ==
  ASSUME NEW tree, IsTree(tree), AuthRule(tree)
  PROVE  \A n \in 1..Len(tree) :
           /\ tree[n].kind # "external" /\ tree[n].auth # "yes"
           /\ \E k \in Around(tree, n) : tree[k].auth = "yes"
           => \E k \in Around(tree, n) : tree[k].auth = "no"
<1> DEFINE N == Len(tree)
           Claim(n) == (/\ n # 0 /\ tree[n].kind # "external" /\ tree[n].auth # "yes"
                        /\ \E k \in Around(tree, n) : tree[k].auth = "yes")
                       => \E k \in Around(tree, n) : tree[k].auth = "no"
           S == {n \in Nat : Claim(n)}
<1>1. N \in Nat
  BY TreeIs
<1>2. ASSUME NEW n \in 0..N, \A j \in 0..N : j < n => j \in S PROVE n \in S
  <2> SUFFICES ASSUME n # 0, tree[n].kind # "external", tree[n].auth # "yes",
                      NEW k \in Around(tree, n), tree[k].auth = "yes"
               PROVE  \E j \in Around(tree, n) : tree[j].auth = "no"
    BY <1>1
  <2> DEFINE p == tree[n].in
  <2>1. n \in 1..N
    BY <1>1
  <2>2. p \in 0..(n - 1) /\ (p # 0 => tree[p].kind = "parent")
    BY <2>1, TreeIs DEF IsTree
  <2>3. p \in 0..N /\ p < n
    BY <1>1, <2>1, <2>2
  <2>4. Around(tree, n) = {n} \union Around(tree, p) /\ Around(tree, 0) = {}
    BY <2>1, AroundIs
  <2>5. tree[n].auth \in {"yes", "no", "unset"}
    BY <2>1 DEF IsTree, IsPage, PageInput
  <2>6. CASE tree[n].auth = "no"
    BY <2>4, <2>6
  <2>7. CASE tree[n].auth = "unset"
    <3>1. k \in Around(tree, p) /\ p # 0
      BY <2>4
    <3>2. tree[p].auth # "yes"
      BY <2>1, <2>7, <3>1 DEF AuthRule
    <3>3. p \in S
      BY <1>2, <2>3
    <3> HIDE DEF p
    <3>4. Claim(p)
      BY <3>3
    <3>5. \E j \in Around(tree, p) : tree[j].auth = "no"
      BY <2>2, <3>1, <3>2, <3>4
    <3> QED
      BY <2>4, <3>5
  <2> QED
    BY <2>5, <2>6, <2>7
<1> HIDE DEF S, Claim
<1>3. \A n \in 0..N : n \in S
  BY <1>1, <1>2, AfterTheSmaller
<1>4. \A n \in 1..N : n \in 0..N /\ n # 0
  BY <1>1
<1> QED
  BY <1>3, <1>4 DEF S, Claim

LEMMA PublicIsOpen ==
  ASSUME SiteBuilt, NEW n \in Leaves(built.pages), built.pages[n].auth # "yes", AsksLogin(n)
  PROVE  SaysItAsksNone(n)
<1> DEFINE T == built.pages
<1>1. IsTree(T) /\ AuthRule(T)
  BY DEF SiteBuilt
<1>2. n \in 1..Len(T) /\ T[n].kind = "leaf"
  BY <1>1, LeavesAre
<1>3. {n} \union ToSet(Chain(T, n)) = Around(T, n)
  BY <1>1, <1>2, AroundIs
<1>4. \E k \in Around(T, n) : T[k].auth = "yes"
  BY <1>3 DEF AsksLogin
<1>5. \E k \in Around(T, n) : T[k].auth = "no"
  BY <1>1, <1>2, <1>4, BetweenIsNo
<1> QED
  BY <1>3, <1>5 DEF SaysItAsksNone

\* What is published is at an address without parameters of a page that asks for no login.
LEMMA PublishedIs ==
  ASSUME SiteBuilt
  PROVE  \A path \in {e.path : e \in built.sitemap} \union built.audit :
           \E e \in Inner : built.pages[e.node].auth # "yes" /\ e.path = path /\ ~HasParam(path)
<1> DEFINE T == built.pages
           entry(n, lang) == [path |-> FullPath(T, n, lang), lang |-> lang, type |-> T[n].type]
<1>1. ASSUME NEW e \in built.sitemap
      PROVE  \E h \in Inner : T[h.node].auth # "yes" /\ h.path = e.path /\ ~HasParam(e.path)
  <2>1. e \in SitemapEntries(T, definition)
    BY DEF SiteBuilt
  <2>2. ~HasParam(e.path) /\ e \in {entry(n, lang) : n \in {k \in Leaves(T) : Listed(T[k], definition)}, lang \in Tongues}
    BY <2>1 DEF SitemapEntries
  <2>3. PICK n \in {k \in Leaves(T) : Listed(T[k], definition)}, lang \in Tongues : e = entry(n, lang)
    BY <2>2
  <2>4. n \in Leaves(T) /\ T[n].auth # "yes" /\ e.path = FullPath(T, n, lang)
    BY <2>3 DEF Listed
  <2>5. PICK h \in Inner : h.node = n /\ h.path = FullPath(T, n, lang)
    BY <2>4, InnerIs
  <2> QED
    BY <2>2, <2>4, <2>5
<1>2. ASSUME NEW path \in built.audit
      PROVE  \E h \in Inner : T[h.node].auth # "yes" /\ h.path = path /\ ~HasParam(path)
  <2>1. path \in AuditPaths(T)
    BY DEF SiteBuilt
  <2>2. PICK n \in {k \in Leaves(T) : RenderMode(T[k]) = "server" /\ ~HasParam(FullPath(T, k, MainLang))} :
          path = FullPath(T, n, MainLang)
    BY <2>1 DEF AuditPaths
  <2>3. n \in Leaves(T) /\ T[n].auth # "yes" /\ ~HasParam(path)
    BY <2>2 DEF RenderMode
  <2>4. PICK h \in Inner : h.node = n /\ h.path = FullPath(T, n, MainLang)
    BY <2>3, LanguagesAreListed, InnerIs
  <2> QED
    BY <2>2, <2>3, <2>4
<1> QED
  BY <1>1, <1>2

\* What the site publishes opens without a login.
LEMMA PublishedOpens == ASSUME SiteIInv PROVE PublishedIsOpen
<1>1. CASE built.map = {} /\ built.server = {} /\ built.sitemap = {} /\ built.audit = {}
  BY <1>1 DEF PublishedIsOpen
<1>2. CASE SiteBuilt
  <2> SUFFICES ASSUME NoPageIsALanguage
               PROVE  /\ \A path \in {e.path : e \in built.sitemap} \union built.audit :
                           \A m \in Opens(path) : AsksLogin(m.node) => SaysItAsksNone(m.node) \/ Parametric(m.node)
                      /\ \A e \in built.server : e.mode = "server" /\ AsksLogin(e.node) => SaysItAsksNone(e.node)
    BY DEF PublishedIsOpen
  <2>1. ASSUME NEW path \in {e.path : e \in built.sitemap} \union built.audit, NEW m \in Opens(path),
               AsksLogin(m.node), ~Parametric(m.node)
        PROVE  SaysItAsksNone(m.node)
    <3>1. PICK e \in Inner : built.pages[e.node].auth # "yes" /\ e.path = path /\ ~HasParam(path)
      BY <1>2, PublishedIs
    <3>2. path \in Addresses(e.path)
      BY <3>1 DEF Addresses
    <3>3. m.node = e.node
      BY <1>2, <2>1, <3>1, <3>2, PagesOpen
    <3>4. e.node \in Leaves(built.pages)
      BY <1>2, InnerIs
    <3> QED
      BY <1>2, <2>1, <3>1, <3>3, <3>4, PublicIsOpen
  <2>2. ASSUME NEW e \in built.server, e.mode = "server", AsksLogin(e.node) PROVE SaysItAsksNone(e.node)
    <3>1. PICK n \in Leaves(built.pages), lang \in Tongues :
            e = [path |-> FullPath(built.pages, n, lang), mode |-> RenderMode(built.pages[n]), lang |-> lang, node |-> n]
      BY <1>2 DEF SiteBuilt, ServerRenderEntries
    <3>2. e.node = n /\ e.mode = RenderMode(built.pages[n])
      BY <3>1
    <3>3. built.pages[n].auth # "yes"
      BY <2>2, <3>2 DEF RenderMode
    <3> QED
      BY <1>2, <2>2, <3>2, <3>3, PublicIsOpen
  <2> QED
    BY <2>1, <2>2
<1> QED
  BY <1>1, <1>2, BuiltIs
-----------------------------------------------------------------------------
(* Breadcrumbs                                                             *)

LEMMA SameSequence ==
  ASSUME NEW S, NEW s \in Seq(S), NEW t \in Seq(S), Len(s) = Len(t), \A i \in 1..Len(s) : s[i] = t[i]
  PROVE  s = t
<1>1. s = [i \in 1..Len(s) |-> s[i]] /\ t = [i \in 1..Len(t) |-> t[i]]
  BY LenProperties
<1> QED
  BY <1>1

LEMMA AppendedToJoin ==
  ASSUME NEW S, NEW s \in Seq(S), NEW t \in Seq(S), NEW e \in S
  PROVE  s \o Append(t, e) = Append(s \o t, e)
<1> DEFINE u == Append(t, e)
           l == s \o u
           j == s \o t
           r == Append(j, e)
           m == Len(s)
           n == Len(t)
<1>1. m \in Nat /\ n \in Nat
  BY LenProperties
<1>2. u \in Seq(S) /\ Len(u) = n + 1 /\ u[n + 1] = e /\ \A i \in 1..n : u[i] = t[i]
  BY Appended
<1>3. j \in Seq(S) /\ Len(j) = m + n /\ (\A i \in 1..m : j[i] = s[i]) /\ \A i \in 1..n : j[m + i] = t[i]
  BY SeamIs DEF Seam
<1> HIDE DEF u
<1>4. Seam(S, s, u, m, Len(u))
  BY <1>2, SeamIs
<1>5. l \in Seq(S) /\ Len(l) = m + (n + 1) /\ (\A i \in 1..m : l[i] = s[i]) /\ \A i \in 1..(n + 1) : l[m + i] = u[i]
  BY <1>2, <1>4 DEF Seam
<1> HIDE DEF j
<1>6. r \in Seq(S) /\ Len(r) = (m + n) + 1 /\ r[(m + n) + 1] = e /\ \A i \in 1..(m + n) : r[i] = j[i]
  <2>1. j \in Seq(S) /\ Len(j) = m + n
    BY <1>3
  <2>2. r = Append(j, e)
    OBVIOUS
  <2> HIDE DEF m, n, r, l
  <2>3. r \in Seq(S) /\ Len(r) = Len(j) + 1 /\ r[Len(j) + 1] = e /\ \A i \in 1..Len(j) : r[i] = j[i]
    BY <2>1, <2>2, Appended
  <2> QED
    BY <2>1, <2>3
<1> HIDE DEF l, r, m, n
<1>7. ASSUME NEW i \in 1..(m + n + 1) PROVE l[i] = r[i]
  <2>1. CASE i \in 1..m
    <3>1. i \in 1..(m + n)
      BY <1>1, <2>1
    <3> QED
      BY <1>3, <1>5, <1>6, <2>1, <3>1
  <2>2. CASE i = (m + n) + 1
    <3>1. n + 1 \in 1..(n + 1) /\ m + (n + 1) = i
      BY <1>1, <2>2
    <3>2. l[m + (n + 1)] = u[n + 1]
      BY <1>5, <3>1
    <3> QED
      BY <1>2, <1>6, <2>2, <3>1, <3>2
  <2>3. CASE i \notin 1..m /\ i # (m + n) + 1
    <3> DEFINE k == i - m
    <3>1. k \in 1..n /\ k \in 1..(n + 1) /\ i = m + k /\ i \in 1..(m + n)
      BY <1>1, <2>3
    <3> HIDE DEF k
    <3>2. l[m + k] = t[k]
      BY <1>2, <1>5, <3>1
    <3>3. r[m + k] = t[k]
      BY <1>3, <1>6, <3>1
    <3> QED
      BY <3>1, <3>2, <3>3
  <2> QED
    BY <2>1, <2>2, <2>3
<1>8. Len(l) = m + n + 1 /\ Len(r) = m + n + 1
  BY <1>1, <1>5, <1>6
<1>9. l = r
  BY <1>5, <1>6, <1>7, <1>8, SameSequence
<1> QED
  BY <1>9 DEF l, r, j, u

LEMMA AppendIsJoin == ASSUME NEW S, NEW s \in Seq(S), NEW e \in S PROVE s \o <<e>> = Append(s, e)
<1> DEFINE z == <<>>
<1>1. z \in Seq(S)
  OBVIOUS
<1>2. Append(z, e) = <<e>>
  OBVIOUS
<1>3. s \o z = s
  BY ConcatEmptySeq
<1> HIDE DEF z
<1>4. s \o Append(z, e) = Append(s \o z, e)
  BY <1>1, AppendedToJoin
<1> QED
  BY <1>2, <1>3, <1>4

\* Every page of the line of a page is in the one before it, and the first in none.
LineShape(tree, s, n) ==
  /\ s \in Seq(Nat) /\ Len(s) > 0 /\ s[Len(s)] = n
  /\ \A i \in 1..Len(s) : s[i] \in 1..Len(tree) /\ tree[s[i]].in = IF i = 1 THEN 0 ELSE s[i - 1]

LEMMA LineShapeIs ==
  ASSUME NEW tree, IsTree(tree)
  PROVE  \A n \in 1..Len(tree) : LineShape(tree, LineOf(tree, n), n)
<1> DEFINE N == Len(tree)
           S == {n \in Nat : n = 0 \/ LineShape(tree, LineOf(tree, n), n)}
<1>1. N \in Nat
  BY TreeIs
<1>2. ASSUME NEW n \in 0..N, \A j \in 0..N : j < n => j \in S PROVE n \in S
  <2> SUFFICES ASSUME n # 0 PROVE LineShape(tree, LineOf(tree, n), n)
    BY <1>1
  <2> DEFINE p == tree[n].in
             s == LineOf(tree, p)
             t == LineOf(tree, n)
             l == Len(s)
  <2>1. n \in 1..N /\ n \in Nat
    BY <1>1
  <2>2. p \in 0..(n - 1)
    BY <2>1, TreeIs
  <2>3. p \in 0..N /\ p < n /\ p \in Nat
    BY <1>1, <2>1, <2>2
  <2>4. s \in Seq(Nat) /\ t = s \o <<n>>
    BY <2>1, <2>3, LineIs
  <2>5. p \in S /\ (p = 0 => s = <<>>)
    BY <1>2, <2>3 DEF LineOf
  <2>6. p # 0 => LineShape(tree, s, p)
    BY <2>5
  <2> HIDE DEF s, t, S
  <2>7. t = Append(s, n)
    BY <2>1, <2>4, AppendIsJoin
  <2>8. t \in Seq(Nat) /\ l \in Nat /\ Len(t) = l + 1 /\ t[l + 1] = n /\ \A i \in 1..l : t[i] = s[i]
    BY <2>1, <2>4, <2>7, Appended
  <2>9. CASE p = 0
    <3>1. l = 0
      BY <2>5, <2>9
    <3>2. Len(t) = 1 /\ t[1] = n
      BY <2>8, <3>1
    <3> HIDE DEF l, p
    <3>3. \A i \in 1..Len(t) : i = 1
      BY <3>2
    <3>4. \A i \in 1..Len(t) : t[i] \in 1..Len(tree) /\ tree[t[i]].in = 0
      BY <2>1, <2>9, <3>2, <3>3 DEF p
    <3>5. t[Len(t)] = n /\ Len(t) > 0
      BY <3>2
    <3> QED
      BY <2>8, <3>3, <3>4, <3>5 DEF LineShape, t
  <2>10. CASE p # 0
    <3>1. l > 0 /\ s[l] = p /\ \A i \in 1..l : s[i] \in 1..N /\ tree[s[i]].in = IF i = 1 THEN 0 ELSE s[i - 1]
      BY <2>6, <2>10 DEF LineShape
    <3> HIDE DEF l
    <3>2. ASSUME NEW i \in 1..(l + 1) PROVE t[i] \in 1..N /\ tree[t[i]].in = IF i = 1 THEN 0 ELSE t[i - 1]
      <4>1. CASE i = l + 1
        <5>1. i - 1 = l /\ l \in 1..l /\ i # 1
          BY <2>8, <3>1, <4>1
        <5> QED
          BY <2>1, <2>8, <3>1, <4>1, <5>1
      <4>2. CASE i # l + 1
        <5>1. i \in 1..l /\ (i # 1 => i - 1 \in 1..l)
          BY <2>8, <4>2
        <5> QED
          BY <2>8, <3>1, <5>1
      <4> QED
        BY <4>1, <4>2
    <3>3. Len(t) = l + 1 /\ Len(t) > 0 /\ t[Len(t)] = n
      BY <2>8
    <3>4. \A i \in 1..Len(t) : t[i] \in 1..Len(tree) /\ tree[t[i]].in = IF i = 1 THEN 0 ELSE t[i - 1]
      BY <3>2, <3>3
    <3> QED
      BY <2>8, <3>3, <3>4 DEF LineShape, t
  <2> QED
    BY <2>9, <2>10
<1> HIDE DEF S
<1>3. \A n \in 0..N : n \in S
  BY <1>1, <1>2, AfterTheSmaller
<1>4. \A n \in 1..N : n \in 0..N /\ n # 0
  BY <1>1
<1> QED
  BY <1>3, <1>4 DEF S

\* The path of a page is no shorter than that of what it is in.
LEMMA PathsGrow ==
  ASSUME NEW tree, IsTree(tree), NEW lang \in Tongues
  PROVE  \A n \in 0..Len(tree) : \A k \in Around(tree, n) : Len(FullPath(tree, k, lang)) <= Len(FullPath(tree, n, lang))
<1> DEFINE N == Len(tree)
           l(n) == Len(FullPath(tree, n, lang))
           S == {n \in Nat : \A k \in Around(tree, n) : l(k) <= l(n)}
<1>1. N \in Nat
  BY TreeIs
<1>2. \A n \in 0..N : l(n) \in Nat
  BY FullPathIs, LenProperties
<1>3. \A n \in 1..N : l(tree[n].in) <= l(n)
  <2> SUFFICES ASSUME NEW n \in 1..N PROVE l(tree[n].in) <= l(n)
    OBVIOUS
  <2> DEFINE u == FullPath(tree, tree[n].in, lang)
             v == ResolvePath(tree[n].path, lang)
  <2>1. tree[n].in \in 0..N /\ IsPath(tree[n].path)
    BY TreeIs DEF IsTree, IsPage
  <2>2. u \in Seq(Segments) /\ v \in Seq(Segments) /\ FullPath(tree, n, lang) = u \o v
    BY <2>1, FullPathIs, SegmentsOfPath
  <2> HIDE DEF u, v
  <2>3. Len(u \o v) = Len(u) + Len(v) /\ Len(u) \in Nat /\ Len(v) \in Nat
    BY <2>2, SeamIs, LenProperties DEF Seam
  <2>4. Len(u) <= Len(FullPath(tree, n, lang))
    BY <2>2, <2>3
  <2> QED
    BY <2>4 DEF u
<1> HIDE DEF l
<1>4. ASSUME NEW n \in 0..N, \A j \in 0..N : j < n => j \in S PROVE n \in S
  <2>1. CASE n = 0
    BY <2>1, AroundIs
  <2>2. CASE n # 0
    <3> DEFINE p == tree[n].in
    <3>1. n \in 1..N
      BY <1>1, <2>2
    <3>2. p \in 0..(n - 1) /\ p \in 0..N
      BY <3>1, TreeIs
    <3>3. Around(tree, n) = {n} \union Around(tree, p) /\ Around(tree, p) \subseteq 1..p
      BY <3>1, <3>2, AroundIs, AroundAreBefore
    <3>4. p < n /\ \A k \in Around(tree, p) : k \in 0..N
      BY <1>1, <3>1, <3>2, <3>3
    <3>5. l(p) <= l(n)
      BY <1>3, <3>1
    <3> HIDE DEF p
    <3>6. p \in S
      BY <1>4, <3>2, <3>4
    <3>7. \A k \in Around(tree, p) : l(k) <= l(p) /\ l(k) \in Nat
      BY <1>2, <3>4, <3>6
    <3>8. l(n) \in Nat /\ l(p) \in Nat
      BY <1>2, <3>2
    <3> QED
      BY <1>1, <3>3, <3>5, <3>7, <3>8
  <2> QED
    BY <2>1, <2>2
<1> HIDE DEF S
<1>5. \A n \in 0..N : n \in S
  BY <1>1, <1>4, AfterTheSmaller
<1> QED
  BY <1>5 DEF S, l
Crumbs == [titles : Seq(Nat), path : Seq(Segments)]

TitleWalk(f, t) ==
  f \in [0..Len(t) -> Seq(Nat)] /\ f[0] = <<>> /\ \A i \in 1..Len(t) : f[i] = f[i - 1] \o t[i].titles

LEMMA TitlesAreWalked ==
  ASSUME NEW t \in Seq(Crumbs)
  PROVE  \E f : TitleWalk(f, t) /\ TitlesOf(t) = f[Len(t)]
<1> DEFINE N == Len(t)
           V == Seq(Nat)
           in == [k \in 1..N |-> k - 1]
           step == [k \in 1..N |-> [v \in V |-> v \o t[k].titles]]
           eq(f) == f = [i \in 0..N |-> IF i = 0 THEN <<>> ELSE f[i - 1] \o t[i].titles]
           titles == CHOOSE f : eq(f)
<1>1. N \in Nat
  BY LenProperties
<1>2. \A k \in 1..N : in[k] \in 0..(k - 1) /\ in[k] = k - 1
  BY <1>1
<1>3. \A k \in 1..N : t[k].titles \in V
  <2>1. \A k \in 1..N : t[k] \in Crumbs
    BY ElementOfSeq
  <2> QED
    BY <2>1 DEF Crumbs
<1>4. <<>> \in V
  OBVIOUS
<1>5. \A k \in 1..N : step[k] \in [V -> V]
  BY <1>3, ConcatProperties
<1>6. PICK W : Walks(W, N, in, <<>>, step, V)
  <2> HIDE DEF N, V, in, step
  <2> QED
    BY <1>1, <1>2, <1>4, <1>5, WalkExists
<1>7. W \in [0..N -> V] /\ W[0] = <<>>
  BY <1>6 DEF Walks
<1>8. \A k \in 1..N : W[k] = W[k - 1] \o t[k].titles
  <2>1. \A k \in 1..N : W[k] = step[k][W[in[k]]]
    BY <1>6 DEF Walks
  <2>2. \A k \in 1..N : k - 1 \in 0..N
    BY <1>1
  <2>3. \A k \in 1..N : W[k - 1] \in V
    BY <1>7, <2>2
  <2> QED
    BY <1>2, <2>1, <2>3
<1> HIDE DEF in, step
<1>9. eq(W)
  <2>1. \A i \in 0..N : i # 0 => i \in 1..N
    BY <1>1
  <2>2. \A i \in 0..N : W[i] = IF i = 0 THEN <<>> ELSE W[i - 1] \o t[i].titles
    BY <1>7, <1>8, <2>1
  <2> QED
    BY <1>7, <2>2
<1>10. eq(titles)
  <2> HIDE DEF eq
  <2> QED
    BY <1>9
<1>11. titles = [i \in 0..N |-> IF i = 0 THEN <<>> ELSE titles[i - 1] \o t[i].titles]
  BY <1>10
<1>12. TitlesOf(t) = titles[N]
  BY DEF TitlesOf
<1> HIDE DEF titles
<1>13. titles[0] = <<>> /\ \A i \in 1..N : titles[i] = titles[i - 1] \o t[i].titles
  <2>1. 0 \in 0..N /\ \A i \in 1..N : i \in 0..N /\ i # 0
    BY <1>1
  <2>2. titles[0] = <<>>
    BY <1>11, <2>1
  <2>3. \A i \in 1..N : titles[i] = titles[i - 1] \o t[i].titles
    BY <1>11, <2>1
  <2> QED
    BY <2>2, <2>3
<1>14. Alike(titles, W, N, in)
  BY <1>2, <1>7, <1>8, <1>13 DEF Alike
<1> HIDE DEF N, V, eq
<1>15. \A k \in 0..N : titles[k] = W[k]
  <2>1. PICK f, n, link : f = titles /\ n = N /\ link = in
    OBVIOUS
  <2>2. n \in Nat /\ Alike(f, W, n, link)
    BY <1>1, <1>14, <2>1
  <2>3. \A k \in 0..n : f[k] = W[k]
    BY <2>2, WalksAgree
  <2> QED
    BY <2>1, <2>3
<1>16. N \in 0..N
  BY <1>1
<1>17. TitlesOf(t) = W[N]
  BY <1>12, <1>15, <1>16
<1>18. TitleWalk(W, t)
  BY <1>7, <1>8 DEF TitleWalk, N, V
<1> QED
  BY <1>17, <1>18 DEF N

LEMMA TitlesAre ==
  /\ TitlesOf(<<>>) = <<>>
  /\ \A t \in Seq(Crumbs) : TitlesOf(t) \in Seq(Nat)
  /\ \A t \in Seq(Crumbs), c \in Crumbs : TitlesOf(Append(t, c)) = TitlesOf(t) \o c.titles
<1>1. TitlesOf(<<>>) = <<>>
  <2> DEFINE z == <<>>
  <2>1. z \in Seq(Crumbs) /\ Len(z) = 0
    OBVIOUS
  <2> HIDE DEF z
  <2>2. PICK f : TitleWalk(f, z) /\ TitlesOf(z) = f[Len(z)]
    BY <2>1, TitlesAreWalked
  <2>3. f[0] = <<>>
    BY <2>2 DEF TitleWalk
  <2> QED
    BY <2>1, <2>2, <2>3 DEF z
<1>2. ASSUME NEW t \in Seq(Crumbs) PROVE TitlesOf(t) \in Seq(Nat)
  <2>1. PICK f : TitleWalk(f, t) /\ TitlesOf(t) = f[Len(t)]
    BY TitlesAreWalked
  <2>2. Len(t) \in 0..Len(t)
    BY LenProperties
  <2> QED
    BY <2>1, <2>2 DEF TitleWalk
<1>3. ASSUME NEW t \in Seq(Crumbs), NEW c \in Crumbs PROVE TitlesOf(Append(t, c)) = TitlesOf(t) \o c.titles
  <2> DEFINE u == Append(t, c)
             n == Len(t)
             in == [k \in 1..n |-> k - 1]
  <2>1. u \in Seq(Crumbs) /\ n \in Nat /\ Len(u) = n + 1 /\ u[n + 1] = c /\ \A i \in 1..n : u[i] = t[i]
    BY Appended
  <2>2. PICK f : TitleWalk(f, t) /\ TitlesOf(t) = f[Len(t)]
    BY TitlesAreWalked
  <2> HIDE DEF u
  <2>3. PICK g : TitleWalk(g, u) /\ TitlesOf(u) = g[Len(u)]
    BY <2>1, TitlesAreWalked
  <2>4. f[0] = <<>> /\ \A i \in 1..n : f[i] = f[i - 1] \o t[i].titles
    BY <2>2 DEF TitleWalk
  <2>5. g[0] = <<>> /\ \A i \in 1..(n + 1) : g[i] = g[i - 1] \o u[i].titles
    BY <2>1, <2>3 DEF TitleWalk
  <2>6. TitlesOf(t) = f[n] /\ TitlesOf(u) = g[n + 1]
    BY <2>1, <2>2, <2>3
  <2> HIDE DEF n
  <2>7. \A k \in 1..n : in[k] \in 0..(k - 1) /\ in[k] = k - 1 /\ k \in 1..(n + 1)
    BY <2>1
  <2>8. Alike(f, g, n, in)
    <3> HIDE DEF in
    <3> QED
      BY <2>1, <2>4, <2>5, <2>7 DEF Alike
  <2>9. \A k \in 0..n : f[k] = g[k]
    <3> HIDE DEF in
    <3> QED
      BY <2>1, <2>8, WalksAgree
  <2>10. f[n] = g[n] /\ n + 1 \in 1..(n + 1) /\ (n + 1) - 1 = n
    BY <2>1, <2>9
  <2>11. g[n + 1] = g[n] \o c.titles
    BY <2>1, <2>5, <2>10
  <2>12. TitlesOf(u) = TitlesOf(t) \o c.titles
    BY <2>6, <2>10, <2>11
  <2> QED
    BY <2>12 DEF u
<1> QED
  BY <1>1, <1>2, <1>3

\* The steps of trailFor
TrailStart(root) == [at |-> root, titles |-> <<>>, trail |-> <<[titles |-> <<0>>, path |-> root]>>]
TrailStep(before, n, lang, path) ==
  LET seg == ResolvePath(built.pages[n].path, lang)
      at == before.at \o seg
      titles == Append(before.titles, n)
      link == seg # <<>> /\ IsIndexed(n, lang)
  IN [at |-> at, titles |-> Given(titles, link),
      trail |-> IF link /\ at # path THEN Append(before.trail, [titles |-> titles, path |-> at]) ELSE before.trail]
TrailWalk(walk, above, lang, root, path) ==
  walk[0] = TrailStart(root) /\ \A i \in 1..Len(above) : walk[i] = TrailStep(walk[i - 1], above[i], lang, path)
TrailStates == [at : Seq(Segments), titles : Seq(Nat), trail : Seq(Crumbs)]

LEMMA TrailIsTyped ==
  ASSUME IsTree(built.pages), NEW lang, NEW path
  PROVE  /\ \A root \in Seq(Segments) : TrailStart(root) \in TrailStates
         /\ \A before \in TrailStates, n \in 1..Len(built.pages) : TrailStep(before, n, lang, path) \in TrailStates
<1>1. ASSUME NEW root \in Seq(Segments) PROVE TrailStart(root) \in TrailStates
  <2> DEFINE c == [titles |-> <<0>>, path |-> root]
  <2>1. c \in Crumbs
    BY DEF Crumbs
  <2> HIDE DEF c
  <2>2. <<c>> \in Seq(Crumbs) /\ <<>> \in Seq(Nat)
    BY <2>1
  <2>3. TrailStart(root) = [at |-> root, titles |-> <<>>, trail |-> <<c>>]
    BY DEF TrailStart, c
  <2> QED
    BY <2>2, <2>3 DEF TrailStates
<1>2. ASSUME NEW before \in TrailStates, NEW n \in 1..Len(built.pages) PROVE TrailStep(before, n, lang, path) \in TrailStates
  <2> DEFINE seg == ResolvePath(built.pages[n].path, lang)
             at == before.at \o seg
             titles == Append(before.titles, n)
             link == seg # <<>> /\ IsIndexed(n, lang)
             c == [titles |-> titles, path |-> at]
             given == Given(titles, link)
             trail == IF link /\ at # path THEN Append(before.trail, c) ELSE before.trail
  <2>1. before.at \in Seq(Segments) /\ before.titles \in Seq(Nat) /\ before.trail \in Seq(Crumbs)
    BY DEF TrailStates
  <2>2. seg \in Seq(Segments)
    <3>1. IsPage(built.pages[n])
      BY DEF IsTree
    <3> QED
      BY <3>1, SegmentsOfPath DEF IsPage
  <2>3. n \in Nat
    BY TreeIs
  <2> HIDE DEF seg
  <2>4. at \in Seq(Segments)
    BY <2>1, <2>2, ConcatProperties
  <2>5. titles \in Seq(Nat)
    BY <2>1, <2>3, Appended
  <2> HIDE DEF at, titles, link
  <2>6. c \in Crumbs
    BY <2>4, <2>5 DEF Crumbs
  <2>7. given \in Seq(Nat)
    BY <2>5 DEF Given
  <2> HIDE DEF c
  <2>8. trail \in Seq(Crumbs)
    BY <2>1, <2>6, Appended
  <2>9. TrailStep(before, n, lang, path) = [at |-> at, titles |-> given, trail |-> trail]
    BY DEF TrailStep, at, titles, link, c, seg
  <2> HIDE DEF given, trail
  <2> QED
    BY <2>4, <2>7, <2>8, <2>9 DEF TrailStates
<1> QED
  BY <1>1, <1>2
LEMMA OneInfo ==
  ASSUME SiteBuilt, NEW x \in built.map, NEW y \in built.map, x.type = y.type, x.lang = y.lang
  PROVE  x = y
<1> DEFINE T == built.pages
           entry(n, lang) ==
             [node |-> n, type |-> T[n].type, lang |-> lang, external |-> T[n].kind = "external",
              path |-> IF T[n].kind = "external" THEN <<>> ELSE FullPath(T, n, lang),
              noindex |-> T[n].kind = "leaf" /\ Noindex(T[n], definition)]
<1>1. built.map = {entry(n, lang) : n \in Reached(T), lang \in Tongues}
  BY DEF SiteBuilt, PageMap
<1>2. \A n, lang : entry(n, lang).lang = lang /\ entry(n, lang).type = T[n].type
  OBVIOUS
<1> HIDE DEF entry, T
<1>3. PICK n \in Reached(T), l \in Tongues : x = entry(n, l)
  BY <1>1
<1>4. PICK k \in Reached(T), m \in Tongues : y = entry(k, m)
  BY <1>1
<1>5. T[n].type = T[k].type /\ l = m
  BY <1>2, <1>3, <1>4
<1>6. n = k
  BY <1>5 DEF SiteBuilt, OneType, T
<1> QED
  BY <1>3, <1>4, <1>5, <1>6

LEMMA TrailIs ==
  ASSUME SiteBuilt, NEW e \in Inner, HomeAtRoot(e.lang), e.type # definition.home, Chain(built.pages, e.node) # <<>>,
         FirstOf(e.type) = e.node
  PROVE  LET C == Chain(built.pages, e.node)
         IN \E walk : /\ TrailWalk(walk, C, e.lang, LangPrefix(e.lang), e.path)
                      /\ TrailFor(e.type, e.lang) = Append(walk[Len(C)].trail,
                                                           [titles |-> Append(walk[Len(C)].titles, e.node), path |-> e.path])
<1> DEFINE T == built.pages
           type == e.type
           lang == e.lang
           C == Chain(T, e.node)
           info == CHOOSE h \in Info(type, lang) : TRUE
           homes == Info(definition.home, lang)
           root == IF homes # {} THEN (CHOOSE h \in homes : TRUE).path ELSE LangPrefix(lang)
           above == IF Chain(T, FirstOf(type)) # <<>> THEN Chain(T, FirstOf(type)) ELSE FlatParents(info.path, lang)
           eq(f) == f = [i \in 0..Len(above) |->
                           IF i = 0 THEN TrailStart(root) ELSE TrailStep(f[i - 1], above[i], lang, info.path)]
           walk == CHOOSE f : eq(f)
           end == walk[Len(above)]
<1>1. TrailFor(type, lang) = Append(end.trail, [titles |-> Append(end.titles, info.node), path |-> info.path])
  BY DEF TrailFor, TrailStart, TrailStep
<1>2. info = e
  <2>1. e \in Info(type, lang) /\ \A h \in Info(type, lang) : h = e
    BY OneInfo DEF Info, Inner
  <2> QED
    BY <2>1
<1>3. root = LangPrefix(lang)
  <2>1. PICK h \in homes : h.path = LangPrefix(lang)
    BY DEF HomeAtRoot
  <2>2. \A k \in homes : k = h
    BY <2>1, OneInfo DEF Info
  <2> QED
    BY <2>1, <2>2
<1>4. above = C
  BY <1>2
<1> HIDE DEF info, homes, root, above
<1> DEFINE N == Len(C)
           V == TrailStates
           in == [k \in 1..N |-> k - 1]
           step == [k \in 1..N |-> [v \in V |-> TrailStep(v, C[k], lang, e.path)]]
           zero == TrailStart(root)
<1>5. N \in Nat /\ lang \in Tongues /\ \A k \in 1..N : C[k] \in 1..Len(T)
  <2>1. e.node \in 1..Len(T) /\ lang \in Tongues
    BY InnerIs, LeavesAre DEF SiteBuilt
  <2>2. C = LineOf(T, T[e.node].in) /\ T[e.node].in \in 0..Len(T)
    BY <2>1, LineIs, TreeIs DEF SiteBuilt
  <2>3. T[e.node].in # 0
    BY <2>2 DEF LineOf
  <2>4. T[e.node].in \in 1..Len(T)
    BY <2>2, <2>3
  <2>5. LineShape(T, C, T[e.node].in)
    BY <2>2, <2>4, LineShapeIs DEF SiteBuilt
  <2> QED
    BY <2>1, <2>5, LenProperties DEF LineShape
<1>6. zero \in V
  <2>1. root \in Seq(Segments)
    BY <1>3, <1>5, PrefixIs
  <2> QED
    BY <2>1, TrailIsTyped DEF SiteBuilt
<1>7. \A k \in 1..N : step[k] \in [V -> V]
  <2>1. \A k \in 1..N, v \in V : TrailStep(v, C[k], lang, e.path) \in V
    BY <1>5, TrailIsTyped DEF SiteBuilt
  <2> HIDE DEF V
  <2> QED
    BY <2>1
<1>8. \A k \in 1..N : in[k] = k - 1 /\ in[k] \in 0..(k - 1)
  BY <1>5
<1>9. PICK W : Walks(W, N, in, zero, step, V)
  <2>1. PICK n, link, move, start : n = N /\ link = in /\ move = step /\ start = zero
    OBVIOUS
  <2> HIDE DEF N, in, step, zero, V
  <2>2. n \in Nat /\ start \in V /\ (\A k \in 1..n : link[k] \in 0..(k - 1)) /\ \A k \in 1..n : move[k] \in [V -> V]
    BY <1>5, <1>6, <1>7, <1>8, <2>1
  <2>3. \E f : Walks(f, n, link, start, move, V)
    BY <2>2, WalkExists
  <2> QED
    BY <2>1, <2>3
<1>10. W \in [0..N -> V] /\ W[0] = zero
  BY <1>9 DEF Walks
<1>11. \A k \in 1..N : W[k] = TrailStep(W[k - 1], C[k], lang, e.path)
  <2>1. \A k \in 1..N : W[k] = step[k][W[in[k]]]
    BY <1>9 DEF Walks
  <2>2. \A k \in 1..N : k - 1 \in 0..N
    BY <1>5
  <2>3. \A k \in 1..N : W[k - 1] \in V
    BY <1>10, <2>2
  <2> HIDE DEF in, V
  <2> QED
    BY <1>8, <2>1, <2>3
<1> HIDE DEF in, step, V
<1>12. eq(W)
  <2>1. \A i \in 0..N : i # 0 => i \in 1..N
    BY <1>5
  <2> HIDE DEF zero, N
  <2>2. \A i \in 0..N : W[i] = IF i = 0 THEN zero ELSE TrailStep(W[i - 1], C[i], lang, e.path)
    BY <1>10, <1>11, <2>1
  <2>3. W = [i \in 0..N |-> IF i = 0 THEN zero ELSE TrailStep(W[i - 1], C[i], lang, e.path)]
    BY <1>10, <2>2
  <2> QED
    BY <1>2, <1>4, <2>3 DEF zero, N
<1>13. eq(walk)
  <2> HIDE DEF eq
  <2> QED
    BY <1>12
<1>14. walk = [i \in 0..N |-> IF i = 0 THEN zero ELSE TrailStep(walk[i - 1], C[i], lang, e.path)]
  <2> HIDE DEF walk
  <2> QED
    BY <1>2, <1>4, <1>13
<1> HIDE DEF walk
<1>15. TrailWalk(walk, C, lang, LangPrefix(lang), e.path)
  <2>1. 0 \in 0..N /\ \A i \in 1..N : i \in 0..N /\ i # 0
    BY <1>5
  <2>2. walk[0] = zero
    BY <1>14, <2>1
  <2>3. \A i \in 1..N : walk[i] = TrailStep(walk[i - 1], C[i], lang, e.path)
    BY <1>14, <2>1
  <2> QED
    BY <1>3, <2>2, <2>3 DEF TrailWalk
<1>16. TrailFor(type, lang) = Append(walk[N].trail, [titles |-> Append(walk[N].titles, e.node), path |-> e.path])
  BY <1>1, <1>2, <1>4
<1> HIDE DEF C
<1> QED
  BY <1>15, <1>16 DEF C
\* The names a trail bears and those that wait for the next link
NamesOf(w) == TitlesOf(w.trail) \o w.titles
\* They are those of the first i + 1 pages of the line a, but for g of them after the d-th.
Named(w, a, i, d, g, path) ==
  /\ d \in 1..(i + 1) /\ g \in 0..(i + 1) /\ d + g <= i + 1
  /\ Len(NamesOf(w)) = i + 1 - g /\ \A k \in 1..(i + 1 - g) : NamesOf(w)[k] = a[IF k <= d THEN k ELSE k + g]
  /\ Len(TitlesOf(w.trail)) > 0
  /\ g # 0 => Len(path) <= Len(w.at)
NamedSome(w, a, i, path) == \E d \in Nat, g \in Nat : Named(w, a, i, d, g, path)

\* One name more, that of the next page of the line
LEMMA NamedMore ==
  ASSUME NEW i \in Nat, NEW a, NEW d, NEW g, NEW path, NEW w, Named(w, a, i, d, g, path),
         NEW v, NamesOf(w) \in Seq(Nat), NEW n \in Nat, n = a[i + 2],
         NamesOf(v) = Append(NamesOf(w), n), Len(TitlesOf(v.trail)) > 0,
         g # 0 => Len(path) <= Len(v.at)
  PROVE  Named(v, a, i + 1, d, g, path)
<1> DEFINE x == NamesOf(w)
           y == NamesOf(v)
           l == i + 1 - g
<1>1. d \in 1..(i + 1) /\ g \in 0..(i + 1) /\ d + g <= i + 1 /\ Len(x) = l /\ \A k \in 1..l : x[k] = a[IF k <= d THEN k ELSE k + g]
  BY DEF Named
<1>2. y = Append(x, n) /\ x \in Seq(Nat)
  OBVIOUS
<1> HIDE DEF x, y
<1>3. Len(y) = Len(x) + 1 /\ y[Len(x) + 1] = n /\ \A k \in 1..Len(x) : y[k] = x[k]
  BY <1>2, Appended
<1>4. Len(y) = l + 1 /\ y[l + 1] = n /\ \A k \in 1..l : y[k] = x[k]
  BY <1>1, <1>3
<1>5. l \in Nat /\ l + 1 = (i + 1) + 1 - g /\ ~(l + 1 <= d) /\ (l + 1) + g = i + 2
  BY <1>1
<1> HIDE DEF l
<1>6. ASSUME NEW k \in 1..(l + 1) PROVE y[k] = a[IF k <= d THEN k ELSE k + g]
  <2>1. CASE k = l + 1
    BY <1>4, <1>5, <2>1
  <2>2. CASE k # l + 1
    <3>1. k \in 1..l
      BY <1>5, <2>2
    <3> QED
      BY <1>1, <1>4, <3>1
  <2> QED
    BY <2>1, <2>2
<1>7. d \in 1..((i + 1) + 1) /\ g \in 0..((i + 1) + 1) /\ d + g <= (i + 1) + 1
  BY <1>1
<1> QED
  BY <1>4, <1>5, <1>6, <1>7 DEF Named, y

\* What waited for a link that is the page itself is dropped, for the page bears it.
LEMMA NamedLess ==
  ASSUME NEW i \in Nat, NEW a, NEW d, NEW path, NEW w \in TrailStates, Named(w, a, i, d, 0, path),
         NEW v, v.trail = w.trail, v.titles = <<>>, Len(path) <= Len(v.at)
  PROVE  NamedSome(v, a, i + 1, path)
<1> DEFINE s == TitlesOf(w.trail)
           t == w.titles
           x == s \o t
           m == Len(s)
           g == i + 2 - m
<1>1. s \in Seq(Nat) /\ t \in Seq(Nat)
  BY TitlesAre DEF TrailStates
<1>2. Len(x) = i + 1 /\ m > 0 /\ \A k \in 1..(i + 1) : x[k] = a[k]
  <2>1. Len(x) = i + 1 - 0 /\ m > 0 /\ d \in Nat /\ \A k \in 1..(i + 1 - 0) : x[k] = a[IF k <= d THEN k ELSE k + 0]
    <3> DEFINE y == NamesOf(w)
    <3>1. x = y
      BY DEF NamesOf
    <3> HIDE DEF x, y
    <3>2. Len(y) = i + 1 - 0 /\ \A k \in 1..(i + 1 - 0) : y[k] = a[IF k <= d THEN k ELSE k + 0]
      BY DEF Named, y
    <3>3. m > 0 /\ d \in Nat
      BY DEF Named
    <3> QED
      BY <3>1, <3>2, <3>3
  <2>2. i + 1 - 0 = i + 1
    OBVIOUS
  <2>3. \A k \in 1..(i + 1) : k + 0 = k
    OBVIOUS
  <2> HIDE DEF x, m
  <2> QED
    BY <2>1, <2>2, <2>3
<1>3. NamesOf(v) = s /\ TitlesOf(v.trail) = s
  <2>1. TitlesOf(v.trail) = s /\ v.titles = <<>>
    OBVIOUS
  <2> HIDE DEF s
  <2>2. s \o <<>> = s
    BY <1>1, ConcatEmptySeq
  <2> QED
    BY <2>1, <2>2 DEF NamesOf
<1>4. m \in Nat /\ Len(t) \in Nat /\ Len(x) = m + Len(t) /\ \A k \in 1..m : x[k] = s[k]
  BY <1>1, SeamIs, LenProperties DEF Seam
<1> HIDE DEF s, t, x, m
<1>5. m \in 1..(i + 1) /\ g \in 0..((i + 1) + 1) /\ g \in Nat /\ m + g = (i + 1) + 1 /\ (i + 1) + 1 - g = m
  BY <1>2, <1>4
<1>6. \A k \in 1..m : s[k] = a[k] /\ k <= m
  BY <1>2, <1>4, <1>5
<1> HIDE DEF g
<1>7. Len(NamesOf(v)) = m /\ Len(TitlesOf(v.trail)) > 0
  BY <1>2, <1>3 DEF m
<1>8. \A k \in 1..m : NamesOf(v)[k] = a[IF k <= m THEN k ELSE k + g]
  BY <1>3, <1>6
<1>9. m \in 1..((i + 1) + 1)
  BY <1>5
<1>10. m + g <= (i + 1) + 1
  BY <1>5
<1>11. Named(v, a, i + 1, m, g, path)
  BY <1>5, <1>7, <1>8, <1>9, <1>10 DEF Named
<1> QED
  BY <1>4, <1>5, <1>11 DEF NamedSome

LEMMA NamedOn ==
  ASSUME IsTree(built.pages), NEW i \in Nat, NEW a, NEW path, NEW lang, NEW w \in TrailStates, NamedSome(w, a, i, path),
         NEW n \in 1..Len(built.pages), n = a[i + 2],
         path \in Seq(Segments), Len(TrailStep(w, n, lang, path).at) <= Len(path)
  PROVE  NamedSome(TrailStep(w, n, lang, path), a, i + 1, path)
<1> DEFINE seg == ResolvePath(built.pages[n].path, lang)
           at == w.at \o seg
           titles == Append(w.titles, n)
           link == seg # <<>> /\ IsIndexed(n, lang)
           c == [titles |-> titles, path |-> at]
           v == TrailStep(w, n, lang, path)
           s == TitlesOf(w.trail)
<1>1. v = [at |-> at, titles |-> Given(titles, link), trail |-> IF link /\ at # path THEN Append(w.trail, c) ELSE w.trail]
  BY DEF TrailStep
<1>2. v \in TrailStates
  BY TrailIsTyped
<1>3. v.at = at /\ v.titles = Given(titles, link) /\ v.trail = IF link /\ at # path THEN Append(w.trail, c) ELSE w.trail
  <2> HIDE DEF v, at, titles, link, c
  <2> QED
    BY <1>1
<1>4. seg \in Seq(Segments)
  <2>1. IsPage(built.pages[n])
    BY DEF IsTree
  <2> QED
    BY <2>1, SegmentsOfPath DEF IsPage
<1> HIDE DEF v, seg
<1>5. w.at \in Seq(Segments) /\ w.titles \in Seq(Nat) /\ w.trail \in Seq(Crumbs) /\ s \in Seq(Nat) /\ n \in Nat
  BY TitlesAre, TreeIs DEF TrailStates
<1>6. Len(at) = Len(w.at) + Len(seg) /\ Len(w.at) \in Nat /\ Len(seg) \in Nat /\ (seg # <<>> => Len(seg) > 0)
  <2>1. seg # <<>> => Len(seg) > 0
    BY <1>4, EmptySeq, LenProperties
  <2> QED
    BY <1>4, <1>5, <2>1, SeamIs, LenProperties DEF Seam
<1>7. Len(path) \in Nat /\ Len(at) <= Len(path)
  <2>1. Len(v.at) <= Len(path)
    BY DEF v
  <2> HIDE DEF at
  <2> QED
    BY <1>3, <2>1, LenProperties
<1>8. PICK d \in Nat, g \in Nat : Named(w, a, i, d, g, path)
  BY DEF NamedSome
<1>9. Len(s) > 0 /\ (g # 0 => Len(path) <= Len(w.at)) /\ g \in Nat
  BY <1>8 DEF Named
<1>10. NamesOf(w) \in Seq(Nat) /\ s \o titles = Append(NamesOf(w), n) /\ titles \in Seq(Nat)
  <2>1. s \o titles = Append(s \o w.titles, n)
    <3>1. PICK old, borne : old = w.titles /\ borne = s
      OBVIOUS
    <3>2. old \in Seq(Nat) /\ borne \in Seq(Nat)
      BY <1>5, <3>1
    <3>3. borne \o Append(old, n) = Append(borne \o old, n)
      BY <1>5, <3>2, AppendedToJoin
    <3> QED
      BY <3>1, <3>3
  <2>2. s \o w.titles \in Seq(Nat)
    BY <1>5, ConcatProperties
  <2>3. titles \in Seq(Nat)
    BY <1>5, Appended
  <2> QED
    BY <2>1, <2>2, <2>3 DEF NamesOf
<1>11. g # 0 => Len(path) <= Len(v.at)
  BY <1>3, <1>6, <1>7, <1>9
<1>12. CASE link /\ at = path
  <2>1. g = 0
    BY <1>6, <1>7, <1>9, <1>12
  <2>2. v.trail = w.trail /\ v.titles = <<>> /\ Len(path) <= Len(v.at)
    BY <1>3, <1>7, <1>12 DEF Given
  <2> HIDE DEF at, titles, link, c, s
  <2> QED
    BY <1>8, <2>1, <2>2, NamedLess DEF v
<1>13. CASE ~(link /\ at = path)
  <2>1. NamesOf(v) = s \o titles /\ Len(TitlesOf(v.trail)) > 0
    <3>1. CASE link
      <4>1. v.trail = Append(w.trail, c) /\ v.titles = <<>>
        BY <1>3, <1>13, <3>1 DEF Given
      <4>2. c.titles = titles
        OBVIOUS
      <4>3. c \in Crumbs
        <5>1. at \in Seq(Segments)
          BY <1>2, <1>3 DEF TrailStates
        <5> HIDE DEF at, titles
        <5> QED
          BY <1>10, <5>1 DEF Crumbs
      <4> HIDE DEF c, at, titles, link
      <4>4. TitlesOf(v.trail) = s \o titles
        BY <1>5, <4>1, <4>2, <4>3, TitlesAre
      <4> HIDE DEF s
      <4>5. s \o titles \in Seq(Nat) /\ Len(s \o titles) = Len(s) + Len(titles) /\ Len(s) \in Nat /\ Len(titles) \in Nat
        BY <1>5, <1>10, ConcatProperties, LenProperties
      <4>6. (s \o titles) \o <<>> = s \o titles
        BY <4>5, ConcatEmptySeq
      <4>7. NamesOf(v) = s \o titles
        BY <4>1, <4>4, <4>6 DEF NamesOf
      <4>8. Len(TitlesOf(v.trail)) > 0
        BY <1>9, <4>4, <4>5
      <4> QED
        BY <4>7, <4>8
    <3>2. CASE ~link
      <4>1. v.trail = w.trail /\ v.titles = titles
        BY <1>3, <3>2 DEF Given
      <4> QED
        BY <1>9, <4>1 DEF NamesOf
    <3> QED
      BY <3>1, <3>2
  <2>2. NamesOf(v) = Append(NamesOf(w), n)
    BY <1>10, <2>1
  <2> HIDE DEF at, titles, link, c, s
  <2>3. Named(v, a, i + 1, d, g, path)
    BY <1>5, <1>8, <1>10, <1>11, <2>1, <2>2, NamedMore
  <2> QED
    BY <2>3 DEF NamedSome, v
<1> QED
  BY <1>12, <1>13

LEMMA NamedAll ==
  ASSUME SiteBuilt, NEW e \in Inner, Chain(built.pages, e.node) # <<>>,
         NEW walk, TrailWalk(walk, Chain(built.pages, e.node), e.lang, LangPrefix(e.lang), e.path)
  PROVE  LET C == Chain(built.pages, e.node)
         IN  /\ walk[Len(C)] \in TrailStates /\ Len(C) \in Nat /\ C \in Seq(Nat) /\ e.node \in Nat
             /\ NamedSome(walk[Len(C)], <<0>> \o C \o <<e.node>>, Len(C), e.path)
             /\ Len(<<0>> \o C \o <<e.node>>) = Len(C) + 2
             /\ (<<0>> \o C \o <<e.node>>)[Len(C) + 2] = e.node
             /\ Len(e.path) \in Nat
             /\ Len(e.path) = Len(walk[Len(C)].at) + Len(ResolvePath(built.pages[e.node].path, e.lang))
             /\ ResolvePath(built.pages[e.node].path, e.lang) \in Seq(Segments)
<1> DEFINE T == built.pages
           lang == e.lang
           C == Chain(T, e.node)
           L == Len(C)
           p == T[e.node].in
           path == e.path
           seg == ResolvePath(T[e.node].path, lang)
           first == <<0>>
           last == <<e.node>>
           u == first \o C
           a == u \o last
           full(k) == FullPath(T, k, lang)
<1>1. IsTree(T) /\ e.node \in 1..Len(T) /\ lang \in Tongues /\ path = full(e.node)
  BY InnerIs, LeavesAre DEF SiteBuilt
<1>2. C = LineOf(T, p) /\ p \in 0..Len(T) /\ e.node \in Nat /\ e.node \in 0..Len(T)
  <2>1. C = LineOf(T, p)
    BY <1>1, LineIs
  <2>2. p \in 0..Len(T) /\ Len(T) \in Nat
    BY <1>1, TreeIs
  <2> HIDE DEF p, T
  <2>3. e.node \in Nat /\ e.node \in 0..Len(T)
    BY <1>1, <2>2
  <2> QED
    BY <2>1, <2>2, <2>3
<1>3. p # 0 /\ p \in 1..Len(T)
  BY <1>2 DEF LineOf
<1>4. LineShape(T, C, p)
  BY <1>1, <1>2, <1>3, LineShapeIs
<1>5. C \in Seq(Nat) /\ L \in Nat /\ L > 0 /\ C[L] = p /\ \A i \in 1..L : C[i] \in 1..Len(T) /\ T[C[i]].in = IF i = 1 THEN 0 ELSE C[i - 1]
  BY <1>4, LenProperties DEF LineShape
<1>6. seg \in Seq(Segments) /\ path = full(p) \o seg /\ (\A k \in 0..Len(T) : full(k) \in Seq(Segments)) /\ full(0) = LangPrefix(lang)
      /\ \A k \in 1..Len(T) : full(k) = full(T[k].in) \o ResolvePath(T[k].path, lang)
  <2>1. IsPage(T[e.node])
    BY <1>1 DEF IsTree
  <2> QED
    BY <1>1, <2>1, FullPathIs, SegmentsOfPath DEF IsPage
<1>7. \A i \in 1..L : Len(full(C[i])) <= Len(path)
  <2>1. ASSUME NEW i \in 1..L PROVE C[i] \in Around(T, e.node)
    <3>1. C[i] \in ToSet(C)
      BY <1>5, LenProperties DEF ToSet
    <3> QED
      BY <1>1, <3>1, AroundIs
  <2> QED
    BY <1>1, <1>2, <2>1, PathsGrow
<1>8. a \in Seq(Nat) /\ Len(a) = L + 2 /\ a[1] = 0 /\ a[L + 2] = e.node /\ \A i \in 1..L : a[i + 1] = C[i]
  <2>1. first \in Seq(Nat) /\ last \in Seq(Nat) /\ Len(first) = 1 /\ Len(last) = 1 /\ first[1] = 0 /\ last[1] = e.node
    BY <1>2
  <2> HIDE DEF first, C, last
  <2>2. Seam(Nat, first, C, Len(first), Len(C))
    BY <1>5, <2>1, SeamIs
  <2>3. u \in Seq(Nat) /\ Len(u) = 1 + L /\ u[1] = 0 /\ \A i \in 1..L : u[1 + i] = C[i]
    BY <2>1, <2>2 DEF Seam
  <2> HIDE DEF u
  <2>4. Seam(Nat, u, last, Len(u), Len(last))
    BY <2>1, <2>3, SeamIs
  <2>5. a \in Seq(Nat) /\ Len(a) = Len(u) + Len(last) /\ (\A i \in 1..Len(u) : a[i] = u[i]) /\ \A i \in 1..Len(last) : a[Len(u) + i] = last[i]
    BY <2>4 DEF Seam
  <2> HIDE DEF a, L
  <2>6. Len(a) = (1 + L) + 1 /\ (\A i \in 1..(1 + L) : a[i] = u[i]) /\ a[(1 + L) + 1] = e.node
    BY <2>1, <2>3, <2>5
  <2>7. (1 + L) + 1 = L + 2 /\ 1 \in 1..(1 + L) /\ \A i \in 1..L : i + 1 = 1 + i /\ i + 1 \in 1..(1 + L)
    BY <1>5
  <2> QED
    BY <2>3, <2>5, <2>6, <2>7
<1>9. walk[0] = TrailStart(LangPrefix(lang)) /\ \A i \in 1..L : walk[i] = TrailStep(walk[i - 1], C[i], lang, path)
  BY DEF TrailWalk
<1> DEFINE Right(i) == /\ walk[i] \in TrailStates /\ walk[i].at = full(IF i = 0 THEN 0 ELSE C[i])
                       /\ NamedSome(walk[i], a, i, path)
           S == {i \in Nat : Right(i)}
<1> HIDE DEF full, a, path, seg, L
<1>10. Right(0)
  <2> DEFINE root == LangPrefix(lang)
             c == [titles |-> <<0>>, path |-> root]
             w == walk[0]
  <2>1. root \in Seq(Segments)
    BY <1>1, PrefixIs
  <2>2. w \in TrailStates
    BY <1>1, <1>9, <2>1, TrailIsTyped
  <2>3. w.at = root /\ w.titles = <<>> /\ w.trail = <<c>>
    BY <1>9 DEF TrailStart
  <2>4. TitlesOf(w.trail) = <<0>>
    <3>1. c \in Crumbs /\ c.titles = <<0>>
      BY <2>1 DEF Crumbs
    <3> DEFINE z == <<>>
    <3>2. z \in Seq(Crumbs) /\ Append(z, c) = <<c>>
      OBVIOUS
    <3>3. TitlesOf(z) = z
      BY TitlesAre
    <3>4. z \o <<0>> = <<0>>
      OBVIOUS
    <3> HIDE DEF z, c, w
    <3>5. TitlesOf(Append(z, c)) = TitlesOf(z) \o c.titles
      BY <3>1, <3>2, TitlesAre
    <3> QED
      BY <2>3, <3>1, <3>2, <3>3, <3>4, <3>5
  <2> HIDE DEF w
  <2>5. NamesOf(w) = <<0>>
    BY <2>3, <2>4 DEF NamesOf
  <2>6. Named(w, a, 0, 1, 0, path)
    <3> DEFINE x == NamesOf(w)
               y == TitlesOf(w.trail)
    <3>1. Len(x) = 1 /\ x[1] = 0 /\ Len(y) > 0
      BY <2>4, <2>5
    <3> HIDE DEF x, y
    <3>2. \A k \in 1..(0 + 1 - 0) : x[k] = a[IF k <= 1 THEN k ELSE k + 0]
      BY <1>8, <3>1
    <3>3. Len(x) = 0 + 1 - 0 /\ 1 \in 1..(0 + 1) /\ 0 \in 0..(0 + 1) /\ 1 + 0 <= 0 + 1
      BY <3>1
    <3> QED
      BY <3>1, <3>2, <3>3 DEF Named, x, y
  <2>7. NamedSome(w, a, 0, path)
    BY <2>6 DEF NamedSome
  <2> QED
    BY <1>6, <2>2, <2>3, <2>7 DEF w
<1>11. ASSUME NEW i \in 1..L, Right(i - 1) PROVE Right(i)
  <2> DEFINE j == i - 1
             w == walk[j]
             n == C[i]
             v == TrailStep(w, n, lang, path)
  <2>1. j \in Nat /\ i = j + 1 /\ i # 0 /\ i \in Nat /\ walk[i] = v /\ n \in 1..Len(T)
    BY <1>5, <1>9
  <2>2. w \in TrailStates /\ w.at = full(IF j = 0 THEN 0 ELSE C[j]) /\ NamedSome(w, a, j, path)
    BY <1>11
  <2>3. T[n].in = IF j = 0 THEN 0 ELSE C[j]
    BY <1>5, <2>1
  <2>4. n = a[j + 2]
    <3>1. a[i + 1] = n /\ i + 1 = j + 2
      BY <1>8, <2>1
    <3> QED
      BY <3>1
  <2> HIDE DEF w, j, n, v
  <2>5. v.at = w.at \o ResolvePath(T[n].path, lang)
    BY DEF v, TrailStep
  <2>6. v.at = full(n)
    BY <1>6, <2>1, <2>2, <2>3, <2>5
  <2>7. v \in TrailStates
    BY <1>1, <2>1, <2>2, TrailIsTyped DEF v
  <2>8. Len(v.at) <= Len(path)
    BY <1>7, <2>6 DEF n
  <2>9. path \in Seq(Segments)
    BY <1>1, <1>2, <1>6
  <2>10. NamedSome(v, a, j + 1, path)
    BY <1>1, <2>1, <2>2, <2>4, <2>8, <2>9, NamedOn DEF v
  <2> QED
    BY <2>1, <2>6, <2>7, <2>10 DEF n
<1> HIDE DEF Right
<1>12. ASSUME NEW i \in 0..L, \A j \in 0..L : j < i => j \in S PROVE i \in S
  <2>1. CASE i = 0
    BY <1>10, <2>1
  <2>2. CASE i # 0
    <3>1. i \in 1..L /\ i - 1 \in 0..L /\ i - 1 < i /\ i \in Nat
      BY <1>5, <2>2
    <3>2. Right(i - 1)
      BY <1>12, <3>1
    <3> QED
      BY <1>11, <3>1, <3>2
  <2> QED
    BY <2>1, <2>2
<1> HIDE DEF S
<1>13. \A i \in 0..L : i \in S
  BY <1>5, <1>12, AfterTheSmaller
<1>14. Right(L)
  BY <1>5, <1>13 DEF S
<1>15. walk[L] \in TrailStates /\ walk[L].at = full(p) /\ NamedSome(walk[L], a, L, path)
  BY <1>5, <1>14 DEF Right
<1>16. Len(path) \in Nat /\ Len(path) = Len(walk[L].at) + Len(seg)
  <2>1. full(p) \in Seq(Segments)
    BY <1>2, <1>6
  <2>2. Len(full(p) \o seg) = Len(full(p)) + Len(seg) /\ Len(full(p)) \in Nat /\ Len(seg) \in Nat
    BY <1>6, <2>1, SeamIs, LenProperties DEF Seam
  <2> QED
    BY <1>6, <1>15, <2>2
<1> QED
  BY <1>2, <1>5, <1>6, <1>8, <1>15, <1>16 DEF a, u, first, last, path, seg, L
\* A breadcrumb names every level of the page.
LEMMA TrailNames ==
  ASSUME SiteBuilt, NEW e \in Inner, HomeAtRoot(e.lang), e.type # definition.home, Chain(built.pages, e.node) # <<>>,
         FirstOf(e.type) = e.node
  PROVE  LET above == <<0>> \o Chain(built.pages, e.node) \o <<e.node>>
         IN  \E d \in 1..Len(above), g \in 0..Len(above) :
               /\ d + g < Len(above) /\ TitlesOf(TrailFor(e.type, e.lang)) = Skipping(above, d, g)
               /\ g # 0 => ResolvePath(built.pages[e.node].path, e.lang) = <<>>
<1> DEFINE C == Chain(built.pages, e.node)
           L == Len(C)
           above == <<0>> \o C \o <<e.node>>
           seg == ResolvePath(built.pages[e.node].path, e.lang)
           trail == TrailFor(e.type, e.lang)
<1>1. PICK walk : /\ TrailWalk(walk, C, e.lang, LangPrefix(e.lang), e.path)
                  /\ trail = Append(walk[L].trail, [titles |-> Append(walk[L].titles, e.node), path |-> e.path])
  BY TrailIs
<1> DEFINE w == walk[L]
           c == [titles |-> Append(w.titles, e.node), path |-> e.path]
           x == NamesOf(w)
           y == TitlesOf(trail)
<1>2. w \in TrailStates /\ L \in Nat /\ e.node \in Nat /\ NamedSome(w, above, L, e.path) /\ Len(above) = L + 2 /\ above[L + 2] = e.node
      /\ Len(e.path) \in Nat /\ Len(e.path) = Len(w.at) + Len(seg) /\ seg \in Seq(Segments)
  BY <1>1, NamedAll
<1>3. trail = Append(w.trail, c)
  BY <1>1
<1> HIDE DEF w, L, above, seg, trail, C
<1>4. w.at \in Seq(Segments) /\ w.titles \in Seq(Nat) /\ w.trail \in Seq(Crumbs)
  BY <1>2 DEF TrailStates
<1>5. e.path \in Seq(Segments)
  <2>1. e.node \in 0..Len(built.pages) /\ e.lang \in Tongues /\ e.path = FullPath(built.pages, e.node, e.lang)
    <3>1. e.node \in 1..Len(built.pages)
      BY InnerIs, LeavesAre DEF SiteBuilt
    <3>2. Len(built.pages) \in Nat
      BY TreeIs DEF SiteBuilt
    <3> QED
      BY <3>1, <3>2, InnerIs
  <2> QED
    BY <2>1, FullPathIs DEF SiteBuilt
<1>6. y = Append(x, e.node) /\ x \in Seq(Nat)
  <2> DEFINE s == TitlesOf(w.trail)
             t == Append(w.titles, e.node)
  <2>1. t \in Seq(Nat)
    BY <1>2, <1>4, Appended
  <2>2. c.titles = t /\ c \in Crumbs
    <3> HIDE DEF t
    <3>1. [titles |-> t, path |-> e.path] \in Crumbs /\ [titles |-> t, path |-> e.path].titles = t
      BY <1>5, <2>1 DEF Crumbs
    <3> QED
      BY <3>1 DEF t
  <2>3. s \in Seq(Nat)
    BY <1>4, TitlesAre
  <2> HIDE DEF c
  <2>4. y = s \o c.titles
    BY <1>3, <1>4, <2>2, TitlesAre
  <2>5. PICK old, borne : old = w.titles /\ borne = s
    OBVIOUS
  <2>6. old \in Seq(Nat) /\ borne \in Seq(Nat)
    BY <1>4, <2>3, <2>5
  <2>7. borne \o Append(old, e.node) = Append(borne \o old, e.node) /\ borne \o old \in Seq(Nat)
    BY <1>2, <2>6, AppendedToJoin, ConcatProperties
  <2> QED
    BY <2>2, <2>4, <2>5, <2>7 DEF NamesOf
<1>7. PICK d \in Nat, g \in Nat : Named(w, above, L, d, g, e.path)
  BY <1>2 DEF NamedSome
<1> DEFINE l == L + 1 - g
<1>8. d \in 1..(L + 1) /\ g \in 0..(L + 1) /\ d + g <= L + 1 /\ Len(x) = l
      /\ (\A k \in 1..l : x[k] = above[IF k <= d THEN k ELSE k + g]) /\ (g # 0 => Len(e.path) <= Len(w.at))
  BY <1>7 DEF Named
<1> HIDE DEF x, y, c
<1>9. y \in Seq(Nat) /\ Len(y) = l + 1 /\ y[l + 1] = e.node /\ \A k \in 1..l : y[k] = x[k]
  <2>1. y \in Seq(Nat) /\ Len(y) = Len(x) + 1 /\ y[Len(x) + 1] = e.node /\ \A k \in 1..Len(x) : y[k] = x[k]
    BY <1>2, <1>6, Appended
  <2> HIDE DEF l
  <2> QED
    BY <1>8, <2>1
<1>10. l \in Nat /\ l + 1 = Len(above) - g /\ ~(l + 1 <= d) /\ (l + 1) + g = L + 2
  <2>1. L \in Nat /\ d \in Nat /\ g \in 0..(L + 1) /\ d + g <= L + 1
    BY <1>2, <1>8
  <2>2. l \in Nat /\ l + 1 = (L + 2) - g /\ ~(l + 1 <= d) /\ (l + 1) + g = L + 2
    BY <2>1
  <2> QED
    BY <1>2, <2>2
<1> HIDE DEF l
<1>11. \A k \in 1..(l + 1) : y[k] = above[IF k <= d THEN k ELSE k + g]
  <2> SUFFICES ASSUME NEW k \in 1..(l + 1) PROVE y[k] = above[IF k <= d THEN k ELSE k + g]
    OBVIOUS
  <2>1. CASE k = l + 1
    BY <1>2, <1>9, <1>10, <2>1
  <2>2. CASE k # l + 1
    <3>1. k \in 1..l
      BY <1>10, <2>2
    <3> QED
      BY <1>8, <1>9, <3>1
  <2> QED
    BY <2>1, <2>2
<1>12. y = Skipping(above, d, g)
  <2>1. y = [k \in 1..(l + 1) |-> y[k]]
    BY <1>9, LenProperties
  <2> QED
    BY <1>10, <1>11, <2>1 DEF Skipping
<1>13. g # 0 => seg = <<>>
  <2>1. Len(w.at) \in Nat /\ Len(seg) \in Nat /\ (seg = <<>> <=> Len(seg) = 0)
    BY <1>2, <1>4, LenProperties, EmptySeq
  <2> QED
    BY <1>2, <1>8, <2>1
<1>14. d \in 1..Len(above) /\ g \in 0..Len(above) /\ d + g < Len(above)
  BY <1>2, <1>8
<1> QED
  BY <1>12, <1>13, <1>14 DEF y, trail, above, seg, C

LEMMA TrailsName == ASSUME SiteIInv PROVE TrailNamesEveryLevel
<1>1. CASE built.map = {}
  BY <1>1 DEF TrailNamesEveryLevel, Inner
<1>2. CASE SiteBuilt
  BY <1>2, TrailNames DEF TrailNamesEveryLevel
<1> QED
  BY <1>1, <1>2, BuiltIs

\* The routes, the links, the sitemap, the addresses the server renders and the breadcrumbs
\* of a site agree, whatever pages its author declares.
THEOREM SiteWalksAgree == SiteSpec => []SiteSafe
<1>1. SiteIInv => SiteSafe
  BY LinksOpen, PublishedOpens, TrailsName DEF SiteSafe
<1> QED
  BY <1>1, SiteStarts, SiteStays, PTL DEF SiteSpec

-----------------------------------------------------------------------------
(* SitemapCache.  Max and Min are choices: a bounded set of numbers has both. *)

LEMMA LeastOf == ASSUME NEW S \in SUBSET Nat, S # {} PROVE Min(S) \in S /\ \A y \in S : Min(S) <= y
<1>1. PICK x \in S : \A y \in S : x <= y
  BY Least
<1> QED
  BY <1>1 DEF Min

LEMMA Greatest == ASSUME NEW n \in Nat, NEW S \in SUBSET (0..n), S # {} PROVE Max(S) \in S /\ \A y \in S : y <= Max(S)
<1> DEFINE T == {n - x : x \in S}
<1>1. \A x \in S : n - x \in Nat
  OBVIOUS
<1>2. T \in SUBSET Nat /\ T # {}
  BY <1>1
<1> HIDE DEF T
<1>3. PICK t \in T : \A u \in T : t <= u
  BY <1>2, LeastOf
<1>4. PICK x \in S : t = n - x
  BY <1>3 DEF T
<1>5. \A y \in S : x >= y
  BY <1>3, <1>4 DEF T
<1> QED
  BY <1>5 DEF Max

-----------------------------------------------------------------------------
LEMMA Numbers ==
  /\ TTL \in Nat /\ Timeout \in Nat /\ MaxTime \in Nat /\ MaxChanges \in Nat
  /\ Entries \in Views /\ NoDoc \notin Views /\ NoDoc \notin Clients
BY SitemapAssumption DEF Views

(* What an entry and a fetch consist of.                                   *)
LEMMA Parts ==
  ASSUME DocTypeOK
  PROVE  /\ \A v \in Views : cache[v] # NoDoc =>
               /\ cache[v] = [content |-> cache[v].content, expires |-> cache[v].expires]
               /\ cache[v].content \in Content /\ cache[v].expires \in Nat
               /\ cache[v].content.version \in 0..MaxChanges /\ cache[v].content.at \in 0..MaxTime
         /\ \A f \in Clients :
               /\ fetching[f].state \in {"none", "asked", "read"}
               /\ fetching[f].state = "read" =>
                    /\ fetching[f] = [state |-> "read", content |-> fetching[f].content]
                    /\ fetching[f].content \in Content
                    /\ fetching[f].content.version \in 0..MaxChanges /\ fetching[f].content.at \in 0..MaxTime
                    /\ fetching[f].content.overtaken \in BOOLEAN
               /\ fetching[f].state = "asked" =>
                    fetching[f] = [state |-> "asked", overtaken |-> fetching[f].overtaken] /\ fetching[f].overtaken \in BOOLEAN
<1>1. ASSUME NEW v \in Views, cache[v] # NoDoc
      PROVE  /\ cache[v] = [content |-> cache[v].content, expires |-> cache[v].expires]
             /\ cache[v].content \in Content /\ cache[v].expires \in Nat
  BY <1>1 DEF DocTypeOK, Entry
<1>2. ASSUME NEW f \in Clients
      PROVE  /\ fetching[f].state \in {"none", "asked", "read"}
             /\ fetching[f].state = "read" =>
                  fetching[f] = [state |-> "read", content |-> fetching[f].content] /\ fetching[f].content \in Content
             /\ fetching[f].state = "asked" =>
                  fetching[f] = [state |-> "asked", overtaken |-> fetching[f].overtaken] /\ fetching[f].overtaken \in BOOLEAN
  <2>1. fetching[f] \in DocFetch
    BY DEF DocTypeOK
  <2>2. CASE fetching[f] \in [state : {"none", "asked"}, overtaken : BOOLEAN]
    BY <2>2
  <2>3. CASE fetching[f] \in [state : {"read"}, content : Content]
    BY <2>3
  <2> QED
    BY <2>1, <2>2, <2>3 DEF DocFetch
<1>3. \A c \in Content : c.version \in 0..MaxChanges /\ c.at \in 0..MaxTime /\ c.overtaken \in BOOLEAN
  BY DEF Content
<1> QED
  BY <1>1, <1>2, <1>3

LEMMA InitInv == DocInit => DocIInv
<1> SUFFICES ASSUME DocInit PROVE DocIInv
  OBVIOUS
<1>1. \A f \in Clients : fetching[f] = NoFetch /\ ~FetchRuns(f) /\ fetching[f].state = "none"
  BY DEF DocInit, NoFetch, FetchRuns
<1>2. NoFetch \in DocFetch
  BY DEF NoFetch, DocFetch
<1>3. DocTypeOK
  BY <1>2, Numbers DEF DocInit, DocTypeOK
<1>4. RevalidatedIsGone /\ KeptSoLong /\ FlightIsKnown
  BY <1>1, Numbers DEF DocInit, RevalidatedIsGone, KeptSoLong, FlightIsKnown
<1>5. FetchIsShort /\ ToldIsTrue /\ VersionsInOrder
  BY <1>1, Numbers DEF DocInit, FetchIsShort, ToldIsTrue, VersionsInOrder, UpTo
<1> QED
  BY <1>3, <1>4, <1>5 DEF DocIInv

-----------------------------------------------------------------------------
(* What is sent from a cache is what this cache has, or the entries if it  *)
(* has nothing valid: no reader has had anything newer.                    *)
LEMMA ServedKeeps ==
  ASSUME DocIInv, NEW v \in Views, NEW w \in {v, Entries}, cache[w] # NoDoc, now < cache[w].expires, CacheEnabled,
         sentOut' = [sentOut EXCEPT ![v] = cache[w].content.version],
         \/ w = v /\ cache' = cache
         \/ w = Entries /\ v # Entries /\ cache' = [cache EXCEPT ![v] = [content |-> cache[w].content, expires |-> now + TTL]],
         UNCHANGED <<now, backend, told, inFlight, fetching, view, askedAt, awaiting>>
  PROVE  DocIInv' /\ \A u \in Views : sentOut'[u] >= sentOut[u]
<1> DEFINE c == cache[w].content
<1>1. /\ w \in Views /\ c \in Content /\ c.version \in 0..MaxChanges /\ c.at \in 0..MaxTime
      /\ cache \in [Views -> Entry \union {NoDoc}] /\ sentOut \in [Views -> 0..MaxChanges] /\ now \in 0..MaxTime
  BY Numbers, Parts DEF DocIInv, DocTypeOK
<1>2. \A u \in Views : cache'[u] = cache[u] \/ (u = v /\ cache'[u] = [content |-> c, expires |-> now + TTL])
  BY <1>1
<1>3. \A u \in Views : sentOut'[u] = sentOut[u] \/ (u = v /\ sentOut'[u] = c.version)
  BY <1>1
<1>4. [content |-> c, expires |-> now + TTL] \in Entry
  BY <1>1, Numbers DEF Entry
<1> HIDE DEF c
<1>5. DocTypeOK'
  BY <1>1, <1>3, <1>4 DEF c, DocIInv, DocTypeOK, FetchRuns, backend
<1>6. RevalidatedIsGone'
  BY <1>1, <1>2 DEF c, DocIInv, RevalidatedIsGone
<1>7. FlightIsKnown' /\ FetchIsShort' /\ ToldIsTrue'
  BY DEF DocIInv, FlightIsKnown, FetchIsShort, ToldIsTrue, FetchRuns, backend
<1>8. KeptSoLong'
  BY <1>1, <1>2, Numbers, Parts DEF c, DocIInv, KeptSoLong
<1>9. sentOut[v] <= c.version /\ (cache[Entries] # NoDoc => c.version <= cache[Entries].content.version)
  BY <1>1, Numbers DEF c, DocIInv, VersionsInOrder, UpTo
<1>10. \A u \in Views : sentOut'[u] >= sentOut[u]
  BY <1>1, <1>3, <1>9
<1> DEFINE UpToNext(n) == \A u \in Views : sentOut'[u] <= n /\ (cache'[u] # NoDoc => cache'[u].content.version <= n)
<1>11. \A n \in Nat : UpTo(n) /\ c.version <= n => UpToNext(n)
  BY <1>2, <1>3 DEF UpTo
<1> HIDE DEF UpToNext
<1>12. c.version <= catalog /\ \A f \in Clients : fetching[f].state = "read" => c.version <= fetching[f].content.version
  BY <1>1 DEF c, DocIInv, VersionsInOrder, UpTo
<1>13. VersionsInOrder'
  <2>1. \A u \in Views : cache'[u] # NoDoc => CacheEnabled /\ sentOut'[u] <= cache'[u].content.version
    BY <1>1, <1>2, <1>3, <1>9 DEF c, DocIInv, VersionsInOrder
  <2>2. cache'[Entries] = cache[Entries] /\ (cache[Entries] # NoDoc => UpToNext(cache[Entries].content.version))
    BY <1>1, <1>9, <1>11, Numbers, Parts DEF c, DocIInv, VersionsInOrder
  <2>3. UpToNext(catalog)
    BY <1>11, <1>12 DEF DocIInv, DocTypeOK, VersionsInOrder, backend
  <2>4. \A f \in Clients : fetching[f].state = "read" => UpToNext(fetching[f].content.version)
    <3> SUFFICES ASSUME NEW f \in Clients, fetching[f].state = "read" PROVE UpToNext(fetching[f].content.version)
      OBVIOUS
    <3>1. fetching[f].content.version \in 0..MaxChanges
      BY Parts DEF DocIInv
    <3>2. UpTo(fetching[f].content.version) /\ c.version <= fetching[f].content.version
      BY <1>12 DEF DocIInv, VersionsInOrder
    <3> QED
      BY <3>1, <3>2, <1>11, Numbers
  <2>5. fetching' = fetching /\ catalog' = catalog /\ Views' = Views
    BY DEF backend, Views
  <2>6. cache'[Entries] # NoDoc => UpTo(cache[Entries].content.version)'
    BY <2>2 DEF UpTo, UpToNext
  <2>7. UpTo(catalog)'
    BY <2>3, <2>5 DEF UpTo, UpToNext
  <2>8. ASSUME NEW f \in Clients PROVE (fetching[f].state = "read" => UpTo(fetching[f].content.version) /\ fetching[f].content.version <= catalog)'
    BY <2>4, <2>5 DEF DocIInv, VersionsInOrder, UpTo, UpToNext
  <2> QED
    BY <2>1, <2>6, <2>7, <2>8 DEF VersionsInOrder
<1> QED
  BY <1>5, <1>6, <1>7, <1>8, <1>10, <1>13 DEF DocIInv

LEMMA HitKeeps ==
  ASSUME DocIInv, NEW r \in Clients, NEW v \in Views, CacheHit(r, v)
  PROVE  DocIInv' /\ \A u \in Views : sentOut'[u] >= sentOut[u]
<1>1. /\ cache[v] # NoDoc /\ now < cache[v].expires /\ CacheEnabled /\ cache' = cache
      /\ sentOut' = [sentOut EXCEPT ![v] = cache[v].content.version]
      /\ UNCHANGED <<now, backend, told, inFlight, fetching, view, askedAt, awaiting>>
  BY DEF CacheHit, Valid, ServeDoc
<1> QED
  BY <1>1, ServedKeeps

LEMMA BuildKeeps ==
  ASSUME DocIInv, NEW r \in Clients, NEW v \in Views, Build(r, v)
  PROVE  DocIInv' /\ \A u \in Views : sentOut'[u] >= sentOut[u]
<1>1. /\ v # Entries /\ cache[Entries] # NoDoc /\ now < cache[Entries].expires /\ CacheEnabled
      /\ cache' = [cache EXCEPT ![v] = [content |-> cache[Entries].content, expires |-> now + TTL]]
      /\ sentOut' = [sentOut EXCEPT ![v] = cache[Entries].content.version]
      /\ UNCHANGED <<now, backend, told, inFlight, fetching, view, askedAt, awaiting>>
  BY DEF Build, Valid, ServeDoc
<1> QED
  BY <1>1, ServedKeeps

-----------------------------------------------------------------------------
(* The fetch: asked, read, settled or failed.                              *)

LEMMA AskKeeps == ASSUME DocIInv, NEW r \in Clients, NEW v \in Views, Ask(r, v) PROVE DocIInv'
<1> DEFINE asked == [state |-> "asked", overtaken |-> FALSE]
<1>1. /\ view[r] = NoDoc /\ awaiting[r] = NoDoc /\ ~FetchRuns(r)
      /\ view' = [view EXCEPT ![r] = v] /\ askedAt' = [askedAt EXCEPT ![r] = now]
      /\ UNCHANGED <<sentOut, now, backend, told, cache>>
  BY Numbers DEF Ask, Wait, DocIInv, FlightIsKnown
<1>2. \/ /\ inFlight = NoDoc /\ inFlight' = r /\ fetching' = [fetching EXCEPT ![r] = asked]
         /\ awaiting' = [awaiting EXCEPT ![r] = r]
      \/ /\ inFlight # NoDoc /\ UNCHANGED <<inFlight, fetching>>
         /\ awaiting' = [awaiting EXCEPT ![r] = inFlight]
  BY DEF Ask, Wait
<1>3. /\ fetching \in [Clients -> DocFetch] /\ inFlight \in Clients \union {NoDoc} /\ asked \in DocFetch /\ asked.state = "asked"
      /\ view \in [Clients -> Views \union {NoDoc}] /\ awaiting \in [Clients -> Clients \union {NoDoc}]
      /\ askedAt \in [Clients -> 0..MaxTime] /\ now \in 0..MaxTime
      /\ inFlight # NoDoc => FetchRuns(inFlight)
  BY DEF DocIInv, DocTypeOK, DocFetch
<1> HIDE DEF asked
<1>4. \A f \in Clients : /\ fetching'[f] = fetching[f] \/ (f = r /\ inFlight = NoDoc /\ fetching'[f].state = "asked")
                         /\ FetchRuns(f)' <=> FetchRuns(f) \/ (f = r /\ inFlight = NoDoc)
  BY <1>1, <1>2, <1>3 DEF FetchRuns
<1>5. FetchRuns(r)' <=> inFlight = NoDoc
  BY <1>1, <1>4
<1>6. DocTypeOK'
  BY <1>1, <1>2, <1>3, <1>4, Numbers DEF DocIInv, DocTypeOK, backend
<1>7. RevalidatedIsGone' /\ KeptSoLong'
  BY <1>1 DEF DocIInv, RevalidatedIsGone, KeptSoLong
<1>8. FlightIsKnown'
  <2>1. \A f \in Clients : FetchRuns(f)' <=> inFlight' = f
    BY <1>1, <1>2, <1>3, <1>4, Numbers DEF DocIInv, FlightIsKnown
  <2>2. /\ \A q \in Clients : q # r => awaiting'[q] = awaiting[q] /\ view'[q] = view[q]
        /\ view'[r] = v /\ v # NoDoc /\ awaiting'[r] \in Clients /\ FetchRuns(awaiting[r])'
        /\ FetchRuns(r)' => awaiting'[r] = r
    BY <1>1, <1>2, <1>3, <1>4, Numbers
  <2>3. \A q \in Clients : awaiting'[q] # NoDoc => awaiting'[q] \in Clients /\ FetchRuns(awaiting[q])'
    BY <1>3, <1>4, <2>2 DEF DocIInv, FlightIsKnown
  <2>4. \A f \in Clients : FetchRuns(f)' => awaiting'[f] = f
    BY <1>4, <2>2 DEF DocIInv, FlightIsKnown
  <2>5. \A q \in Clients : view'[q] # NoDoc <=> awaiting'[q] # NoDoc
    BY <2>2, Numbers DEF DocIInv, FlightIsKnown
  <2> QED
    BY <2>1, <2>3, <2>4, <2>5 DEF FlightIsKnown, FetchRuns
<1>9. FetchIsShort'
  <2>1. \A q \in Clients : askedAt'[q] = askedAt[q] \/ (q = r /\ askedAt'[q] = now)
    BY <1>1, <1>3
  <2>2. \A f \in Clients : FetchRuns(f) => askedAt'[f] = askedAt[f]
    BY <1>1, <2>1
  <2>3. \A q \in Clients : askedAt'[q] <= now'
    BY <1>1, <1>3, <2>1 DEF DocIInv, FetchIsShort
  <2>4. \A f \in Clients : FetchRuns(f)' => now' <= askedAt'[f] + Timeout
    BY <1>1, <1>3, <1>4, <2>2, Numbers DEF DocIInv, FetchIsShort
  <2>5. \A f \in Clients : fetching'[f].state = "read" =>
          askedAt'[f] <= fetching'[f].content.at /\ fetching'[f].content.at <= now'
    BY <1>1, <1>4, <2>2, "asked" # "read" DEF DocIInv, FetchIsShort, FetchRuns
  <2> QED
    BY <2>3, <2>4, <2>5 DEF FetchIsShort, FetchRuns
<1>10. ToldIsTrue'
  BY <1>1, <1>4, "asked" # "read" DEF DocIInv, ToldIsTrue, backend
<1>11. VersionsInOrder'
  BY <1>1, <1>4, "asked" # "read" DEF DocIInv, VersionsInOrder, UpTo, backend
<1> QED
  BY <1>6, <1>7, <1>8, <1>9, <1>10, <1>11 DEF DocIInv

(* What the backend reads is what it has now, the newest there is.         *)
LEMMA ReadKeeps == ASSUME DocIInv, NEW g \in Clients, Read(g) PROVE DocIInv'
<1> DEFINE answer == [state |-> "read", content |-> [version |-> catalog, at |-> now, overtaken |-> fetching[g].overtaken]]
<1>1. /\ fetching[g].state = "asked" /\ fetching' = [fetching EXCEPT ![g] = answer]
      /\ UNCHANGED <<now, catalog, posts, told, cache, inFlight, view, askedAt, awaiting, sentOut>>
  BY DEF Read, backend, requests
<1>2. /\ fetching \in [Clients -> DocFetch] /\ catalog \in 0..MaxChanges /\ now \in 0..MaxTime
      /\ fetching[g].overtaken \in BOOLEAN
  BY <1>1, Parts DEF DocIInv, DocTypeOK
<1>3. answer \in DocFetch /\ answer.state = "read" /\ answer.content.version = catalog /\ answer.content.at = now
  BY <1>2 DEF DocFetch, Content
<1> HIDE DEF answer
<1>4. \A f \in Clients : fetching'[f] = fetching[f] \/ (f = g /\ fetching'[f] = answer)
  BY <1>1, <1>2
<1>5. FetchRuns(g) /\ \A f \in Clients : FetchRuns(f)' <=> FetchRuns(f)
  BY <1>1, <1>2, <1>3 DEF FetchRuns
<1>6. DocTypeOK'
  BY <1>1, <1>2, <1>3, <1>5 DEF DocIInv, DocTypeOK
<1>7. RevalidatedIsGone' /\ KeptSoLong' /\ FlightIsKnown'
  BY <1>1, <1>5 DEF DocIInv, DocTypeOK, RevalidatedIsGone, KeptSoLong, FlightIsKnown
<1>8. FetchIsShort'
  BY <1>1, <1>2, <1>3, <1>4, <1>5 DEF DocIInv, FetchIsShort
<1>9. ToldIsTrue'
  BY <1>1, <1>2, <1>3, <1>4 DEF DocIInv, DocTypeOK, ToldIsTrue
<1>10. VersionsInOrder'
  BY <1>1, <1>2, <1>3, <1>4 DEF DocIInv, VersionsInOrder, UpTo
<1> QED
  BY <1>6, <1>7, <1>8, <1>9, <1>10 DEF DocIInv

(* The end of the fetch is the end of every request: all waited for it.    *)
LEMMA EndEnds ==
  ASSUME DocIInv, NEW f \in Clients, FetchRuns(f), End(f)
  PROVE  /\ FlightIsKnown' /\ FetchIsShort'
         /\ inFlight' \in {g \in Clients : FetchRuns(g)'} \union {NoDoc}
         /\ fetching' \in [Clients -> DocFetch]
         /\ view' \in [Clients -> Views \union {NoDoc}]
         /\ askedAt' \in [Clients -> 0..MaxTime]
         /\ awaiting' \in [Clients -> Clients \union {NoDoc}]
         /\ \A g \in Clients : fetching'[g].state # "read"
         /\ UNCHANGED <<now, backend, told>>
<1>1. /\ fetching' = [fetching EXCEPT ![f] = NoFetch] /\ inFlight' = NoDoc
      /\ view' = [r \in Clients |-> IF awaiting[r] = f THEN NoDoc ELSE view[r]]
      /\ awaiting' = [r \in Clients |-> IF awaiting[r] = f THEN NoDoc ELSE awaiting[r]]
      /\ askedAt' = [r \in Clients |-> IF awaiting[r] = f THEN 0 ELSE askedAt[r]]
      /\ UNCHANGED <<now, backend, told>>
  BY DEF End
<1>2. NoFetch \in DocFetch /\ NoFetch.state = "none" /\ 0 \in 0..MaxTime
  BY Numbers DEF NoFetch, DocFetch
<1>3. /\ fetching \in [Clients -> DocFetch] /\ view \in [Clients -> Views \union {NoDoc}] /\ now \in 0..MaxTime
      /\ askedAt \in [Clients -> 0..MaxTime] /\ awaiting \in [Clients -> Clients \union {NoDoc}]
  BY DEF DocIInv, DocTypeOK
<1>4. \A g \in Clients : ~FetchRuns(g)' /\ fetching'[g].state # "read"
  BY <1>1, <1>2, <1>3 DEF DocIInv, FlightIsKnown, FetchRuns
<1>5. \A r \in Clients : awaiting[r] = f \/ awaiting[r] = NoDoc
  BY <1>3 DEF DocIInv, FlightIsKnown
<1>6. \A r \in Clients : awaiting'[r] = NoDoc /\ view'[r] = NoDoc
  BY <1>1, <1>3, <1>5, Numbers DEF DocIInv, FlightIsKnown
<1>7. FlightIsKnown'
  BY <1>1, <1>4, <1>6, Numbers DEF FlightIsKnown
<1>8. FetchIsShort'
  BY <1>1, <1>3, <1>4, Numbers DEF DocIInv, FetchIsShort
<1> QED
  BY <1>1, <1>2, <1>3, <1>4, <1>7, <1>8

(* An answer is kept from when the requests asked, which is at most a      *)
(* timeout after it was read.                                              *)
LEMMA ExpiryIsBounded ==
  ASSUME DocIInv, NEW f \in Clients, FetchRuns(f), NEW v \in Views, v = Entries \/ Waiters(f, v) # {}
  PROVE  Expiry(f, v) \in Nat /\ Expiry(f, v) <= TTL + now
<1>1. now \in Nat /\ \A w \in Views : Times(f, w) \in SUBSET (0..now)
  BY Numbers DEF DocIInv, DocTypeOK, FetchIsShort, Times, Waiters
<1>2. \A w \in Views : Waiters(f, w) # {} => Times(f, w) # {}
  BY DEF Times
<1>3. CASE v # Entries
  <2>1. Max(Times(f, v)) \in 0..now
    BY <1>1, <1>2, <1>3, Greatest
  <2> QED
    BY <2>1, <1>1, <1>3, Numbers DEF Expiry
<1>4. CASE v = Entries
  <2> DEFINE S == Times(f, Entries) \union {Min(Times(f, w)) : w \in {u \in Views : Times(f, u) # {}}}
  <2>1. \A w \in Views : Times(f, w) # {} => Min(Times(f, w)) \in 0..now
    <3> SUFFICES ASSUME NEW w \in Views, Times(f, w) # {} PROVE Min(Times(f, w)) \in 0..now
      OBVIOUS
    <3>1. Times(f, w) \in SUBSET Nat
      BY <1>1
    <3> QED
      BY <3>1, <1>1, LeastOf
  <2>2. S \in SUBSET (0..now)
    BY <1>1, <2>1, Numbers
  <2>3. S # {}
    <3>1. awaiting[f] = f /\ view[f] \in Views
      BY Numbers DEF DocIInv, DocTypeOK, FlightIsKnown
    <3>2. Times(f, view[f]) # {}
      BY <3>1, <1>2 DEF Waiters
    <3> QED
      BY <3>1, <3>2
  <2>4. Max(S) \in 0..now
    BY <1>1, <2>2, <2>3, Greatest
  <2>5. Expiry(f, v) = TTL + Max(S)
    BY <1>4 DEF Expiry, EntriesExpiry
  <2> HIDE DEF S
  <2> QED
    BY <2>4, <2>5, <1>1, Numbers
<1> QED
  BY <1>3, <1>4

LEMMA SettlesKeeps ==
  ASSUME DocIInv, NEW f \in Clients, FetchSettles(f)
  PROVE  DocIInv' /\ \A u \in Views : sentOut'[u] >= sentOut[u]
<1> DEFINE c == fetching[f].content
<1>1. /\ fetching[f].state = "read" /\ FetchRuns(f) /\ End(f) /\ cache' = Refresh(f, c)
      /\ sentOut' = [v \in Views |-> IF Waiters(f, v) # {} THEN c.version ELSE sentOut[v]]
  BY DEF FetchSettles, FetchRuns
<1>2. /\ cache \in [Views -> Entry \union {NoDoc}] /\ sentOut \in [Views -> 0..MaxChanges]
      /\ now \in 0..MaxTime /\ catalog \in 0..MaxChanges /\ told \in 0..MaxChanges
      /\ askedAt[f] \in Nat
  BY Numbers DEF DocIInv, DocTypeOK
<1>3. c \in Content /\ c.version \in 0..MaxChanges /\ c.at \in 0..MaxTime
  BY <1>1, Parts DEF DocIInv
<1>4. /\ c.version <= catalog /\ (c.overtaken \/ c.version >= told) /\ now <= c.at + Timeout
      /\ \A v \in Views : sentOut[v] <= c.version /\ (cache[v] # NoDoc => cache[v].content.version <= c.version)
  BY <1>1, <1>2, <1>3, Numbers DEF DocIInv, ToldIsTrue, VersionsInOrder, UpTo, FetchIsShort
<1> HIDE DEF c
<1>5. \A v \in Views : /\ cache'[v] = cache[v] /\ (v = Entries \/ Waiters(f, v) # {} => ~CacheEnabled)
                       \/ /\ CacheEnabled /\ cache'[v] = [content |-> c, expires |-> Expiry(f, v)]
                          /\ Expiry(f, v) \in Nat /\ Expiry(f, v) <= TTL + now
  BY <1>1, ExpiryIsBounded DEF Refresh
<1>14. \A v \in Views : \/ cache'[v] = cache[v] /\ (v = Entries \/ Waiters(f, v) # {} => ~CacheEnabled)
                        \/ /\ CacheEnabled /\ cache'[v].content = c
                           /\ cache'[v].expires \in Nat /\ cache'[v].expires <= TTL + now
  <2> SUFFICES ASSUME NEW v \in Views, CacheEnabled, cache'[v] = [content |-> c, expires |-> Expiry(f, v)]
               PROVE  cache'[v].content = c /\ cache'[v].expires = Expiry(f, v)
    BY <1>5, Zenon
  <2> QED
    OBVIOUS
<1>6. \A v \in Views : sentOut'[v] = IF Waiters(f, v) # {} THEN c.version ELSE sentOut[v]
  BY <1>1
<1>7. \A v \in Views : sentOut'[v] >= sentOut[v] /\ sentOut'[v] <= c.version /\ sentOut'[v] \in 0..MaxChanges
  BY <1>2, <1>3, <1>4, <1>6
<1>8. DocTypeOK'
  <2>1. \A n \in Nat : [content |-> c, expires |-> n] \in Entry
    BY <1>3 DEF Entry
  <2>2. \A v \in Views : cache'[v] \in Entry \union {NoDoc}
    BY <1>2, <1>5, <2>1
  <2>3. cache' \in [Views -> Entry \union {NoDoc}]
    BY <1>1, <2>2 DEF Refresh
  <2>4. sentOut' \in [Views -> 0..MaxChanges]
    BY <1>1, <1>7
  <2> QED
    BY <1>1, <2>3, <2>4, EndEnds DEF DocIInv, DocTypeOK, backend
<1>9. FlightIsKnown' /\ FetchIsShort' /\ now' = now /\ catalog' = catalog /\ posts' = posts /\ told' = told
      /\ \A g \in Clients : fetching'[g].state # "read"
  BY <1>1, EndEnds DEF backend
<1>10. ToldIsTrue'
  BY <1>9 DEF DocIInv, ToldIsTrue
<1>11. RevalidatedIsGone'
  BY <1>4, <1>14, <1>9 DEF DocIInv, RevalidatedIsGone
<1>12. KeptSoLong'
  <2>1. \A n \in Nat : n <= TTL + now => n <= c.at + Timeout + TTL /\ n <= c.at + Timeout + 2 * TTL
    BY <1>2, <1>3, <1>4, Numbers
  <2> QED
    BY <1>14, <2>1 DEF DocIInv, KeptSoLong
<1>13. VersionsInOrder'
  <2>1. \A v \in Views : cache'[v] # NoDoc => CacheEnabled /\ sentOut'[v] <= cache'[v].content.version
    BY <1>2, <1>3, <1>14, <1>6, <1>7 DEF DocIInv, VersionsInOrder
  <2>2. \A v \in Views : cache'[v] # NoDoc => cache'[v].content.version <= c.version
    BY <1>3, <1>4, <1>14
  <2>3. cache'[Entries] # NoDoc => CacheEnabled /\ cache'[Entries].content = c
    BY <1>14, <2>1, Numbers
  <2>4. \A v \in Views : cache'[v] # NoDoc => cache'[v].content.version <= catalog
    <3>1. \A v \in Views : cache[v] # NoDoc => cache[v].content.version <= catalog
      BY DEF DocIInv, VersionsInOrder, UpTo
    <3> QED
      BY <1>4, <1>14, <3>1
  <2>5. \A v \in Views : sentOut'[v] <= catalog
    BY <1>2, <1>3, <1>4, <1>7, Numbers
  <2>6. UpTo(catalog)'
    BY <1>9, <2>4, <2>5 DEF UpTo
  <2>7. (cache[Entries] # NoDoc => UpTo(cache[Entries].content.version))'
    BY <1>7, <2>2, <2>3 DEF UpTo
  <2> QED
    BY <1>9, <2>1, <2>6, <2>7 DEF VersionsInOrder
<1> QED
  BY <1>7, <1>8, <1>9, <1>10, <1>11, <1>12, <1>13 DEF DocIInv

LEMMA FailsKeeps ==
  ASSUME DocIInv, NEW f \in Clients, DocFetchFails(f)
  PROVE  DocIInv' /\ \A u \in Views : sentOut'[u] >= sentOut[u]
<1>1. /\ FetchRuns(f) /\ End(f) /\ cache' = cache
      /\ sentOut' = [v \in Views |->
           IF Waiters(f, v) # {} /\ Fallback(v) THEN cache[v].content.version ELSE sentOut[v]]
  BY DEF DocFetchFails, FailWith
<1>2. \A v \in Views : /\ sentOut[v] \in 0..MaxChanges
                       /\ cache[v] # NoDoc => /\ cache[v].content.version \in 0..MaxChanges
                                              /\ sentOut[v] <= cache[v].content.version
  BY Parts DEF DocIInv, DocTypeOK, VersionsInOrder
<1>3. \A v \in Views : \/ sentOut'[v] = sentOut[v]
                       \/ cache[v] # NoDoc /\ sentOut'[v] = cache[v].content.version
  <2> SUFFICES ASSUME NEW v \in Views
               PROVE  \/ sentOut'[v] = sentOut[v]
                      \/ cache[v] # NoDoc /\ sentOut'[v] = cache[v].content.version
    OBVIOUS
  <2>1. CASE Waiters(f, v) # {} /\ Fallback(v)
    <3>1. sentOut'[v] = cache[v].content.version
      BY <1>1, <2>1
    <3> QED
      BY <2>1, <3>1 DEF Fallback
  <2>2. CASE ~(Waiters(f, v) # {} /\ Fallback(v))
    BY <1>1, <2>2
  <2> QED
    BY <2>1, <2>2
<1>4. \A v \in Views : /\ sentOut'[v] >= sentOut[v] /\ sentOut'[v] \in 0..MaxChanges
                       /\ cache[v] # NoDoc => sentOut'[v] <= cache[v].content.version
  <2> SUFFICES ASSUME NEW v \in Views
               PROVE  /\ sentOut'[v] >= sentOut[v] /\ sentOut'[v] \in 0..MaxChanges
                      /\ cache[v] # NoDoc => sentOut'[v] <= cache[v].content.version
    OBVIOUS
  <2> DEFINE kept == cache[v].content.version
  <2>1. MaxChanges \in Nat /\ sentOut[v] \in 0..MaxChanges
    BY <1>2, Numbers
  <2>2. cache[v] # NoDoc => kept \in 0..MaxChanges /\ sentOut[v] <= kept
    BY <1>2
  <2>3. sentOut'[v] = sentOut[v] \/ (cache[v] # NoDoc /\ sentOut'[v] = kept)
    BY <1>3
  <2> HIDE DEF kept
  <2>4. sentOut'[v] >= sentOut[v] /\ sentOut'[v] \in 0..MaxChanges /\ (cache[v] # NoDoc => sentOut'[v] <= kept)
    BY <2>1, <2>2, <2>3
  <2> QED
    BY <2>4 DEF kept
<1>5. /\ FlightIsKnown' /\ FetchIsShort' /\ now' = now /\ catalog' = catalog /\ posts' = posts /\ told' = told
      /\ \A g \in Clients : fetching'[g].state # "read"
  BY <1>1, EndEnds DEF backend
<1>6. DocTypeOK'
  <2>1. sentOut' \in [Views -> 0..MaxChanges]
    BY <1>1, <1>4
  <2> QED
    BY <1>1, <2>1, EndEnds DEF DocIInv, DocTypeOK, backend
<1>7. ToldIsTrue' /\ RevalidatedIsGone' /\ KeptSoLong'
  BY <1>1, <1>5 DEF DocIInv, ToldIsTrue, RevalidatedIsGone, KeptSoLong
<1>8. VersionsInOrder'
  <2>1. \A v \in Views : cache'[v] # NoDoc => CacheEnabled /\ sentOut'[v] <= cache'[v].content.version
    BY <1>1, <1>4 DEF DocIInv, VersionsInOrder
  <2>2. UpTo(catalog)'
    BY <1>1, <1>3, <1>5 DEF DocIInv, VersionsInOrder, UpTo
  <2>3. (cache[Entries] # NoDoc => UpTo(cache[Entries].content.version))'
    BY <1>1, <1>3 DEF DocIInv, VersionsInOrder, UpTo
  <2> QED
    BY <1>5, <2>1, <2>2, <2>3 DEF VersionsInOrder
<1> QED
  BY <1>4, <1>5, <1>6, <1>7, <1>8 DEF DocIInv

-----------------------------------------------------------------------------
(* The catalogue, the notification and the clock.                          *)

LEMMA ChangeKeeps == ASSUME DocIInv, Change PROVE DocIInv'
<1>1. /\ catalog < MaxChanges /\ catalog' = catalog + 1 /\ posts' = posts \union {catalog + 1}
      /\ UNCHANGED <<now, told, cache, inFlight, fetching, view, askedAt, awaiting, sentOut>>
  BY DEF Change, requests
<1>2. /\ catalog \in 0..MaxChanges /\ posts \subseteq 1..MaxChanges /\ told \in 0..MaxChanges
      /\ \A v \in Views : sentOut[v] \in 0..MaxChanges /\ (cache[v] # NoDoc => cache[v].content.version \in 0..MaxChanges)
      /\ \A f \in Clients : fetching[f].state = "read" => fetching[f].content.version \in 0..MaxChanges
  BY Parts DEF DocIInv, DocTypeOK
<1>3. DocTypeOK'
  <2>1. catalog + 1 \in 0..MaxChanges /\ catalog + 1 \in 1..MaxChanges
    BY <1>1, <1>2, Numbers
  <2> QED
    BY <1>1, <1>2, <2>1 DEF DocIInv, DocTypeOK, FetchRuns
<1>4. RevalidatedIsGone' /\ KeptSoLong' /\ FlightIsKnown' /\ FetchIsShort'
  BY <1>1 DEF DocIInv, RevalidatedIsGone, KeptSoLong, FlightIsKnown, FetchIsShort, FetchRuns
<1>5. ToldIsTrue'
  BY <1>1, <1>2, Numbers DEF DocIInv, ToldIsTrue
<1>6. VersionsInOrder'
  <2>1. UpTo(catalog)'
    BY <1>1, <1>2, Numbers DEF DocIInv, VersionsInOrder, UpTo
  <2>2. \A f \in Clients : fetching[f].state = "read" => fetching[f].content.version <= catalog'
    BY <1>1, <1>2, Numbers DEF DocIInv, VersionsInOrder
  <2> QED
    BY <1>1, <2>1, <2>2 DEF DocIInv, VersionsInOrder, UpTo
<1> QED
  BY <1>3, <1>4, <1>5, <1>6 DEF DocIInv

LEMMA PostLostKeeps == ASSUME DocIInv, NEW p \in posts, PostLost(p) PROVE DocIInv'
<1>1. posts' \subseteq posts /\ UNCHANGED <<now, catalog, told, cache, inFlight, fetching, view, askedAt, awaiting, sentOut>>
  BY DEF PostLost, requests
<1>2. DocTypeOK'
  BY <1>1 DEF DocIInv, DocTypeOK, FetchRuns
<1>3. RevalidatedIsGone' /\ KeptSoLong' /\ FlightIsKnown' /\ FetchIsShort'
  BY <1>1 DEF DocIInv, RevalidatedIsGone, KeptSoLong, FlightIsKnown, FetchIsShort, FetchRuns
<1>4. ToldIsTrue' /\ VersionsInOrder'
  BY <1>1 DEF DocIInv, ToldIsTrue, VersionsInOrder, UpTo
<1> QED
  BY <1>2, <1>3, <1>4 DEF DocIInv

(* Nothing is kept, and the answer on its way is marked.                   *)
LEMMA RevalidateKeeps == ASSUME DocIInv, NEW p \in posts, Revalidate(p) PROVE DocIInv'
<1>1. /\ posts' = posts \ {p} /\ told' = Max({told, p}) /\ cache' = [v \in Views |-> NoDoc]
      /\ fetching' = [f \in Clients |-> Overtaken(f)]
      /\ UNCHANGED <<now, catalog, inFlight, view, askedAt, awaiting, sentOut>>
  BY DEF Revalidate, requests
<1>2. told \in 0..MaxChanges /\ p \in 0..MaxChanges /\ told <= catalog /\ p <= catalog
  BY Numbers DEF DocIInv, DocTypeOK, ToldIsTrue
<1>3. told' \in 0..MaxChanges /\ told' <= catalog
  <2>1. {told, p} \in SUBSET (0..MaxChanges) /\ {told, p} # {}
    BY <1>2
  <2>2. Max({told, p}) \in {told, p}
    BY <2>1, Greatest, Numbers
  <2> QED
    BY <1>1, <1>2, <2>2
<1>4. \A f \in Clients :
        /\ fetching'[f] \in DocFetch /\ fetching'[f].state = fetching[f].state
        /\ fetching[f].state = "read" =>
             /\ fetching'[f].content.version = fetching[f].content.version
             /\ fetching'[f].content.at = fetching[f].content.at
             /\ fetching'[f].content.overtaken
  <2> SUFFICES ASSUME NEW f \in Clients
               PROVE  /\ Overtaken(f) \in DocFetch /\ Overtaken(f).state = fetching[f].state
                      /\ fetching[f].state = "read" =>
                           /\ Overtaken(f).content.version = fetching[f].content.version
                           /\ Overtaken(f).content.at = fetching[f].content.at
                           /\ Overtaken(f).content.overtaken
    BY <1>1
  <2>1. CASE fetching[f].state = "read"
    <3> DEFINE c == fetching[f].content
               d == [c EXCEPT !.overtaken = TRUE]
    <3>1. fetching[f] = [state |-> "read", content |-> c] /\ c \in Content
      BY <2>1, Parts DEF DocIInv
    <3>2. d \in Content /\ d.version = c.version /\ d.at = c.at /\ d.overtaken = TRUE
      BY <3>1 DEF Content
    <3>3. Overtaken(f) = [fetching[f] EXCEPT !.content = d]
      BY <2>1 DEF Overtaken
    <3> HIDE DEF c, d
    <3>4. Overtaken(f) = [state |-> "read", content |-> d]
      BY <3>1, <3>3
    <3> QED
      BY <2>1, <3>2, <3>4 DEF c, DocFetch
  <2>2. CASE fetching[f].state = "asked"
    <3>1. Overtaken(f) = [fetching[f] EXCEPT !.overtaken = TRUE]
      BY <2>2 DEF Overtaken
    <3>2. PICK b : fetching[f] = [state |-> "asked", overtaken |-> b]
      BY <2>2, Parts DEF DocIInv
    <3>3. Overtaken(f) = [[state |-> "asked", overtaken |-> b] EXCEPT !.overtaken = TRUE]
      BY <3>1, <3>2, Zenon
    <3>4. Overtaken(f) = [state |-> "asked", overtaken |-> TRUE]
      BY <3>3
    <3> QED
      BY <2>2, <3>4 DEF DocFetch
  <2>3. CASE fetching[f].state \notin {"read", "asked"}
    BY <2>3 DEF Overtaken, DocIInv, DocTypeOK
  <2> QED
    BY <2>1, <2>2, <2>3
<1>5. \A f \in Clients : FetchRuns(f)' <=> FetchRuns(f)
  BY <1>4 DEF FetchRuns
<1>6. DocTypeOK'
  <2>1. fetching' \in [Clients -> DocFetch] /\ cache' \in [Views -> Entry \union {NoDoc}]
    BY <1>1, <1>4
  <2> QED
    BY <1>1, <1>3, <1>5, <2>1 DEF DocIInv, DocTypeOK
<1>7. RevalidatedIsGone' /\ KeptSoLong'
  BY <1>1 DEF RevalidatedIsGone, KeptSoLong
<1>8. FlightIsKnown'
  BY <1>1, <1>5 DEF DocIInv, DocTypeOK, FlightIsKnown
<1>9. FetchIsShort' /\ ToldIsTrue'
  BY <1>1, <1>3, <1>4, <1>5 DEF DocIInv, FetchIsShort, ToldIsTrue
<1>10. VersionsInOrder'
  BY <1>1, <1>4, Numbers DEF DocIInv, VersionsInOrder, UpTo
<1> QED
  BY <1>6, <1>7, <1>8, <1>9, <1>10 DEF DocIInv

LEMMA TickKeeps == ASSUME DocIInv, Tick PROVE DocIInv'
<1>1. /\ now < MaxTime /\ now' = now + 1
      /\ \A f \in Clients : FetchRuns(f) => now < askedAt[f] + Timeout
      /\ UNCHANGED <<catalog, posts, told, cache, inFlight, fetching, view, askedAt, awaiting, sentOut>>
  BY DEF Tick, backend, requests
<1>2. /\ now \in 0..MaxTime /\ askedAt \in [Clients -> 0..MaxTime]
      /\ \A f \in Clients : fetching[f].state = "read" => fetching[f].content.at \in 0..MaxTime
  BY Parts DEF DocIInv, DocTypeOK
<1>3. DocTypeOK'
  BY <1>1, <1>2, Numbers DEF DocIInv, DocTypeOK, FetchRuns
<1>4. FetchIsShort'
  BY <1>1, <1>2, Numbers DEF DocIInv, FetchIsShort, FetchRuns
<1>5. RevalidatedIsGone' /\ KeptSoLong' /\ FlightIsKnown' /\ ToldIsTrue' /\ VersionsInOrder'
  BY <1>1 DEF DocIInv, RevalidatedIsGone, KeptSoLong, FlightIsKnown, ToldIsTrue, VersionsInOrder, UpTo, FetchRuns
<1> QED
  BY <1>3, <1>4, <1>5 DEF DocIInv

-----------------------------------------------------------------------------
(* Every step keeps the invariant and takes no reader back.                *)
LEMMA StepKeeps ==
  ASSUME DocIInv, [DocNext]_docVars
  PROVE  DocIInv' /\ \A u \in Views : sentOut'[u] >= sentOut[u]
<1>1. \A u \in Views : sentOut[u] \in Nat
  BY Numbers DEF DocIInv, DocTypeOK
<1>2. ASSUME NEW r \in Clients, NEW v \in Views, CacheHit(r, v) \/ Build(r, v) \/ Ask(r, v)
      PROVE  DocIInv' /\ \A u \in Views : sentOut'[u] >= sentOut[u]
  <2>1. Ask(r, v) => sentOut' = sentOut
    BY DEF Ask, Wait
  <2> QED
    BY <1>1, <1>2, <2>1, HitKeeps, BuildKeeps, AskKeeps
<1>3. ASSUME NEW f \in Clients, Read(f) \/ FetchSettles(f) \/ DocFetchFails(f)
      PROVE  DocIInv' /\ \A u \in Views : sentOut'[u] >= sentOut[u]
  <2>1. Read(f) => sentOut' = sentOut
    BY DEF Read, requests
  <2> QED
    BY <1>1, <1>3, <2>1, ReadKeeps, SettlesKeeps, FailsKeeps
<1>4. ASSUME Change \/ Tick \/ \E p \in posts : PostLost(p) \/ Revalidate(p)
      PROVE  DocIInv' /\ \A u \in Views : sentOut'[u] >= sentOut[u]
  <2>1. sentOut' = sentOut
    BY <1>4 DEF Change, Tick, PostLost, Revalidate, requests
  <2> QED
    BY <1>1, <1>4, <2>1, ChangeKeeps, TickKeeps, PostLostKeeps, RevalidateKeeps
<1>5. CASE UNCHANGED docVars
  <2>1. UNCHANGED <<now, catalog, posts, told, cache, inFlight, fetching, view, askedAt, awaiting, sentOut>>
    BY <1>5 DEF docVars, backend, requests
  <2>2. DocTypeOK' /\ RevalidatedIsGone' /\ FlightIsKnown'
    BY <2>1 DEF DocIInv, DocTypeOK, RevalidatedIsGone, FlightIsKnown, FetchRuns
  <2>3. FetchIsShort' /\ KeptSoLong' /\ ToldIsTrue' /\ VersionsInOrder'
    BY <2>1 DEF DocIInv, FetchIsShort, KeptSoLong, ToldIsTrue, VersionsInOrder, UpTo, FetchRuns
  <2> QED
    BY <1>1, <2>1, <2>2, <2>3 DEF DocIInv
<1> QED
  BY <1>2, <1>3, <1>4, <1>5 DEF DocNext

(* The two caches of dynamic-sitemap.ts and the entries behind them: what  *)
(* is known of every fetch and of everything kept is an invariant.         *)
THEOREM DocumentsInvariant == DocSpec => []DocIInv
<1>1. DocInit => DocIInv
  BY InitInv
<1>2. DocIInv /\ [DocNext]_docVars => DocIInv'
  BY StepKeeps
<1> QED
  BY <1>1, <1>2, PTL DEF DocSpec

(* One fetch of the catalogue at a time (entriesInFlight), nothing older   *)
(* than a revalidation except what was on its way when it came, and        *)
(* nothing valid older than two TTLs and a timeout.                        *)
THEOREM DocumentsAreSafe == DocSpec => []DocumentsSafe
<1>1. DocIInv => OneFetch
  BY DEF DocIInv, FlightIsKnown, OneFetch
<1>2. DocIInv => AgeBounded
  <2> SUFFICES ASSUME DocIInv, NEW v \in Views, Valid(v)
               PROVE  now - cache[v].content.at < 2 * TTL + Timeout
    BY DEF AgeBounded
  <2>1. cache[v] # NoDoc /\ now < cache[v].expires
    BY DEF Valid
  <2>2. now \in Nat /\ cache[v].expires \in Nat /\ cache[v].content.at \in Nat
    BY <2>1, Parts, Numbers DEF DocIInv, DocTypeOK
  <2>3. cache[v].expires <= cache[v].content.at + Timeout + 2 * TTL
    BY <2>1, <2>2, Numbers DEF DocIInv, KeptSoLong
  <2> QED
    BY <2>1, <2>2, <2>3, Numbers
<1>3. DocIInv => DocumentsSafe
  BY <1>1, <1>2 DEF DocIInv, DocumentsSafe
<1> QED
  BY <1>3, DocumentsInvariant, PTL

(* Who reads one document again and again never sees the catalogue go back *)
(* (dynamicSitemapHandler, dynamicLlmsTxtHandler).                         *)
THEOREM ReadersNeverGoBack == DocSpec => NeverBackwards
<1>1. DocIInv /\ [DocNext]_docVars => [\A v \in Views : sentOut'[v] >= sentOut[v]]_docVars
  BY StepKeeps
<1> QED
  BY <1>1, DocumentsInvariant, PTL DEF DocSpec, NeverBackwards

=============================================================================
