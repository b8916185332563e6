--------------------------- MODULE SConsignProofs ---------------------------
(***************************************************************************)
(* Proofs about SConsign, for any files, sources and includes, any number  *)
(* of edits and builds: types, what a build passes as up to date is so,    *)
(* and a build after one that went well has nothing to do.                 *)
(* Two invariants, for two kinds of worlds.  Rough: builds are disturbed   *)
(* at any step, but no content comes back and every file is read; then     *)
(* a record is of the target that is there, or can never be right again.   *)
(* Calm: contents come back and signatures are taken unread, but builds    *)
(* are left alone; then what is known of a file is the case.               *)
(***************************************************************************)
EXTENDS SConsign, FiniteSetTheorems, WellFoundedInduction, TLAPS

-----------------------------------------------------------------------------
(* Contents of different kinds, or of different files, are different.      *)

\* What a command made tells which command, and from what.
LEMMA ProductIs ==
  ASSUME NEW t, NEW X, NEW u, NEW Y
  PROVE  Product(t, X) = Product(u, Y) <=> t = u /\ X = Y
BY DEF Product

\* What people wrote tells the file and its version.
LEMMA OriginalIs ==
  ASSUME NEW t, NEW v, NEW u, NEW w
  PROVE  Original(t, v) = Original(u, w) <=> t = u /\ v = w
BY DEF Original

\* What a command made is no original, no part of a target, and is there.
LEMMA ProductOnly ==
  ASSUME NEW t, NEW X
  PROVE  /\ \A u, w : Product(t, X) # Original(u, w)
         /\ \A u : Product(t, X) # Partial(u)
         /\ Product(t, X) # Absent /\ Product(t, X) # None
BY DEF Product, Original, Partial, Absent, None

\* An original is no part of a target, and is there.
LEMMA OriginalOnly ==
  ASSUME NEW s, NEW v
  PROVE  /\ \A u : Original(s, v) # Partial(u)
         /\ Original(s, v) # Absent /\ Original(s, v) # None
BY DEF Original, Partial, Absent, None

\* A part of a target is there, and is no missing signature.
LEMMA PartialOnly ==
  ASSUME NEW t PROVE Partial(t) # Absent /\ Partial(t) # None
BY DEF Partial, Absent, None

\* The version of an original can be read off it.
LEMMA VersionOf ==
  ASSUME NEW s, NEW v PROVE Original(s, v).version = v
BY DEF Original

-----------------------------------------------------------------------------
(* Sequences.                                                              *)

\* A set of integers that is not empty and has bounds has a smallest element.
LEMMA LeastIn ==
  ASSUME NEW a \in Int, NEW b \in Int, NEW T, T \subseteq a .. b, T # {}
  PROVE  \E x \in T : \A y \in T : x <= y
<1>1. PICK S : S = a .. b
  OBVIOUS
<1>2. IsFiniteSet(S)
  BY <1>1, FS_Interval
<1>3. IsWellFoundedOn(StrictSubsetOrdering(S), SUBSET S)
  BY <1>2, FS_StrictSubsetOrderingWellFounded, FS_FiniteSubsetsOfFinite
<1>4. PICK F : F = {a .. x : x \in T}
  OBVIOUS
<1>5. F \subseteq SUBSET S /\ F # {}
  <2>1. ASSUME NEW x \in T PROVE a .. x \subseteq S
    <3>1. x \in Int /\ x <= b
      OBVIOUS
    <3> QED BY <1>1, <3>1
  <2> QED BY <1>4, <2>1
<1>6. PICK s \in F : \A r \in F : ~ (<<r, s>> \in StrictSubsetOrdering(S))
  BY <1>3, <1>5, WFMin
<1>7. PICK x \in T : s = a .. x
  BY <1>4, <1>6
<1>8. ASSUME NEW y \in T PROVE x <= y
  <2>1. PICK r : r = a .. y
    OBVIOUS
  <2>2. r \in F /\ ~(<<r, s>> \in StrictSubsetOrdering(S))
    BY <1>4, <1>6, <2>1
  <2>3. ~(r \subseteq s /\ r # s)
    BY <1>5, <2>2 DEF StrictSubsetOrdering
  <2>4. x \in Int /\ y \in Int /\ a <= x /\ a <= y
    OBVIOUS
  <2>5. ASSUME y < x PROVE FALSE
    <3>1. r \subseteq s
      BY <1>7, <2>1, <2>4, <2>5
    <3>2. x \in s /\ x \notin r
      BY <1>7, <2>1, <2>4, <2>5
    <3> QED BY <2>3, <3>1, <3>2
  <2> QED BY <2>4, <2>5
<1> QED BY <1>8

\* There is a function that goes on from d with G, and all of them stay in P.
Steps(f, a, b, d, G) == f = [k \in a .. b |-> IF k = a THEN d ELSE G[k][f[k - 1]]]

\* What starts in P and never leaves it is in P throughout.
LEMMA StepsStay ==
  ASSUME NEW a \in Int, NEW b \in Int, NEW P, NEW d \in P, NEW G,
         \A k \in (a + 1) .. b : \A x \in P : G[k][x] \in P,
         NEW f, Steps(f, a, b, d, G)
  PROVE  \A k \in a .. b : f[k] \in P
<1>1. PICK T : T = {k \in a .. b : f[k] \notin P}
  OBVIOUS
<1>2. SUFFICES ASSUME T # {} PROVE FALSE
  BY <1>1
<1>3. T \subseteq a .. b
  BY <1>1
<1>4. PICK k \in T : \A y \in T : k <= y
  BY <1>2, <1>3, LeastIn
<1>5. k \in a .. b /\ f[k] = IF k = a THEN d ELSE G[k][f[k - 1]]
  BY <1>3 DEF Steps
<1>6. k # a
  BY <1>1, <1>5
<1>7. k - 1 \in a .. b /\ k \in (a + 1) .. b
  BY <1>5, <1>6
<1>8. ~(k <= k - 1)
  BY <1>5
<1>9. k - 1 \notin T
  BY <1>4, <1>8
<1>10. f[k - 1] \in P
  BY <1>1, <1>7, <1>9
<1>11. G[k][f[k - 1]] \in P
  BY <1>7, <1>10
<1> QED BY <1>1, <1>5, <1>6, <1>11

\* The recursive function of Steps exists.
LEMMA StepsExist ==
  ASSUME NEW a \in Int, NEW b \in Int, NEW d, NEW G
  PROVE  \E f : Steps(f, a, b, d, G)
<1>1. PICK T : T = {j \in a .. b : ~\E f : Steps(f, a, j, d, G)}
  OBVIOUS
<1>2. CASE b < a
  <2>1. PICK f : f = [k \in {} |-> d]
    OBVIOUS
  <2>2. a .. b = {}
    BY <1>2
  <2>3. Steps(f, a, b, d, G)
    BY <2>1, <2>2 DEF Steps
  <2> QED BY <2>3
<1>3. CASE b \in a .. b
  <2>1. SUFFICES ASSUME T # {} PROVE FALSE
    BY <1>1, <1>3
  <2>2. T \subseteq a .. b
    BY <1>1
  <2>3. PICK j \in T : \A y \in T : j <= y
    BY <2>1, <2>2, LeastIn
  <2>4. j \in Int /\ a <= j /\ j <= b
    BY <2>2
  <2>5. CASE j = a
    <3>1. PICK f : f = [k \in a .. a |-> d]
      OBVIOUS
    <3>2. f = [k \in a .. a |-> IF k = a THEN d ELSE G[k][f[k - 1]]]
      BY <3>1
    <3> QED BY <1>1, <2>5, <3>2 DEF Steps
  <2>6. CASE j # a
    <3>1. j - 1 \in a .. b /\ ~(j <= j - 1)
      BY <2>4, <2>6
    <3>2. j - 1 \notin T
      BY <2>3, <3>1
    <3>3. PICK f : Steps(f, a, j - 1, d, G)
      BY <1>1, <3>1, <3>2
    <3>4. PICK g : g = [k \in a .. j |-> IF k = j THEN G[j][f[j - 1]] ELSE f[k]]
      OBVIOUS
    <3>5. ASSUME NEW k \in a .. j PROVE g[k] = IF k = a THEN d ELSE G[k][g[k - 1]]
      <4>1. CASE k = j
        <5>1. j - 1 \in a .. j /\ j - 1 # j
          BY <2>4, <2>6
        <5> QED BY <2>6, <3>4, <4>1, <5>1
      <4>2. CASE k # j
        <5>1. k \in a .. (j - 1)
          BY <2>4, <4>2
        <5>2. f[k] = IF k = a THEN d ELSE G[k][f[k - 1]]
          BY <3>3, <5>1 DEF Steps
        <5>3. k # a => k - 1 \in a .. j /\ k - 1 # j
          BY <2>4, <5>1
        <5> QED BY <3>4, <4>2, <5>2, <5>3
      <4> QED BY <4>1, <4>2
    <3>6. g = [k \in a .. j |-> g[k]]
      BY <3>4
    <3>7. Steps(g, a, j, d, G)
      BY <3>5, <3>6 DEF Steps
    <3> QED BY <1>1, <2>3, <3>7
  <2> QED BY <2>5, <2>6
<1> QED BY <1>2, <1>3

\* What is in a flattened sequence is in a part of it.
LEMMA FlattenFacts ==
  ASSUME NEW D, NEW ss \in Seq(Seq(D))
  PROVE  FlattenSeq(ss) \in Seq(D)
<1>1. CASE Len(ss) = 0
  BY <1>1 DEF FlattenSeq
<1>2. CASE Len(ss) # 0
  <2>1. PICK n : n = Len(ss)
    OBVIOUS
  <2>2. 1 \in Int /\ n \in Int /\ 1 <= n /\ DOMAIN ss = 1 .. n /\ \A k \in 1 .. n : ss[k] \in Seq(D)
    BY <1>2, <2>1
  <2>3. PICK P : P = Seq(D)
    OBVIOUS
  <2>4. PICK G : G = [k \in 2 .. n |-> [x \in P |-> x \o ss[k]]]
    OBVIOUS
  <2>5. ASSUME NEW k \in 2 .. n, NEW x \in P PROVE G[k][x] = x \o ss[k] /\ G[k][x] \in P
    <3>1. k \in 1 .. n
      BY <2>2
    <3>2. x \in Seq(D) /\ ss[k] \in Seq(D)
      BY <2>2, <2>3, <3>1
    <3>3. x \o ss[k] \in Seq(D)
      BY <3>2
    <3>4. G[k][x] = x \o ss[k]
      BY <2>4
    <3> QED BY <2>3, <3>3, <3>4
  <2>6. PICK d : d = ss[1]
    OBVIOUS
  <2>7. d \in P
    BY <2>2, <2>3, <2>6
  <2> DEFINE Flat(f) == f = [i \in 1 .. Len(ss) |-> IF i = 1 THEN ss[i] ELSE f[i - 1] \o ss[i]]
  <2>8. PICK f : Steps(f, 1, n, d, G)
    BY <2>2, StepsExist
  <2>9. \A k \in 1 .. n : f[k] \in P
    <3>1. ASSUME NEW k \in (1 + 1) .. n, NEW x \in P PROVE G[k][x] \in P
      <4>1. k \in 2 .. n
        BY <2>2
      <4> QED BY <2>5, <4>1
    <3> QED BY <2>2, <2>7, <2>8, <3>1, StepsStay
  <2>10. ASSUME NEW k \in 1 .. n PROVE f[k] = IF k = 1 THEN ss[k] ELSE f[k - 1] \o ss[k]
    <3>1. f[k] = IF k = 1 THEN d ELSE G[k][f[k - 1]]
      BY <2>8 DEF Steps
    <3>2. k # 1 => k - 1 \in 1 .. n /\ k \in 2 .. n
      BY <2>2
    <3>3. CASE k = 1
      BY <2>6, <3>1, <3>3
    <3>4. CASE k # 1
      <4>1. f[k - 1] \in P
        BY <2>9, <3>2, <3>4
      <4> QED BY <2>5, <3>1, <3>2, <3>4, <4>1
    <3> QED BY <3>3, <3>4
  <2>11. Flat(f)
    <3>1. f = [k \in 1 .. n |-> f[k]]
      BY <2>8 DEF Steps
    <3> QED BY <2>1, <2>10, <3>1
  <2>12. PICK g : g = CHOOSE h : Flat(h)
    OBVIOUS
  <2>13. Flat(g)
    BY <2>11, <2>12
  <2>14. FlattenSeq(ss) = g[n]
    BY <1>2, <2>1, <2>12 DEF FlattenSeq
  <2>15. \A k \in 1 .. n : g[k] \in P
    <3>1. g = [k \in 1 .. n |-> IF k = 1 THEN ss[k] ELSE g[k - 1] \o ss[k]]
      BY <2>1, <2>13
    <3>2. PICK T : T = {k \in 1 .. n : g[k] \notin P}
      OBVIOUS
    <3>3. SUFFICES ASSUME T # {} PROVE FALSE
      BY <3>2
    <3>4. T \subseteq 1 .. n
      BY <3>2
    <3>5. PICK k \in T : \A y \in T : k <= y
      BY <2>2, <3>3, <3>4, LeastIn
    <3>6. k \in 1 .. n /\ ~(k <= k - 1) /\ g[k] \notin P
      BY <2>2, <3>2, <3>4
    <3>7. g[k] = IF k = 1 THEN ss[k] ELSE g[k - 1] \o ss[k]
      BY <3>1, <3>6
    <3>8. k # 1
      BY <2>2, <2>3, <3>6, <3>7
    <3>9. k - 1 \in 1 .. n /\ k - 1 \notin T
      BY <2>2, <3>5, <3>6, <3>8
    <3>10. g[k - 1] \in P
      BY <3>2, <3>9
    <3>11. g[k] \in P
      BY <2>2, <2>3, <3>6, <3>7, <3>8, <3>10
    <3> QED BY <3>6, <3>11
  <2>16. g[n] \in P
    BY <2>2, <2>15
  <2> QED BY <2>3, <2>14, <2>16
<1> QED BY <1>1, <1>2

-----------------------------------------------------------------------------
(* What a scan finds, for a version of each source.                        *)

\* The version of each source.
Vers == [Source -> Version]
\* The first versions.
Zero == [s \in Source |-> 0]
\* No source is newer in v than in w.
AtMost(v, w) == \A s \in Source : v[s] <= w[s]
\* The versions that are there now.
Cur == [s \in Source |-> content[s].version]

\* What a scan of n finds, for the versions v.
IncludedAt(n, v) == IF n \in Source THEN Includes[n][v[n]] ELSE <<>>
Parts(t, v) == [i \in DOMAIN Sources[t] |-> IncludedAt(Sources[t][i], v)]
\* All that a scan of t lists.
Listed(t, v) == Sources[t] \o FlattenSeq(Parts(t, v))

\* A source that includes nothing in any version.
Plain(s) == \A w \in Version : Includes[s][w] = <<>>

\* A version of a source is a number.
LEMMA VersFacts ==
  ASSUME NEW v \in Vers, NEW s \in Source
  PROVE  v[s] \in Version /\ v[s] \in Nat /\ 0 <= v[s]
BY SConsignAssumption DEF Vers, Version

\* The sources of a target are files.
LEMMA SourcesFacts ==
  ASSUME NEW t \in Target
  PROVE  /\ Sources[t] \in Seq(Node)
         /\ \A i \in DOMAIN Sources[t] : Sources[t][i] \in Node
BY SConsignAssumption

\* A file is either a source or a target.
LEMMA NodeFacts ==
  /\ \A n \in Node : n \in Source \/ n \in Target
  /\ \A n \in Source : n \in Node /\ n \notin Target
  /\ \A n \in Target : n \in Node /\ n \notin Source
  /\ Top \in Target
BY SConsignAssumption DEF Node

\* What is included includes nothing itself.
LEMMA IncludesFacts ==
  ASSUME NEW s \in Source, NEW w \in Version
  PROVE  /\ Includes[s][w] \in Seq({i \in Source : Plain(i)})
         /\ Includes[s][w] \in Seq(Source)
<1>1. Includes[s][w] \in Seq(Source)
  BY SConsignAssumption
<1>2. \A j \in DOMAIN Includes[s][w] : Includes[s][w][j] \in Source /\ Plain(Includes[s][w][j])
  <2> SUFFICES ASSUME NEW j \in DOMAIN Includes[s][w]
               PROVE  Includes[s][w][j] \in Source /\ Plain(Includes[s][w][j])
    OBVIOUS
  <2>1. Includes[s][w][j] \in Source
    BY <1>1
  <2>2. Includes[s][w][j] \in Range(Includes[s][w])
    BY DEF Range
  <2>3. \A x \in Version : Includes[Includes[s][w][j]][x] = <<>>
    BY <2>1, <2>2, SConsignAssumption
  <2> QED BY <2>1, <2>3 DEF Plain
<1>3. PICK P : P = {i \in Source : Plain(i)}
  OBVIOUS
<1>4. \A j \in DOMAIN Includes[s][w] : Includes[s][w][j] \in P
  BY <1>2, <1>3
<1>5. Includes[s][w] \in Seq(P)
  BY <1>1, <1>4
<1> QED BY <1>1, <1>3, <1>5

\* A scan lists the sources of a target, then plain files that they include.
LEMMA ListedFacts ==
  ASSUME NEW t \in Target, NEW v \in Vers
  PROVE  /\ Listed(t, v) \in Seq(Node)
         /\ \A i \in DOMAIN Sources[t] :
              i \in DOMAIN Listed(t, v) /\ Listed(t, v)[i] = Sources[t][i]
         /\ \A i \in DOMAIN Listed(t, v) :
              \/ Listed(t, v)[i] \in Range(Sources[t])
              \/ Listed(t, v)[i] \in Source /\ Plain(Listed(t, v)[i])
         /\ Sources[t] = <<>> => Listed(t, v) = <<>>
<1>1. PICK P : P = {i \in Source : Plain(i)}
  OBVIOUS
<1>2. PICK ss : ss = Parts(t, v)
  OBVIOUS
<1>3. ss \in Seq(Seq(P))
  <2>1. DOMAIN ss = DOMAIN Sources[t]
    BY <1>2 DEF Parts
  <2>2. PICK n \in Nat : DOMAIN Sources[t] = 1 .. n
    BY SourcesFacts
  <2>3. ASSUME NEW i \in 1 .. n PROVE ss[i] \in Seq(P)
    <3>1. ss[i] = IncludedAt(Sources[t][i], v)
      BY <1>2, <2>2, <2>3 DEF Parts
    <3>2. <<>> \in Seq(P)
      OBVIOUS
    <3>3. CASE Sources[t][i] \in Source
      <4>1. PICK s \in Source : s = Sources[t][i]
        BY <3>3
      <4>2. v[s] \in Version
        BY VersFacts
      <4>3. Includes[s][v[s]] \in Seq(P)
        BY <1>1, <4>2, IncludesFacts
      <4> QED BY <3>1, <4>1, <4>3 DEF IncludedAt
    <3> QED BY <3>1, <3>2, <3>3 DEF IncludedAt
  <2>4. ss = [i \in 1 .. n |-> ss[i]]
    BY <1>2, <2>1, <2>2 DEF Parts
  <2> QED BY <2>3, <2>4
<1>4. PICK F : F = FlattenSeq(ss)
  OBVIOUS
<1>5. F \in Seq(P)
  BY <1>3, <1>4, FlattenFacts
<1>6. PICK L : L = Listed(t, v)
  OBVIOUS
<1>7. L = Sources[t] \o F
  BY <1>2, <1>4, <1>6 DEF Listed
<1>8. P \subseteq Node
  BY <1>1, NodeFacts
<1>9. F \in Seq(Node)
  BY <1>5, <1>8
<1>10. PICK z : z = Sources[t]
  OBVIOUS
<1>11. z \in Seq(Node)
  BY <1>10, SourcesFacts
<1>12. L \in Seq(Node) /\ L = z \o F
  BY <1>7, <1>9, <1>10, <1>11
<1>13. \A i \in DOMAIN z : i \in DOMAIN L /\ L[i] = z[i]
  BY <1>9, <1>11, <1>12
<1>14. ASSUME NEW i \in DOMAIN L PROVE L[i] \in Range(z) \/ L[i] \in P
  <2>1. i \in 1 .. Len(z) + Len(F)
    BY <1>9, <1>11, <1>12
  <2>2. CASE i <= Len(z)
    <3>1. i \in DOMAIN z /\ L[i] = z[i]
      BY <1>9, <1>11, <1>12, <2>1, <2>2
    <3> QED BY <3>1 DEF Range
  <2>3. CASE ~(i <= Len(z))
    <3>1. L[i] = F[i - Len(z)] /\ i - Len(z) \in 1 .. Len(F)
      BY <1>9, <1>11, <1>12, <2>1, <2>3
    <3> QED BY <1>5, <3>1
  <2> QED BY <2>2, <2>3
<1>15. z = <<>> => L = <<>>
  <2> SUFFICES ASSUME z = <<>> PROVE L = <<>>
    OBVIOUS
  <2>1. ss = <<>>
    BY <1>2, <1>10 DEF Parts
  <2>2. F = <<>>
    BY <1>4, <2>1 DEF FlattenSeq
  <2> QED BY <1>12, <2>2
<1> QED BY <1>1, <1>6, <1>10, <1>12, <1>13, <1>14, <1>15

\* Only the sources that include something matter for it.
LEMMA ListedSame ==
  ASSUME NEW t \in Target, NEW v \in Vers, NEW w \in Vers,
         \A s \in Source : s \in Range(Sources[t]) /\ ~Plain(s) => v[s] = w[s]
  PROVE  Listed(t, v) = Listed(t, w)
<1>1. ASSUME NEW i \in DOMAIN Sources[t]
      PROVE  IncludedAt(Sources[t][i], v) = IncludedAt(Sources[t][i], w)
  <2>1. PICK s : s = Sources[t][i]
    OBVIOUS
  <2>2. CASE s \in Source
    <3>1. s \in Range(Sources[t])
      BY <2>1 DEF Range
    <3>2. v[s] \in Version /\ w[s] \in Version
      BY <2>2, VersFacts
    <3>3. CASE Plain(s)
      <4>1. Includes[s][v[s]] = <<>> /\ Includes[s][w[s]] = <<>>
        BY <3>2, <3>3 DEF Plain
      <4> QED BY <2>1, <4>1 DEF IncludedAt
    <3>4. CASE ~Plain(s)
      <4>1. v[s] = w[s]
        BY <2>2, <3>1, <3>4
      <4> QED BY <2>1, <4>1 DEF IncludedAt
    <3> QED BY <3>3, <3>4
  <2> QED BY <2>1, <2>2 DEF IncludedAt
<1>2. Parts(t, v) = Parts(t, w)
  BY <1>1 DEF Parts
<1> QED BY <1>2 DEF Listed

\* What a scan finds now is what it finds for the versions that are there now.
LEMMA ChildrenListed ==
  ASSUME NEW t \in Target PROVE Children(t) = Listed(t, Cur)
<1>1. ASSUME NEW i \in DOMAIN Sources[t]
      PROVE  IncludedAt(Sources[t][i], Cur) = Included(Sources[t][i])
  BY DEF IncludedAt, Included, Cur
<1>2. [i \in DOMAIN Sources[t] |-> Included(Sources[t][i])] = Parts(t, Cur)
  BY <1>1 DEF Parts
<1> QED BY <1>2 DEF Listed, Children

-----------------------------------------------------------------------------
(* Contents and the versions of the sources that they come from.           *)

\* What n may hold, if it is made of the versions v.
OfNode(c, n, v) ==
  \/ n \in Source /\ c = Original(n, v[n])
  \/ n \in Target /\ \E Y : c = Product(n, Y)
Shaped(X, L, v) == X = [i \in DOMAIN L |-> X[i]] /\ \A i \in DOMAIN L : OfNode(X[i], L[i], v)
Fits(t, X) == \E v \in Vers : Shaped(X, Listed(t, v), v)

\* A set of contents with all that they are made of, from sources of the
\* versions between lo and hi.
Between(c, lo, hi) ==
  \E s \in Source, x \in Version : c = Original(s, x) /\ lo[s] <= x /\ x <= hi[s]
Made(c, S) ==
  \E t \in Target : \E X : c = Product(t, X) /\ Fits(t, X) /\ \A i \in DOMAIN X : X[i] \in S
Coherent(S, lo, hi) == \A c \in S : Between(c, lo, hi) \/ Made(c, S)
From(c, lo, hi) == \E S : c \in S /\ Coherent(S, lo, hi)

\* A content that a target may have had, and one that it may have now, if no
\* source is newer than v.
Known(c, v) == From(c, Zero, v)
Fresh(c, v) == From(c, v, v)

\* An original is from between two versions if its own is.
LEMMA FromOriginal ==
  ASSUME NEW s \in Source, NEW x \in Version, NEW lo \in Vers, NEW hi \in Vers
  PROVE  From(Original(s, x), lo, hi) <=> lo[s] <= x /\ x <= hi[s]
<1>1. ASSUME lo[s] <= x, x <= hi[s] PROVE From(Original(s, x), lo, hi)
  <2>1. PICK S : S = {Original(s, x)}
    OBVIOUS
  <2>2. Coherent(S, lo, hi)
    BY <1>1, <2>1 DEF Coherent, Between
  <2> QED BY <2>1, <2>2 DEF From
<1>2. ASSUME From(Original(s, x), lo, hi) PROVE lo[s] <= x /\ x <= hi[s]
  <2>1. PICK S : Original(s, x) \in S /\ Coherent(S, lo, hi)
    BY <1>2 DEF From
  <2>2. ~Made(Original(s, x), S)
    BY ProductOnly DEF Made
  <2>3. PICK u \in Source, y \in Version : Original(s, x) = Original(u, y) /\ lo[u] <= y /\ y <= hi[u]
    BY <2>1, <2>2 DEF Coherent, Between
  <2>4. u = s /\ y = x
    BY <2>3, OriginalIs
  <2> QED BY <2>3, <2>4
<1> QED BY <1>1, <1>2

\* What is made of contents from between two versions is from between them.
LEMMA FromProduct ==
  ASSUME NEW t \in Target, NEW X, NEW lo, NEW hi, Fits(t, X),
         \A i \in DOMAIN X : From(X[i], lo, hi)
  PROVE  From(Product(t, X), lo, hi)
<1>1. PICK f : f = [i \in DOMAIN X |-> CHOOSE S : X[i] \in S /\ Coherent(S, lo, hi)]
  OBVIOUS
<1>2. ASSUME NEW i \in DOMAIN X PROVE X[i] \in f[i] /\ Coherent(f[i], lo, hi)
  <2>1. \E S : X[i] \in S /\ Coherent(S, lo, hi)
    BY DEF From
  <2>2. f[i] = CHOOSE S : X[i] \in S /\ Coherent(S, lo, hi)
    BY <1>1
  <2> QED BY <2>1, <2>2
<1>3. PICK U : U = UNION {f[i] : i \in DOMAIN X}
  OBVIOUS
<1>4. PICK p : p = Product(t, X)
  OBVIOUS
<1>5. PICK V : V = U \cup {p}
  OBVIOUS
<1>6. \A i \in DOMAIN X : X[i] \in V
  BY <1>2, <1>3, <1>5
<1>7. Made(p, V)
  BY <1>4, <1>6 DEF Made
<1>8. ASSUME NEW c \in U PROVE Between(c, lo, hi) \/ Made(c, V)
  <2>1. PICK i \in DOMAIN X : c \in f[i]
    BY <1>3
  <2>2. Between(c, lo, hi) \/ Made(c, f[i])
    BY <1>2, <2>1 DEF Coherent
  <2>3. f[i] \subseteq V
    BY <1>3, <1>5
  <2> QED BY <2>2, <2>3 DEF Made
<1>9. Coherent(V, lo, hi)
  BY <1>5, <1>7, <1>8 DEF Coherent
<1>10. p \in V
  BY <1>5
<1> QED BY <1>4, <1>9, <1>10 DEF From

\* The other way round: its parts are from between them too.
LEMMA FromParts ==
  ASSUME NEW t, NEW X, NEW lo, NEW hi, From(Product(t, X), lo, hi)
  PROVE  Fits(t, X) /\ \A i \in DOMAIN X : From(X[i], lo, hi)
<1>1. PICK S : Product(t, X) \in S /\ Coherent(S, lo, hi)
  BY DEF From
<1>2. ~Between(Product(t, X), lo, hi)
  BY ProductOnly DEF Between
<1>3. PICK u, Y : u \in Target /\ Product(t, X) = Product(u, Y) /\ Fits(u, Y) /\ \A i \in DOMAIN Y : Y[i] \in S
  BY <1>1, <1>2 DEF Coherent, Made
<1>4. t = u /\ X = Y
  BY <1>3, ProductIs
<1> QED BY <1>1, <1>3, <1>4 DEF From

\* Later versions of sources do not make a content known that was not.
LEMMA KnownLater ==
  ASSUME NEW v \in Vers, NEW w \in Vers, AtMost(v, w), NEW c, Known(c, v)
  PROVE  Known(c, w)
<1>1. PICK S : c \in S /\ Coherent(S, Zero, v)
  BY DEF Known, From
<1>2. ASSUME NEW d \in S, Between(d, Zero, v) PROVE Between(d, Zero, w)
  <2>1. PICK s \in Source, x \in Version : d = Original(s, x) /\ Zero[s] <= x /\ x <= v[s]
    BY <1>2 DEF Between
  <2>2. v[s] <= w[s] /\ v[s] \in Nat /\ w[s] \in Nat /\ x \in Nat
    BY VersFacts DEF AtMost, Version
  <2>3. x <= w[s]
    BY <2>1, <2>2
  <2> QED BY <2>1, <2>3 DEF Between
<1>3. Coherent(S, Zero, w)
  BY <1>1, <1>2 DEF Coherent
<1> QED BY <1>1, <1>3 DEF Known, From

\* What may be there now may have been there.
LEMMA FreshKnown ==
  ASSUME NEW v \in Vers, NEW c, Fresh(c, v) PROVE Known(c, v)
<1>1. PICK S : c \in S /\ Coherent(S, v, v)
  BY DEF Fresh, From
<1>2. ASSUME NEW d \in S, Between(d, v, v) PROVE Between(d, Zero, v)
  <2>1. PICK s \in Source, x \in Version : d = Original(s, x) /\ v[s] <= x /\ x <= v[s]
    BY <1>2 DEF Between
  <2>2. Zero[s] = 0 /\ 0 <= x
    BY DEF Zero, Version
  <2>3. Zero[s] <= x
    BY <2>2
  <2> QED BY <2>1, <2>3 DEF Between
<1>3. Coherent(S, Zero, v)
  BY <1>1, <1>2 DEF Coherent
<1> QED BY <1>1, <1>3 DEF Known, From

\* What was known, and is not fresh, will not be fresh again.
LEMMA KnownFresh ==
  ASSUME NEW v \in Vers, NEW w \in Vers, AtMost(v, w), NEW c, Known(c, v), Fresh(c, w)
  PROVE  Fresh(c, v)
<1>1. PICK S : c \in S /\ Coherent(S, Zero, v)
  BY DEF Known, From
<1>2. PICK T : c \in T /\ Coherent(T, w, w)
  BY DEF Fresh, From
<1>3. PICK U : U = S \cap T
  OBVIOUS
<1>4. ASSUME NEW d \in U PROVE Between(d, v, v) \/ Made(d, U)
  <2>1. Between(d, Zero, v) \/ Made(d, S)
    BY <1>1, <1>3 DEF Coherent
  <2>2. Between(d, w, w) \/ Made(d, T)
    BY <1>2, <1>3 DEF Coherent
  <2>3. CASE Between(d, Zero, v)
    <3>1. PICK s \in Source, x \in Version : d = Original(s, x) /\ x <= v[s]
      BY <2>3 DEF Between
    <3>2. ~Made(d, T)
      BY <3>1, ProductOnly DEF Made
    <3>21. Between(d, w, w)
      BY <2>2, <3>2
    <3>3. PICK u \in Source, y \in Version : d = Original(u, y) /\ w[u] <= y
      BY <3>21 DEF Between
    <3>31. Original(s, x) = Original(u, y)
      BY <3>1, <3>3
    <3>4. u = s /\ y = x
      BY <3>31, OriginalIs
    <3>5. v[s] <= w[s] /\ v[s] \in Nat /\ w[s] \in Nat /\ x \in Nat
      BY VersFacts DEF AtMost, Version
    <3>6. v[s] <= x /\ x <= v[s]
      BY <3>1, <3>3, <3>4, <3>5
    <3> QED BY <3>1, <3>6 DEF Between
  <2>4. CASE Made(d, S)
    <3>1. PICK t, X : t \in Target /\ d = Product(t, X) /\ Fits(t, X) /\ \A i \in DOMAIN X : X[i] \in S
      BY <2>4 DEF Made
    <3>2. ~Between(d, w, w)
      BY <3>1, ProductOnly DEF Between
    <3>21. Made(d, T)
      BY <2>2, <3>2
    <3>3. PICK u, Y : u \in Target /\ d = Product(u, Y) /\ \A i \in DOMAIN Y : Y[i] \in T
      BY <3>21 DEF Made
    <3>31. Product(t, X) = Product(u, Y)
      BY <3>1, <3>3
    <3>4. X = Y
      BY <3>31, ProductIs
    <3>5. \A i \in DOMAIN X : X[i] \in U
      BY <1>3, <3>1, <3>3, <3>4
    <3> QED BY <3>1, <3>5 DEF Made
  <2> QED BY <2>1, <2>3, <2>4
<1>5. Coherent(U, v, v)
  BY <1>4 DEF Coherent
<1> QED BY <1>1, <1>2, <1>3, <1>5 DEF Fresh, From

\* What was known at first and is fresh at last was fresh all the time.
LEMMA FreshBetween ==
  ASSUME NEW b \in Vers, NEW v \in Vers, NEW w \in Vers, AtMost(b, v), AtMost(v, w),
         NEW c, Known(c, b), Fresh(c, w)
  PROVE  Fresh(c, b) /\ Fresh(c, v)
<1>1. Known(c, v)
  BY KnownLater
<1>2. AtMost(b, w)
  <2> SUFFICES ASSUME NEW s \in Source PROVE b[s] <= w[s]
    BY DEF AtMost
  <2>1. b[s] <= v[s] /\ v[s] <= w[s] /\ b[s] \in Nat /\ v[s] \in Nat /\ w[s] \in Nat
    BY VersFacts DEF AtMost
  <2> QED BY <2>1
<1> QED BY <1>1, <1>2, KnownFresh

\* The parts of a fresh content are of the present versions.
LEMMA FreshShape ==
  ASSUME NEW v \in Vers, NEW t \in Target, NEW X, Fresh(Product(t, X), v)
  PROVE  Shaped(X, Listed(t, v), v) /\ \A i \in DOMAIN X : Fresh(X[i], v)
<1>1. Fits(t, X) /\ \A i \in DOMAIN X : From(X[i], v, v)
  BY FromParts DEF Fresh
<1>2. PICK w \in Vers : Shaped(X, Listed(t, w), w)
  BY <1>1 DEF Fits
<1>3. PICK L : L = Listed(t, w)
  OBVIOUS
<1>4. DOMAIN X = DOMAIN L /\ X = [i \in DOMAIN L |-> X[i]] /\ \A i \in DOMAIN L : OfNode(X[i], L[i], w)
  BY <1>2, <1>3 DEF Shaped
<1>5. ASSUME NEW i \in DOMAIN L, L[i] \in Source PROVE w[L[i]] = v[L[i]]
  <2>1. PICK s : s = L[i]
    OBVIOUS
  <2>2. s \in Source /\ s \notin Target
    BY <1>5, <2>1, NodeFacts
  <2>3. X[i] = Original(s, w[s])
    BY <1>4, <2>1, <2>2 DEF OfNode
  <2>4. w[s] \in Version /\ w[s] \in Nat /\ v[s] \in Nat
    BY <2>2, VersFacts
  <2>5. From(Original(s, w[s]), v, v)
    BY <1>1, <1>4, <2>3
  <2>6. v[s] <= w[s] /\ w[s] <= v[s]
    BY <2>2, <2>4, <2>5, FromOriginal
  <2> QED BY <2>1, <2>4, <2>6
<1>6. ASSUME NEW s \in Source, s \in Range(Sources[t]) PROVE w[s] = v[s]
  <2>1. PICK i \in DOMAIN Sources[t] : s = Sources[t][i]
    BY <1>6 DEF Range
  <2>2. i \in DOMAIN L /\ L[i] = s
    BY <1>3, <2>1, ListedFacts
  <2> QED BY <1>5, <2>2
<1>7. L = Listed(t, v)
  BY <1>3, <1>6, ListedSame
<1>8. ASSUME NEW i \in DOMAIN L PROVE OfNode(X[i], L[i], v)
  <2>1. OfNode(X[i], L[i], w)
    BY <1>4
  <2>2. L[i] \in Source => w[L[i]] = v[L[i]]
    BY <1>5
  <2> QED BY <2>1, <2>2 DEF OfNode
<1>9. Shaped(X, L, v)
  BY <1>4, <1>8 DEF Shaped
<1> QED BY <1>1, <1>7, <1>9 DEF Fresh

\* The other way round.
LEMMA FreshProduct ==
  ASSUME NEW v \in Vers, NEW t \in Target, NEW X, Shaped(X, Listed(t, v), v),
         \A i \in DOMAIN X : Fresh(X[i], v)
  PROVE  Fresh(Product(t, X), v)
<1>1. Fits(t, X)
  BY DEF Fits
<1> QED BY <1>1, FromProduct DEF Fresh

-----------------------------------------------------------------------------
(* Types.                                                                  *)

\* All that the steps need to know of the types.
Typed ==
  /\ TypeOK
  /\ content = [n \in Node |-> content[n]]
  /\ mtime \in [Node -> Nat] /\ drifted \in [Node -> Nat]
  /\ \A n \in Node : 1 <= mtime[n]
  /\ db = [n \in Node |-> db[n]] /\ tmp = [n \in Node |-> tmp[n]]
  /\ children = [t \in Target |-> children[t]]
  /\ ninfo = [n \in Node |-> ninfo[n]]
  /\ \A n \in Node :
       /\ ninfo[n] = [csig |-> ninfo[n].csig, stamp |-> ninfo[n].stamp]
       /\ ninfo[n].stamp \in Nat

\* Before the first build all have their types.
LEMMA InitTyped == Init => Typed
<1> SUFFICES ASSUME Init PROVE Typed
  OBVIOUS
<1>1. \A s \in Source : content[s] \in {Original(s, v) : v \in Version}
  <2>1. 0 \in Version
    BY SConsignAssumption DEF Version
  <2> QED BY <2>1, NodeFacts DEF Init
<1>2. state = NewState /\ \A n \in Node : state[n] = "none"
  BY DEF Init, NewState
<1>21. state \in [Node -> {"none", "running", "done", "failed"}]
  BY <1>2 DEF NewState
<1>22. \A n \in Node : drifted[n] <= mtime[n]
  BY DEF Init
<1>23. world \in Worlds /\ pc = "idle" /\ stopped = FALSE /\ settled = FALSE /\ edited = {}
  BY DEF Init
<1>3. TypeOK
  BY <1>1, <1>2, <1>21, <1>22, <1>23, NodeFacts DEF TypeOK
<1>4. \A n \in Node : ninfo[n] = NoInfo
  BY DEF Init, NewInfo
<1>5. ninfo = [n \in Node |-> ninfo[n]]
  BY DEF Init, NewInfo
<1> QED BY <1>3, <1>4, <1>5 DEF Init, Typed, NewChildren, NoInfo

\* A file that is there has a time stamp that is not 0.
LEMMA StampFacts ==
  ASSUME Typed, NEW n \in Node
  PROVE  Stamp(n) \in Nat /\ 1 <= Stamp(n)
BY DEF Typed, Stamp

\* changed computes the signatures of the dependencies, and nothing else.
LEMMA WithCsigsFacts ==
  ASSUME Typed, NEW t \in Target, NEW i, i = WithCsigs(t)
  PROVE  /\ i = [n \in Node |-> i[n]]
         /\ \A n \in Node :
              /\ i[n] = [csig |-> i[n].csig, stamp |-> i[n].stamp]
              /\ i[n].stamp = ninfo[n].stamp /\ i[n].stamp \in Nat
              /\ n \in Range(children[t]) => i[n].csig = GetCsig(n)
              /\ n \notin Range(children[t]) => i[n].csig = ninfo[n].csig
<1>1. i = [n \in Node |-> i[n]]
  BY DEF WithCsigs
<1>2. ASSUME NEW n \in Node
      PROVE /\ i[n] = [csig |-> i[n].csig, stamp |-> i[n].stamp]
            /\ i[n].stamp = ninfo[n].stamp /\ i[n].stamp \in Nat
            /\ n \in Range(children[t]) => i[n].csig = GetCsig(n)
            /\ n \notin Range(children[t]) => i[n].csig = ninfo[n].csig
  <2>1. ninfo[n] = [csig |-> ninfo[n].csig, stamp |-> ninfo[n].stamp]
    BY DEF Typed
  <2>11. ninfo[n].stamp \in Nat
    BY DEF Typed
  <2>2. PICK g : g = GetCsig(n)
    OBVIOUS
  <2>3. i[n] = IF n \in Range(children[t]) THEN [ninfo[n] EXCEPT !.csig = g] ELSE ninfo[n]
    BY <2>2 DEF WithCsigs
  <2> QED BY <2>1, <2>11, <2>2, <2>3
<1> QED BY <1>1, <1>2

\* The state of the build, which most of the steps below change in one place.
Stated == state \in [Node -> {"none", "running", "done", "failed"}]
Informed ==
  /\ ninfo = [n \in Node |-> ninfo[n]]
  /\ \A n \in Node :
       /\ ninfo[n] = [csig |-> ninfo[n].csig, stamp |-> ninfo[n].stamp]
       /\ ninfo[n].stamp \in Nat

\* What a build begins with has its type.
LEMMA NewTyped ==
  ASSUME NEW st, st = NewState, NEW ch, ch = NewChildren, NEW ni, ni = NewInfo
  PROVE  /\ st \in [Node -> {"none", "running", "done", "failed"}]
         /\ \A n \in Node : st[n] = "none"
         /\ ch = [t \in Target |-> ch[t]]
         /\ \A t \in Target : ch[t] = <<>>
         /\ ni = [n \in Node |-> ni[n]]
         /\ \A n \in Node :
              /\ ni[n] = [csig |-> ni[n].csig, stamp |-> ni[n].stamp]
              /\ ni[n].stamp = 0 /\ ni[n].csig = None
<1>1. \A n \in Node : ni[n] = NoInfo
  BY DEF NewInfo
<1>2. ni = [n \in Node |-> ni[n]]
  BY DEF NewInfo
<1> QED BY <1>1, <1>2 DEF NewState, NewChildren, NoInfo

\* Every step keeps the types.
LEMMA TypedKept ==
  ASSUME Typed, [Next]_vars
  PROVE  Typed'
<1> USE DEF TypeOK
<1>1. ASSUME NEW s \in Source, Edit(s) PROVE Typed'
  <2>1. PICK v \in Version : /\ content' = [content EXCEPT ![s] = Original(s, v)]
                             /\ settled' = (settled /\ v = content[s].version)
                             /\ edited' = IF v # content[s].version /\ pc # "idle"
                                          THEN edited \cup {s} ELSE edited
    BY <1>1 DEF Edit
  <2>2. s \in Node /\ s \notin Target
    BY NodeFacts
  <2>3. \A u \in Source : content'[u] \in {Original(u, x) : x \in Version}
    BY <2>1, <2>2, NodeFacts DEF Typed
  <2>4. \A t \in Target : content'[t] = content[t]
    BY <2>1, <2>2, NodeFacts DEF Typed
  <2>5. mtime' = [mtime EXCEPT ![s] = @ + 1]
    BY <1>1 DEF Edit
  <2>6. mtime' \in [Node -> Nat] /\ \A n \in Node : mtime[n] <= mtime'[n]
    BY <2>2, <2>5 DEF Typed
  <2>7. \A n \in Node : drifted[n] <= mtime'[n] /\ 1 <= mtime'[n]
    BY <2>6 DEF Typed
  <2>8. UNCHANGED <<world, drifted, db, tmp, pc, memory>>
    BY <1>1 DEF Edit
  <2>9. content' = [n \in Node |-> content'[n]]
    BY <2>1 DEF Typed
  <2>10. settled' \in BOOLEAN /\ edited' \subseteq Source
    BY <2>1 DEF Typed
  <2> QED BY <2>3, <2>4, <2>6, <2>7, <2>8, <2>9, <2>10 DEF Typed, memory
<1>2. ASSUME NEW s \in Source, VisitSource(s) PROVE Typed'
  <2>1. s \in Node /\ s \notin Target
    BY NodeFacts
  <2>2. PICK i : i = Visited(s)
    OBVIOUS
  <2>3. i = [csig |-> i.csig, stamp |-> i.stamp] /\ i.stamp \in Nat
    BY <2>1, <2>2, StampFacts DEF Visited
  <2>4. ninfo' = [ninfo EXCEPT ![s] = i] /\ state' = [state EXCEPT ![s] = "done"]
    BY <1>2, <2>2 DEF VisitSource
  <2>5. Informed'
    BY <2>1, <2>3, <2>4 DEF Informed, Typed
  <2>6. Stated' /\ \A t \in Target : state'[t] = state[t]
    BY <2>1, <2>4, NodeFacts DEF Stated, Typed
  <2>7. UNCHANGED <<world, disk, db, tmp, pc, children, stopped, edited, settled>>
    BY <1>2 DEF VisitSource
  <2> QED BY <2>5, <2>6, <2>7 DEF Typed, Informed, Stated, disk
<1>3. ASSUME NEW t \in Target, Delete(t) PROVE Typed'
  <2>1. t \in Node /\ t \notin Source
    BY NodeFacts
  <2>2. content' = [content EXCEPT ![t] = Absent] /\ settled' = FALSE
        /\ UNCHANGED <<world, mtime, drifted, db, tmp, pc, memory, edited>>
    BY <1>3 DEF Delete
  <2>3. content' = [n \in Node |-> content'[n]] /\ \A n \in Node : n # t => content'[n] = content[n]
    BY <2>2 DEF Typed
  <2>4. content'[t] = Absent
    BY <2>1, <2>2 DEF Typed
  <2> QED BY <2>1, <2>2, <2>3, <2>4, NodeFacts DEF Typed, memory
<1>4. ASSUME NEW t \in Target, Scan(t) PROVE Typed'
  <2>1. UNCHANGED <<world, disk, db, tmp, pc, state, stopped, edited, settled>>
    BY <1>4 DEF Scan
  <2>2. children' = [u \in Target |-> children'[u]]
    BY <1>4 DEF Scan, Typed
  <2>3. ASSUME NEW n \in Node
        PROVE  ninfo'[n] = [csig |-> ninfo'[n].csig, stamp |-> ninfo'[n].stamp] /\ ninfo'[n].stamp \in Nat
    <3>1. PICK x : x = Stamp(n)
      OBVIOUS
    <3>2. x \in Nat
      BY <3>1, StampFacts
    <3>3. \/ ninfo'[n] = ninfo[n]
          \/ ninfo'[n] = [ninfo[n] EXCEPT !.stamp = x]
      BY <1>4, <3>1 DEF Scan
    <3> QED BY <3>2, <3>3 DEF Typed
  <2>4. ninfo' = [n \in Node |-> ninfo'[n]]
    BY <1>4 DEF Scan
  <2>5. Informed'
    BY <2>3, <2>4 DEF Informed
  <2> QED BY <2>1, <2>2, <2>5 DEF Typed, Informed, disk
<1>5. ASSUME NEW t \in Target, VisitTarget(t) PROVE Typed'
  <2>1. t \in Node
    BY NodeFacts
  <2>2. PICK i : i = Visited(t)
    OBVIOUS
  <2>3. i = [csig |-> i.csig, stamp |-> i.stamp] /\ i.stamp \in Nat
    BY <2>1, <2>2, StampFacts DEF Visited
  <2>4. PICK w : w = WithCsigs(t)
    OBVIOUS
  <2>5. ninfo' = [w EXCEPT ![t] = i] /\ state' = [state EXCEPT ![t] = "done"]
    BY <1>5, <2>2, <2>4 DEF VisitTarget
  <2>6. w = [n \in Node |-> w[n]] /\ \A n \in Node :
              /\ w[n] = [csig |-> w[n].csig, stamp |-> w[n].stamp]
              /\ w[n].stamp \in Nat
    BY <2>4, WithCsigsFacts
  <2>7. Informed'
    BY <2>1, <2>3, <2>5, <2>6 DEF Informed
  <2>8. Stated' /\ state'[t] = "done" /\ \A n \in Node : n # t => state'[n] = state[n]
    BY <2>1, <2>5 DEF Stated, Typed
  <2>9. UNCHANGED <<world, disk, db, tmp, pc, children, stopped, edited, settled>>
    BY <1>5 DEF VisitTarget
  <2> QED BY <2>7, <2>8, <2>9, NodeFacts DEF Typed, Informed, Stated, disk
<1>6. ASSUME NEW t \in Target, Prepare(t) PROVE Typed'
  <2>1. t \in Node /\ t \notin Source
    BY NodeFacts
  <2>4. PICK w : w = WithCsigs(t)
    OBVIOUS
  <2>5. ninfo' = w /\ state' = [state EXCEPT ![t] = "running"]
        /\ content' = [content EXCEPT ![t] = Absent]
    BY <1>6, <2>4 DEF Prepare, Prepared
  <2>6. w = [n \in Node |-> w[n]] /\ \A n \in Node :
              /\ w[n] = [csig |-> w[n].csig, stamp |-> w[n].stamp]
              /\ w[n].stamp \in Nat
    BY <2>4, WithCsigsFacts
  <2>7. Informed'
    BY <2>5, <2>6 DEF Informed
  <2>8. Stated' /\ \A n \in Node : n # t => state'[n] = state[n]
    BY <2>1, <2>5 DEF Stated, Typed
  <2>9. UNCHANGED <<world, mtime, drifted, db, tmp, pc, children, stopped, edited, settled>>
    BY <1>6 DEF Prepare
  <2>10. content' = [n \in Node |-> content'[n]] /\ \A n \in Node : n # t => content'[n] = content[n]
    BY <2>5 DEF Typed
  <2>11. content'[t] = Absent
    BY <2>1, <2>5 DEF Typed
  <2> QED BY <2>1, <2>7, <2>8, <2>9, <2>10, <2>11, NodeFacts DEF Typed, Informed, Stated
<1>7. ASSUME NEW t \in Target, Built(t) PROVE Typed'
  <2>1. t \in Node /\ t \notin Source
    BY NodeFacts
  <2>2. PICK r : r = Result(t)
    OBVIOUS
  <2>3. content' = [content EXCEPT ![t] = r] /\ mtime' = [mtime EXCEPT ![t] = @ + 1]
    BY <1>7, <2>2 DEF Built
  <2>4. state' = [state EXCEPT ![t] = "done"]
        /\ ninfo' = [ninfo EXCEPT ![t] = [csig |-> r, stamp |-> mtime[t] + 1]]
    BY <1>7, <2>2 DEF Built
  <2>5. Informed'
    BY <2>1, <2>4 DEF Informed, Typed
  <2>6. Stated' /\ state'[t] = "done" /\ \A n \in Node : n # t => state'[n] = state[n]
    BY <2>1, <2>4 DEF Stated, Typed
  <2>7. mtime' \in [Node -> Nat] /\ \A n \in Node : mtime[n] <= mtime'[n]
    BY <2>1, <2>3 DEF Typed
  <2>8. \A n \in Node : drifted[n] <= mtime'[n] /\ 1 <= mtime'[n]
    BY <2>7 DEF Typed
  <2>9. content' = [n \in Node |-> content'[n]] /\ \A n \in Node : n # t => content'[n] = content[n]
    BY <2>3 DEF Typed
  <2>10. UNCHANGED <<world, drifted, db, tmp, pc, children, stopped, edited, settled>>
    BY <1>7 DEF Built
  <2> QED BY <2>1, <2>5, <2>6, <2>7, <2>8, <2>9, <2>10, NodeFacts DEF Typed, Informed, Stated
<1>8. ASSUME NEW t \in Target, Failed(t) PROVE Typed'
  <2>1. t \in Node /\ t \notin Source
    BY NodeFacts
  <2>2. /\ \/ UNCHANGED disk
           \/ /\ content' = [content EXCEPT ![t] = Partial(t)]
              /\ mtime' = [mtime EXCEPT ![t] = @ + 1]
              /\ UNCHANGED drifted
        /\ state' = [state EXCEPT ![t] = "failed"]
        /\ stopped' \in {stopped, TRUE}
        /\ UNCHANGED <<world, db, tmp, pc, children, ninfo, edited, settled>>
    BY <1>8 DEF Failed
  <2>3. mtime' \in [Node -> Nat] /\ drifted' = drifted /\ \A n \in Node : mtime[n] <= mtime'[n]
    BY <2>1, <2>2 DEF Typed, disk
  <2>4. \A n \in Node : drifted[n] <= mtime'[n] /\ 1 <= mtime'[n]
    BY <2>3 DEF Typed
  <2>5. content' = [n \in Node |-> content'[n]] /\ \A n \in Node : n # t => content'[n] = content[n]
    BY <2>2 DEF Typed, disk
  <2>6. Stated' /\ state'[t] = "failed" /\ \A n \in Node : n # t => state'[n] = state[n]
    BY <2>1, <2>2 DEF Stated, Typed
  <2>7. stopped' \in BOOLEAN
    BY <2>2 DEF Typed
  <2>8. \A u \in Target : state'[u] = "running" => content'[u] = Absent
    BY <2>5, <2>6, NodeFacts DEF Typed
  <2>9. \A s \in Source : content'[s] = content[s]
    BY <2>1, <2>5, NodeFacts
  <2>10. UNCHANGED <<world, db, tmp, pc, children, ninfo, edited, settled>>
    BY <2>2
  <2> QED BY <2>3, <2>4, <2>5, <2>6, <2>7, <2>8, <2>9, <2>10 DEF Typed, Stated
<1>9. CASE Wait
  <2>1. drifted' = mtime /\ mtime' = mtime /\ drifted' \in [Node -> Nat]
    BY <1>9 DEF Wait, Typed
  <2>2. \A n \in Node : drifted'[n] <= mtime'[n]
    BY <2>1 DEF Typed
  <2> QED BY <1>9, <2>1, <2>2 DEF Wait, Typed, memory
<1>10. CASE Start
  BY <1>10 DEF Start, Typed, memory, disk
<1>11. CASE Stop
  BY <1>11 DEF Stop, Typed, disk
<1>12. CASE EndBuild
  BY <1>12 DEF EndBuild, Typed, memory, disk
<1>13. CASE Unlink
  <2>1. tmp' = [n \in Node |-> tmp'[n]] /\ db' = [n \in Node |-> db'[n]]
    BY <1>13 DEF Unlink, Entries
  <2> QED BY <1>13, <2>1 DEF Unlink, Typed, memory, disk
<1>14. CASE Rename
  <2>1. tmp' = [n \in Node |-> tmp'[n]] /\ db' = [n \in Node |-> db'[n]]
    BY <1>14 DEF Rename, Typed
  <2>2. state' = NewState /\ children' = NewChildren /\ ninfo' = NewInfo /\ stopped' = FALSE
        /\ pc' = "idle" /\ settled' \in BOOLEAN
    BY <1>14 DEF Rename, End, Typed
  <2>3. UNCHANGED <<world, disk, edited>>
    BY <1>14 DEF Rename
  <2>4. Informed' /\ Stated' /\ \A n \in Node : state'[n] = "none"
    BY <2>2, NewTyped DEF Informed, Stated
  <2>5. children' = [t \in Target |-> children'[t]]
    BY <2>2, NewTyped
  <2> QED BY <2>1, <2>2, <2>3, <2>4, <2>5, NodeFacts DEF Typed, disk, Informed, Stated
<1>15. CASE Crash
  <2>1. PICK written \in SUBSET Target :
          /\ \A n \in Node : n \notin written => content'[n] = content[n]
          /\ content' = [n \in Node |-> content'[n]]
          /\ mtime' = [n \in Node |-> IF n \in written THEN mtime[n] + 1 ELSE mtime[n]]
    <3>1. PICK left \in [{t \in Target : state[t] = "running"} -> {"none", "part", "all"}] :
            LET written == {t \in DOMAIN left : left[t] # "none"} IN
            /\ content' = [n \in Node |->
                 IF n \notin written THEN content[n]
                 ELSE IF left[n] = "part" THEN Partial(n) ELSE Result(n)]
            /\ mtime' = [n \in Node |-> IF n \in written THEN mtime[n] + 1 ELSE mtime[n]]
      BY <1>15 DEF Crash
    <3>2. PICK W : W = {t \in DOMAIN left : left[t] # "none"}
      OBVIOUS
    <3>3. W \subseteq Target
      BY <3>2
    <3>4. content' = [n \in Node |->
                 IF n \notin W THEN content[n]
                 ELSE IF left[n] = "part" THEN Partial(n) ELSE Result(n)]
      BY <3>1, <3>2
    <3>5. mtime' = [n \in Node |-> IF n \in W THEN mtime[n] + 1 ELSE mtime[n]]
      BY <3>1, <3>2
    <3> QED BY <3>3, <3>4, <3>5
  <2>2. state' = NewState /\ children' = NewChildren /\ ninfo' = NewInfo /\ stopped' = FALSE
        /\ pc' = "idle" /\ settled' \in BOOLEAN
    BY <1>15 DEF Crash, End, Typed
  <2>3. UNCHANGED <<world, drifted, db, tmp, edited>>
    BY <1>15 DEF Crash
  <2>4. Informed' /\ Stated' /\ \A n \in Node : state'[n] = "none"
    BY <2>2, NewTyped DEF Informed, Stated
  <2>5. children' = [t \in Target |-> children'[t]]
    BY <2>2, NewTyped
  <2>6. mtime' \in [Node -> Nat] /\ \A n \in Node : mtime[n] <= mtime'[n]
    BY <2>1 DEF Typed
  <2>7. \A n \in Node : drifted[n] <= mtime'[n] /\ 1 <= mtime'[n]
    BY <2>6 DEF Typed
  <2>8. \A u \in Target : state'[u] = "running" => content'[u] = Absent
    BY <2>4, NodeFacts
  <2>9. \A s \in Source : content'[s] = content[s]
    BY <2>1, NodeFacts
  <2>10. content' = [n \in Node |-> content'[n]]
    BY <2>1
  <2> QED BY <2>2, <2>3, <2>4, <2>5, <2>6, <2>7, <2>8, <2>9, <2>10 DEF Typed, Informed, Stated
<1>16. CASE UNCHANGED vars
  BY <1>16 DEF vars, Typed, memory, disk
<1> QED BY <1>1, <1>2, <1>3, <1>4, <1>5, <1>6, <1>7, <1>8, <1>9, <1>10, <1>11, <1>12, <1>13,
           <1>14, <1>15, <1>16 DEF Next

\* A command finds no file in the place of its target, and sources are as
\* people wrote them (Prepared, for File.prepare).
THEOREM TypeCorrect == Spec => []TypeOK
<1>1. Typed => TypeOK
  BY DEF Typed
<1> QED BY <1>1, InitTyped, TypedKept, PTL DEF Spec

-----------------------------------------------------------------------------
(* Builds that may be disturbed at any step, if no file gets back a content *)
(* that it had before, and no signature is taken from the file unread.     *)

\* A record that is neither of the content of t nor of any that t will have,
\* if no source is older than v.
Dead(t, D, v) == \A w \in Vers : AtMost(v, w) => ~Fresh(Product(t, D), w)

\* A record is of the target as it is, or of no use any more.  It was written
\* when no source was newer than b.
Recorded(t, c, D, b, v) ==
  \/ D = <<>>
  \/ /\ \A i \in DOMAIN D : Known(D[i], b)
     /\ c = Product(t, D) \/ Dead(t, D, v)

\* The versions b were those of the sources when the build began.
Based(b) ==
  /\ b \in Vers /\ AtMost(b, Cur)
  /\ pc = "idle" => b = Cur
  /\ pc # "idle" => \A s \in Source : s \notin edited => b[s] = Cur[s]

\* Between builds nothing is left of them in memory.
Rested ==
  /\ pc = "idle" => /\ \A n \in Node : state[n] = "none" /\ ninfo[n].csig = None
                    /\ \A t \in Target : children[t] = <<>>
  /\ pc # "build" => \A t \in Target : state[t] # "running"

\* No signature is taken from the file unread.
Unread == \A n \in Node : drifted[n] = 0

\* A target is missing, a part of itself, or made of what there was.
Contents ==
  \A t \in Target :
    \/ content[t] = Absent \/ content[t] = Partial(t)
    \/ \E X : content[t] = Product(t, X) /\ Known(Product(t, X), Cur)

\* The records of the last build, and those that take their place.
Records(b) ==
  /\ \A t \in Target :
       /\ state[t] = "none" => Recorded(t, content[t], db[t].deps, b, b)
       /\ state[t] # "none" => Recorded(t, content[t], db[t].deps, b, Cur)
  /\ pc = "unlinked" =>
       \A t \in Target : Recorded(t, content[t], tmp[t].deps, Cur, Cur)

\* What the build knows of the sources it read, and of targets.
Read(b) ==
  \A n \in Node : ninfo[n].csig # None =>
    /\ state[n] = "done"
    /\ n \in Target => ninfo[n].csig = content[n]
    /\ n \in Source =>
         /\ \E x \in Version : ninfo[n].csig = Original(n, x) /\ b[n] <= x /\ x <= Cur[n]
         /\ \E t \in Target : n \in Range(children[t])

\* What a scan found, and what of it was read before the scan.
ScannedAt(t, b, v) ==
  /\ v \in Vers /\ AtMost(b, v) /\ AtMost(v, Cur)
  /\ children[t] = Listed(t, v)
  /\ \A s \in Source : s \in Range(Sources[t]) /\ ~Plain(s) /\ ninfo[s].csig # None =>
       \E x \in Version : ninfo[s].csig = Original(s, x) /\ v[s] <= x
Scanned(b) == \A t \in Target : children[t] # <<>> => \E v : ScannedAt(t, b, v)

\* All that a scan found is done.
ChildrenDone(t) ==
  children[t] # <<>> /\ \A i \in DOMAIN children[t] : state[children[t][i]] = "done"
\* It is also known by its signature.
Ready(t) ==
  children[t] # <<>> /\ \A i \in DOMAIN children[t] :
    state[children[t][i]] = "done" /\ ninfo[children[t][i]].csig # None
\* A command runs only when all it depends on is done and known.
Begun == \A t \in Target : state[t] \in {"running", "done"} => Ready(t)

\* Of a target that is done: it has the one content that it could have before
\* the build and can have now, if there is such a one; nothing in it was out of
\* date before the build.
Newest(t, b) ==
  \A X : Fresh(Product(t, X), b) /\ Fresh(Product(t, X), Cur) => content[t] = Product(t, X)
\* A target that could have been there before the build is not out of date.
NotOlder(t, b) == Known(content[t], b) => Fresh(content[t], b)
\* The signatures that get_binfo collects for the record.
Sigs(t) == [i \in DOMAIN children[t] |-> ninfo[children[t][i]].csig]
\* The record that will be written is of this target, or of no use any more.
Remembered(t) == content[t] = Product(t, Sigs(t)) \/ Dead(t, Sigs(t), Cur)
\* A target is what its command makes, or what it depends on was edited.
Current(t) == content[t] = Result(t) \/ edited \cap Range(Children(t)) # {}
IsProduct(t) == \E X : content[t] = Product(t, X)

\* All that is said of targets that are done.
Finished(b) ==
  \A t \in Target : state[t] = "done" =>
    IsProduct(t) /\ Newest(t, b) /\ NotOlder(t, b) /\ Remembered(t) /\ Current(t)

\* The invariant, for the versions at the beginning of the build.
Rough(b) ==
  /\ Based(b) /\ Rested /\ Unread /\ Contents /\ Records(b)
  /\ Read(b) /\ Scanned(b) /\ Begun /\ Finished(b)

-----------------------------------------------------------------------------
(* What follows for a step.                                                *)

LEMMA CurFacts ==
  ASSUME Typed
  PROVE  Cur \in Vers /\ \A s \in Source : content[s] = Original(s, Cur[s])
<1>1. ASSUME NEW s \in Source PROVE Cur[s] \in Version /\ content[s] = Original(s, Cur[s])
  <2>1. PICK v \in Version : content[s] = Original(s, v)
    BY DEF Typed, TypeOK
  <2>2. content[s].version = v
    BY <2>1, VersionOf
  <2>3. Cur[s] = v
    BY <2>2 DEF Cur
  <2> QED BY <2>1, <2>3
<1>2. Cur = [s \in Source |-> Cur[s]]
  BY DEF Cur
<1> QED BY <1>1, <1>2 DEF Vers

\* The order of the versions.
LEMMA AtMostFacts ==
  /\ \A v \in Vers : AtMost(v, v)
  /\ \A u, v, w \in Vers : AtMost(u, v) /\ AtMost(v, w) => AtMost(u, w)
<1>1. ASSUME NEW v \in Vers PROVE AtMost(v, v)
  BY VersFacts DEF AtMost
<1>2. ASSUME NEW u \in Vers, NEW v \in Vers, NEW w \in Vers, AtMost(u, v), AtMost(v, w)
      PROVE AtMost(u, w)
  <2> SUFFICES ASSUME NEW s \in Source PROVE u[s] <= w[s]
    BY DEF AtMost
  <2>1. u[s] <= v[s] /\ v[s] <= w[s] /\ u[s] \in Nat /\ v[s] \in Nat /\ w[s] \in Nat
    BY <1>2, VersFacts DEF AtMost
  <2> QED BY <2>1
<1> QED BY <1>1, <1>2

\* Without max-drift, get_csig reads a file once and remembers it.
LEMMA GetCsigFacts ==
  ASSUME Typed, NEW n \in Node, drifted[n] = 0
  PROVE  /\ MaxDriftCsig(n) = None
         /\ ninfo[n].csig # None => GetCsig(n) = ninfo[n].csig
         /\ ninfo[n].csig = None => GetCsig(n) = content[n]
<1>1. Stamp(n) \in Nat /\ 1 <= Stamp(n)
  BY StampFacts
<1>2. ~(Stamp(n) <= drifted[n])
  BY <1>1
<1>3. MaxDriftCsig(n) = None
  BY <1>2 DEF MaxDriftCsig
<1> QED BY <1>3 DEF GetCsig

\* The signature of a source that is used in a build is of a version that it
\* had while the build ran.
LEMMA SigFacts ==
  ASSUME Typed, NEW b, Rough(b), NEW n \in Node, state[n] = "done"
  PROVE  /\ n \in Source => \E x \in Version :
              GetCsig(n) = Original(n, x) /\ b[n] <= x /\ x <= Cur[n]
         /\ n \in Target => GetCsig(n) = content[n]
         /\ n \in Source /\ n \notin edited => GetCsig(n) = content[n]
<1>1. pc # "idle" /\ drifted[n] = 0
  BY DEF Rough, Rested, Unread
<1>2. CASE ninfo[n].csig = None
  <2>1. GetCsig(n) = content[n]
    BY <1>1, <1>2, GetCsigFacts
  <2>2. ASSUME n \in Source
        PROVE  content[n] = Original(n, Cur[n]) /\ Cur[n] \in Version /\ b[n] <= Cur[n] /\ Cur[n] <= Cur[n]
    <3>1. b \in Vers /\ AtMost(b, Cur)
      BY DEF Rough, Based
    <3>2. Cur[n] \in Version /\ Cur[n] \in Nat
      BY <2>2, CurFacts, VersFacts
    <3> QED BY <2>2, <3>1, <3>2, CurFacts DEF AtMost
  <2> QED BY <2>1, <2>2
<1>3. CASE ninfo[n].csig # None
  <2>1. GetCsig(n) = ninfo[n].csig
    BY <1>1, <1>3, GetCsigFacts
  <2>2. n \in Target => GetCsig(n) = content[n]
    BY <1>3, <2>1 DEF Rough, Read
  <2>3. ASSUME n \in Source
        PROVE  /\ \E x \in Version : GetCsig(n) = Original(n, x) /\ b[n] <= x /\ x <= Cur[n]
               /\ n \notin edited => GetCsig(n) = content[n]
    <3>1. PICK x \in Version : ninfo[n].csig = Original(n, x) /\ b[n] <= x /\ x <= Cur[n]
      BY <1>3, <2>3 DEF Rough, Read
    <3>2. ASSUME n \notin edited PROVE x = Cur[n]
      <4>1. b[n] = Cur[n]
        BY <1>1, <2>3, <3>2 DEF Rough, Based
      <4>2. Cur[n] \in Nat /\ x \in Nat
        BY <2>3, CurFacts, VersFacts DEF Version
      <4> QED BY <3>1, <4>1, <4>2
    <3>3. content[n] = Original(n, Cur[n])
      BY <2>3, CurFacts
    <3> QED BY <2>1, <3>1, <3>2, <3>3
  <2> QED BY <2>2, <2>3
<1> QED BY <1>2, <1>3

\* What was scanned are the sources of a target and plain files they include.
LEMMA ChildFacts ==
  ASSUME NEW b, Rough(b), NEW t \in Target, children[t] # <<>>
  PROVE  /\ \A i \in DOMAIN children[t] : children[t][i] \in Node
         /\ \A i \in DOMAIN Sources[t] : i \in DOMAIN children[t] /\ children[t][i] = Sources[t][i]
         /\ \A i \in DOMAIN children[t] :
              \/ children[t][i] \in Range(Sources[t])
              \/ children[t][i] \in Source /\ Plain(children[t][i])
<1>1. PICK v : ScannedAt(t, b, v)
  BY DEF Rough, Scanned
<1>2. v \in Vers /\ children[t] = Listed(t, v)
  BY <1>1 DEF ScannedAt
<1>3. Listed(t, v) \in Seq(Node)
  BY <1>2, ListedFacts
<1>4. PICK L : L = Listed(t, v)
  OBVIOUS
<1>5. \A i \in DOMAIN L : L[i] \in Node
  BY <1>3, <1>4
<1> QED BY <1>2, <1>4, <1>5, ListedFacts

\* A content that t could have before the build and can have now has in it what
\* the build takes for the dependencies of t.
LEMMA NowIs ==
  ASSUME Typed, NEW b, Rough(b), NEW t \in Target, ChildrenDone(t),
         NEW X, Fresh(Product(t, X), b), Fresh(Product(t, X), Cur)
  PROVE  Now(t) = X
<1>1. PICK v : ScannedAt(t, b, v)
  BY DEF Rough, Scanned, ChildrenDone
<1>2. v \in Vers /\ AtMost(b, v) /\ AtMost(v, Cur) /\ children[t] = Listed(t, v)
  BY <1>1 DEF ScannedAt
<1>3. b \in Vers /\ Cur \in Vers
  BY CurFacts DEF Rough, Based
<1>4. Shaped(X, Listed(t, b), b) /\ \A i \in DOMAIN X : Fresh(X[i], b)
  BY <1>3, FreshShape
<1>5. Shaped(X, Listed(t, Cur), Cur) /\ \A i \in DOMAIN X : Fresh(X[i], Cur)
  BY <1>3, FreshShape
<1>6. PICK L : L = children[t]
  OBVIOUS
<1>7. ASSUME NEW s \in Source, s \in Range(Sources[t]) PROVE b[s] = Cur[s] /\ v[s] = Cur[s]
  <2>1. PICK i \in DOMAIN Sources[t] : s = Sources[t][i]
    BY <1>7 DEF Range
  <2>2. i \in DOMAIN Listed(t, b) /\ Listed(t, b)[i] = s /\ i \in DOMAIN Listed(t, Cur) /\ Listed(t, Cur)[i] = s
    BY <1>3, <2>1, ListedFacts
  <2>3. s \notin Target
    BY NodeFacts
  <2>4. X[i] = Original(s, b[s]) /\ X[i] = Original(s, Cur[s])
    BY <1>4, <1>5, <2>2, <2>3 DEF Shaped, OfNode
  <2>5. Original(s, b[s]) = Original(s, Cur[s])
    BY <2>4
  <2>6. b[s] = Cur[s]
    BY <2>5, OriginalIs
  <2>7. b[s] <= v[s] /\ v[s] <= Cur[s] /\ v[s] \in Nat /\ Cur[s] \in Nat
    BY <1>2, <1>3, VersFacts DEF AtMost
  <2> QED BY <2>6, <2>7
<1>8. L = Listed(t, b) /\ L = Listed(t, Cur)
  <2>1. Listed(t, v) = Listed(t, Cur)
    BY <1>2, <1>3, <1>7, ListedSame
  <2>2. Listed(t, b) = Listed(t, Cur)
    BY <1>3, <1>7, ListedSame
  <2> QED BY <1>2, <1>6, <2>1, <2>2
<1>9. X = [i \in DOMAIN L |-> X[i]]
  BY <1>5, <1>8 DEF Shaped
<1>10. ASSUME NEW i \in DOMAIN L PROVE GetCsig(L[i]) = X[i]
  <2>1. PICK n : n = L[i]
    OBVIOUS
  <2>2. n \in Node /\ state[n] = "done"
    BY <1>6, <2>1, ChildFacts DEF ChildrenDone
  <2>3. i \in DOMAIN X
    BY <1>9
  <2>4. OfNode(X[i], n, b) /\ OfNode(X[i], n, Cur)
    BY <1>4, <1>5, <1>8, <2>1 DEF Shaped
  <2>5. CASE n \in Source
    <3>1. n \notin Target
      BY <2>5, NodeFacts
    <3>2. X[i] = Original(n, b[n]) /\ X[i] = Original(n, Cur[n])
      BY <2>4, <3>1 DEF OfNode
    <3>3. Original(n, b[n]) = Original(n, Cur[n])
      BY <3>2
    <3>4. b[n] = Cur[n]
      BY <3>3, OriginalIs
    <3>5. PICK x \in Version : GetCsig(n) = Original(n, x) /\ b[n] <= x /\ x <= Cur[n]
      BY <2>2, <2>5, SigFacts
    <3>6. Cur[n] \in Nat /\ x \in Nat
      BY <1>3, <2>5, VersFacts DEF Version
    <3>7. x = Cur[n]
      BY <3>4, <3>5, <3>6
    <3> QED BY <2>1, <3>2, <3>5, <3>7
  <2>6. CASE n \in Target
    <3>1. n \notin Source
      BY <2>6, NodeFacts
    <3>2. PICK Y : X[i] = Product(n, Y)
      BY <2>4, <3>1 DEF OfNode
    <3>3. Fresh(Product(n, Y), b) /\ Fresh(Product(n, Y), Cur)
      BY <1>4, <1>5, <2>3, <3>2
    <3>4. Newest(n, b)
      BY <2>2, <2>6 DEF Rough, Finished
    <3>5. content[n] = Product(n, Y)
      BY <3>3, <3>4 DEF Newest
    <3>6. GetCsig(n) = content[n]
      BY <2>2, <2>6, SigFacts
    <3> QED BY <2>1, <3>2, <3>5, <3>6
  <2> QED BY <2>2, <2>5, <2>6, NodeFacts
<1>11. Now(t) = [i \in DOMAIN L |-> GetCsig(L[i])]
  BY <1>6 DEF Now
<1> QED BY <1>9, <1>10, <1>11

\* If all that the build takes for the dependencies of t was known before the
\* build, then it is as it was.
LEMMA NowOld ==
  ASSUME Typed, NEW b, Rough(b), NEW t \in Target, ChildrenDone(t),
         \A i \in DOMAIN Now(t) : Known(Now(t)[i], b)
  PROVE  Fresh(Product(t, Now(t)), b)
<1>1. PICK v : ScannedAt(t, b, v)
  BY DEF Rough, Scanned, ChildrenDone
<1>2. v \in Vers /\ AtMost(b, v) /\ AtMost(v, Cur) /\ children[t] = Listed(t, v)
  BY <1>1 DEF ScannedAt
<1>3. b \in Vers /\ Cur \in Vers
  BY CurFacts DEF Rough, Based
<1>4. PICK L : L = children[t]
  OBVIOUS
<1>5. PICK X : X = Now(t)
  OBVIOUS
<1>6. X = [i \in DOMAIN L |-> GetCsig(L[i])]
  BY <1>4, <1>5 DEF Now
<1>7. ASSUME NEW i \in DOMAIN L
      PROVE  L[i] \in Node /\ state[L[i]] = "done" /\ X[i] = GetCsig(L[i]) /\ Known(X[i], b)
  <2>1. L[i] \in Node /\ state[L[i]] = "done"
    BY <1>4, ChildFacts DEF ChildrenDone
  <2>2. i \in DOMAIN X /\ X[i] = GetCsig(L[i])
    BY <1>6
  <2> QED BY <1>5, <2>1, <2>2
<1>8. ASSUME NEW i \in DOMAIN L, L[i] \in Source
      PROVE  X[i] = Original(L[i], b[L[i]])
  <2>1. PICK n : n = L[i]
    OBVIOUS
  <2>2. PICK x \in Version : X[i] = Original(n, x) /\ b[n] <= x
    BY <1>7, <1>8, <2>1, SigFacts
  <2>3. Known(Original(n, x), b)
    BY <1>7, <2>2
  <2>4. Zero \in Vers
    BY SConsignAssumption DEF Zero, Vers, Version
  <2>5. x <= b[n]
    BY <1>3, <1>8, <2>1, <2>3, <2>4, FromOriginal DEF Known
  <2>6. x \in Nat /\ b[n] \in Nat
    BY <1>3, <1>8, <2>1, VersFacts DEF Version
  <2>7. x = b[n]
    BY <2>2, <2>5, <2>6
  <2> QED BY <2>1, <2>2, <2>7
<1>9. ASSUME NEW s \in Source, s \in Range(Sources[t]), ~Plain(s) PROVE v[s] = b[s]
  <2>1. PICK i \in DOMAIN Sources[t] : s = Sources[t][i]
    BY <1>9 DEF Range
  <2>2. i \in DOMAIN L /\ L[i] = s
    BY <1>4, <2>1, ChildFacts DEF ChildrenDone
  <2>3. X[i] = Original(s, b[s])
    BY <1>8, <2>2
  <2>4. s \in Node /\ drifted[s] = 0
    BY NodeFacts DEF Rough, Unread
  <2>5. v[s] <= b[s]
    <3>1. CASE ninfo[s].csig # None
      <4>1. PICK x \in Version : ninfo[s].csig = Original(s, x) /\ v[s] <= x
        BY <1>1, <1>9, <3>1 DEF ScannedAt
      <4>2. X[i] = ninfo[s].csig
        BY <1>7, <2>2, <2>4, <3>1, GetCsigFacts
      <4>3. Original(s, x) = Original(s, b[s])
        BY <2>3, <4>1, <4>2
      <4>4. x = b[s]
        BY <4>3, OriginalIs
      <4> QED BY <4>1, <4>4
    <3>2. CASE ninfo[s].csig = None
      <4>1. X[i] = content[s]
        BY <1>7, <2>2, <2>4, <3>2, GetCsigFacts
      <4>2. content[s] = Original(s, Cur[s])
        BY CurFacts
      <4>3. Original(s, Cur[s]) = Original(s, b[s])
        BY <2>3, <4>1, <4>2
      <4>4. Cur[s] = b[s]
        BY <4>3, OriginalIs
      <4> QED BY <1>2, <4>4 DEF AtMost
    <3> QED BY <3>1, <3>2
  <2>6. b[s] <= v[s] /\ b[s] \in Nat /\ v[s] \in Nat
    BY <1>2, <1>3, VersFacts DEF AtMost
  <2> QED BY <2>5, <2>6
<1>10. L = Listed(t, b)
  <2>1. Listed(t, v) = Listed(t, b)
    BY <1>2, <1>3, <1>9, ListedSame
  <2> QED BY <1>2, <1>4, <2>1
<1>11. ASSUME NEW i \in DOMAIN L PROVE OfNode(X[i], L[i], b) /\ Fresh(X[i], b)
  <2>1. PICK n : n = L[i]
    OBVIOUS
  <2>2. CASE n \in Source
    <3>1. X[i] = Original(n, b[n])
      BY <1>8, <2>1, <2>2
    <3>2. b[n] \in Version /\ b[n] \in Nat
      BY <1>3, <2>2, VersFacts
    <3>3. From(Original(n, b[n]), b, b)
      BY <1>3, <2>2, <3>2, FromOriginal
    <3> QED BY <2>1, <2>2, <3>1, <3>3 DEF OfNode, Fresh
  <2>3. CASE n \in Target
    <3>1. X[i] = content[n]
      BY <1>7, <2>1, <2>3, SigFacts
    <3>2. IsProduct(n) /\ NotOlder(n, b)
      BY <1>7, <2>1, <2>3 DEF Rough, Finished
    <3>3. Fresh(X[i], b)
      BY <1>7, <3>1, <3>2 DEF NotOlder
    <3> QED BY <2>1, <2>3, <3>1, <3>2, <3>3 DEF OfNode, IsProduct
  <2> QED BY <1>7, <2>1, <2>2, <2>3, NodeFacts
<1>12. X = [i \in DOMAIN L |-> X[i]]
  BY <1>6
<1>13. Shaped(X, L, b)
  BY <1>11, <1>12 DEF Shaped
<1>14. \A i \in DOMAIN X : Fresh(X[i], b)
  BY <1>6, <1>11
<1>15. Fresh(Product(t, X), b)
  BY <1>3, <1>10, <1>13, <1>14, FreshProduct
<1> QED BY <1>5, <1>15

\* What its command reads now.
Inputs(t) == [i \in DOMAIN Children(t) |-> content[Children(t)[i]]]

\* If what the build took for them can still be right, then it is.
LEMMA NowResult ==
  ASSUME Typed, NEW b, Rough(b), NEW t \in Target, ChildrenDone(t),
         NEW w \in Vers, AtMost(Cur, w), Fresh(Product(t, Now(t)), w)
  PROVE  Product(t, Now(t)) = Result(t)
<1>1. PICK v : ScannedAt(t, b, v)
  BY DEF Rough, Scanned, ChildrenDone
<1>2. v \in Vers /\ AtMost(b, v) /\ AtMost(v, Cur) /\ children[t] = Listed(t, v)
  BY <1>1 DEF ScannedAt
<1>3. b \in Vers /\ Cur \in Vers
  BY CurFacts DEF Rough, Based
<1>4. PICK L : L = children[t]
  OBVIOUS
<1>5. PICK X : X = Now(t)
  OBVIOUS
<1>6. X = [i \in DOMAIN L |-> GetCsig(L[i])]
  BY <1>4, <1>5 DEF Now
<1>7. PICK M : M = Listed(t, w)
  OBVIOUS
<1>8. X = [i \in DOMAIN M |-> X[i]] /\ \A i \in DOMAIN M : OfNode(X[i], M[i], w)
  <2>1. Shaped(X, M, w)
    BY <1>5, <1>7, FreshShape
  <2> QED BY <2>1 DEF Shaped
<1>9. DOMAIN L = DOMAIN M
  BY <1>6, <1>8
<1>10. ASSUME NEW i \in DOMAIN L PROVE L[i] \in Node /\ state[L[i]] = "done" /\ X[i] = GetCsig(L[i])
  <2>1. L[i] \in Node /\ state[L[i]] = "done"
    BY <1>4, ChildFacts DEF ChildrenDone
  <2> QED BY <1>6, <2>1
<1>11. ASSUME NEW i \in DOMAIN L
       PROVE  M[i] = L[i] /\ X[i] = content[L[i]] /\ (L[i] \in Source => w[L[i]] = Cur[L[i]])
  <2>1. PICK n : n = L[i]
    OBVIOUS
  <2>2. PICK m : m = M[i]
    OBVIOUS
  <2>3. OfNode(X[i], m, w)
    BY <1>8, <1>9, <2>2
  <2>4. CASE n \in Source
    <3>1. PICK x \in Version : X[i] = Original(n, x) /\ x <= Cur[n]
      BY <1>10, <2>1, <2>4, SigFacts
    <3>2. ~\E Y : X[i] = Product(m, Y)
      BY <3>1, ProductOnly
    <3>3. m \in Source /\ X[i] = Original(m, w[m])
      BY <2>3, <3>2 DEF OfNode
    <3>4. Original(n, x) = Original(m, w[m])
      BY <3>1, <3>3
    <3>5. n = m /\ x = w[m]
      BY <3>4, OriginalIs
    <3>6. Cur[n] <= w[n] /\ Cur[n] \in Nat /\ w[n] \in Nat
      BY <1>3, <2>4, VersFacts DEF AtMost
    <3>7. x = Cur[n]
      BY <3>1, <3>5, <3>6
    <3>8. content[n] = Original(n, Cur[n])
      BY <2>4, CurFacts
    <3> QED BY <2>1, <2>2, <3>1, <3>5, <3>7, <3>8
  <2>5. CASE n \in Target
    <3>1. X[i] = content[n]
      BY <1>10, <2>1, <2>5, SigFacts
    <3>2. PICK Y : content[n] = Product(n, Y)
      BY <1>10, <2>1, <2>5 DEF Rough, Finished, IsProduct
    <3>3. X[i] # Original(m, w[m])
      BY <3>1, <3>2, ProductOnly
    <3>4. PICK Z : X[i] = Product(m, Z)
      BY <2>3, <3>3 DEF OfNode
    <3>5. Product(n, Y) = Product(m, Z)
      BY <3>1, <3>2, <3>4
    <3>6. n = m
      BY <3>5, ProductIs
    <3>7. n \notin Source
      BY <2>5, NodeFacts
    <3> QED BY <2>1, <2>2, <3>1, <3>6, <3>7
  <2> QED BY <1>10, <2>1, <2>4, <2>5, NodeFacts
<1>12. M = L
  <2>1. M = [i \in DOMAIN M |-> M[i]] /\ L = [i \in DOMAIN L |-> L[i]]
    <3>1. M \in Seq(Node) /\ L \in Seq(Node)
      BY <1>2, <1>4, <1>7, ListedFacts
    <3> QED BY <3>1
  <2> QED BY <1>9, <1>11, <2>1
<1>13. ASSUME NEW s \in Source, s \in Range(Sources[t]) PROVE w[s] = Cur[s]
  <2>1. PICK i \in DOMAIN Sources[t] : s = Sources[t][i]
    BY <1>13 DEF Range
  <2>2. i \in DOMAIN L /\ L[i] = s
    BY <1>4, <2>1, ChildFacts DEF ChildrenDone
  <2> QED BY <1>11, <2>2
<1>14. Children(t) = L
  <2>1. Listed(t, w) = Listed(t, Cur)
    BY <1>3, <1>13, ListedSame
  <2> QED BY <1>7, <1>12, <2>1, ChildrenListed
<1>15. X = Inputs(t)
  <2>1. Inputs(t) = [i \in DOMAIN L |-> content[L[i]]]
    BY <1>14 DEF Inputs
  <2> QED BY <1>6, <1>10, <1>11, <2>1
<1>16. Result(t) = Product(t, Inputs(t))
  BY DEF Result, Inputs
<1> QED BY <1>5, <1>15, <1>16

\* What the command of t writes, if it is run when its dependencies are done.
LEMMA ResultFacts ==
  ASSUME Typed, NEW b, Rough(b), NEW t \in Target, ChildrenDone(t)
  PROVE  /\ Result(t) = Product(t, Inputs(t))
         /\ Known(Result(t), Cur)
         /\ Known(Result(t), b) => Fresh(Result(t), b)
         /\ \A X : Fresh(Product(t, X), b) /\ Fresh(Product(t, X), Cur) => Result(t) = Product(t, X)
<1>1. PICK L : L = Children(t)
  OBVIOUS
<1>2. b \in Vers /\ Cur \in Vers /\ AtMost(b, Cur) /\ Zero \in Vers
  <2>1. Zero \in Vers
    BY SConsignAssumption DEF Zero, Vers, Version
  <2> QED BY <2>1, CurFacts DEF Rough, Based
<1>3. L = Listed(t, Cur)
  BY <1>1, ChildrenListed
<1>4. PICK X : X = Inputs(t)
  OBVIOUS
<1>5. X = [i \in DOMAIN L |-> content[L[i]]]
  BY <1>1, <1>4 DEF Inputs
<1>6. Result(t) = Product(t, X)
  BY <1>4 DEF Result, Inputs
<1>7. ASSUME NEW i \in DOMAIN L
      PROVE  L[i] \in Node /\ X[i] = content[L[i]] /\ (L[i] \in Target => state[L[i]] = "done")
  <2>1. L \in Seq(Node)
    BY <1>2, <1>3, ListedFacts
  <2>2. L[i] \in Node
    BY <2>1
  <2>3. X[i] = content[L[i]]
    BY <1>5
  <2>4. ASSUME L[i] \in Target PROVE state[L[i]] = "done"
    <3>1. L[i] \notin Source
      BY <2>4, NodeFacts
    <3>2. L[i] \in Range(Sources[t])
      BY <1>2, <1>3, <3>1, ListedFacts
    <3>3. PICK j \in DOMAIN Sources[t] : L[i] = Sources[t][j]
      BY <3>2 DEF Range
    <3>4. j \in DOMAIN children[t] /\ children[t][j] = L[i]
      BY <3>3, ChildFacts DEF ChildrenDone
    <3> QED BY <3>4 DEF ChildrenDone
  <2> QED BY <2>2, <2>3, <2>4
<1>8. ASSUME NEW i \in DOMAIN L, L[i] \in Source
      PROVE  X[i] = Original(L[i], Cur[L[i]]) /\ Cur[L[i]] \in Version /\ Cur[L[i]] \in Nat
  <2>1. content[L[i]] = Original(L[i], Cur[L[i]])
    BY <1>8, CurFacts
  <2>2. Cur[L[i]] \in Version /\ Cur[L[i]] \in Nat
    BY <1>2, <1>8, VersFacts
  <2> QED BY <1>7, <2>1, <2>2
<1>9. ASSUME NEW i \in DOMAIN L, L[i] \in Target
      PROVE  \E Y : X[i] = Product(L[i], Y) /\ Known(X[i], Cur)
  <2>1. PICK n \in Target : n = L[i]
    BY <1>9
  <2>2. PICK Y : content[n] = Product(n, Y)
    BY <1>7, <2>1 DEF Rough, Finished, IsProduct
  <2>3. content[n] # Absent /\ content[n] # Partial(n)
    BY <2>2, ProductOnly
  <2>4. Known(content[n], Cur)
    BY <2>3 DEF Rough, Contents
  <2> QED BY <1>7, <2>1, <2>2, <2>4
<1>10. Shaped(X, L, Cur)
  <2>1. X = [i \in DOMAIN L |-> X[i]]
    BY <1>5
  <2>2. ASSUME NEW i \in DOMAIN L PROVE OfNode(X[i], L[i], Cur)
    BY <1>7, <1>8, <1>9, NodeFacts DEF OfNode
  <2> QED BY <2>1, <2>2 DEF Shaped
<1>11. Fits(t, X)
  BY <1>2, <1>3, <1>10 DEF Fits
<1>12. Known(Product(t, X), Cur)
  <2>1. ASSUME NEW i \in DOMAIN L PROVE From(X[i], Zero, Cur)
    <3>1. CASE L[i] \in Source
      <4>1. PICK n \in Source : n = L[i]
        BY <3>1
      <4>2. PICK x : x = Cur[n]
        OBVIOUS
      <4>3. x \in Version /\ Zero[n] <= x /\ x <= Cur[n]
        BY <1>8, <4>1, <4>2 DEF Zero
      <4>4. From(Original(n, x), Zero, Cur)
        BY <1>2, <4>3, FromOriginal
      <4> QED BY <1>8, <4>1, <4>2, <4>4
    <3>2. CASE L[i] \in Target
      BY <1>9, <3>2 DEF Known
    <3> QED BY <1>7, <3>1, <3>2, NodeFacts
  <2>2. \A i \in DOMAIN X : From(X[i], Zero, Cur)
    BY <1>5, <2>1
  <2> QED BY <1>11, <2>2, FromProduct DEF Known
<1>13. ASSUME Known(Product(t, X), b) PROVE Fresh(Product(t, X), b)
  <2>1. \A i \in DOMAIN L : From(X[i], Zero, b)
    BY <1>5, <1>13, FromParts DEF Known
  <2>2. ASSUME NEW i \in DOMAIN L, L[i] \in Source PROVE Cur[L[i]] = b[L[i]]
    <3>1. PICK n \in Source : n = L[i]
      BY <2>2
    <3>2. PICK x : x = Cur[n]
      OBVIOUS
    <3>3. x \in Version /\ x \in Nat /\ From(Original(n, x), Zero, b)
      BY <1>8, <2>1, <3>1, <3>2
    <3>4. x <= b[n] /\ b[n] <= Cur[n] /\ b[n] \in Nat
      BY <1>2, <3>3, FromOriginal, VersFacts DEF AtMost
    <3> QED BY <3>1, <3>2, <3>3, <3>4
  <2>3. ASSUME NEW s \in Source, s \in Range(Sources[t]) PROVE Cur[s] = b[s]
    <3>1. PICK i \in DOMAIN Sources[t] : s = Sources[t][i]
      BY <2>3 DEF Range
    <3>2. i \in DOMAIN L /\ L[i] = s
      BY <1>2, <1>3, <3>1, ListedFacts
    <3> QED BY <2>2, <3>2
  <2>4. L = Listed(t, b)
    BY <1>2, <1>3, <2>3, ListedSame
  <2>5. ASSUME NEW i \in DOMAIN L PROVE OfNode(X[i], L[i], b) /\ Fresh(X[i], b)
    <3>1. CASE L[i] \in Source
      <4>1. PICK n \in Source : n = L[i]
        BY <3>1
      <4>2. PICK x : x = b[n]
        OBVIOUS
      <4>3. X[i] = Original(n, x) /\ x \in Version /\ x <= b[n] /\ b[n] <= x
        BY <1>8, <2>2, <4>1, <4>2
      <4>4. From(Original(n, x), b, b)
        BY <1>2, <4>3, FromOriginal
      <4> QED BY <4>1, <4>2, <4>3, <4>4 DEF OfNode, Fresh
    <3>2. CASE L[i] \in Target
      <4>1. PICK n \in Target : n = L[i]
        BY <3>2
      <4>2. NotOlder(n, b) /\ X[i] = content[n]
        BY <1>7, <4>1 DEF Rough, Finished
      <4>3. Known(X[i], b)
        BY <2>1 DEF Known
      <4>4. Fresh(X[i], b)
        BY <4>2, <4>3 DEF NotOlder
      <4> QED BY <1>9, <3>2, <4>4 DEF OfNode
    <3> QED BY <1>7, <3>1, <3>2, NodeFacts
  <2>6. Shaped(X, L, b) /\ \A i \in DOMAIN X : Fresh(X[i], b)
    BY <1>5, <2>5 DEF Shaped
  <2> QED BY <1>2, <2>4, <2>6, FreshProduct
<1>14. ASSUME NEW Y, Fresh(Product(t, Y), b), Fresh(Product(t, Y), Cur) PROVE X = Y
  <2>1. Shaped(Y, L, Cur) /\ \A i \in DOMAIN Y : Fresh(Y[i], Cur)
    BY <1>2, <1>3, <1>14, FreshShape
  <2>2. \A i \in DOMAIN Y : Fresh(Y[i], b)
    BY <1>2, <1>14, FreshShape
  <2>3. Y = [i \in DOMAIN L |-> Y[i]] /\ \A i \in DOMAIN L : OfNode(Y[i], L[i], Cur)
    BY <2>1 DEF Shaped
  <2>4. ASSUME NEW i \in DOMAIN L PROVE X[i] = Y[i]
    <3>1. i \in DOMAIN Y
      BY <2>3
    <3>2. CASE L[i] \in Source
      <4>1. L[i] \notin Target
        BY <3>2, NodeFacts
      <4>2. Y[i] = Original(L[i], Cur[L[i]])
        BY <2>3, <4>1 DEF OfNode
      <4> QED BY <1>8, <3>2, <4>2
    <3>3. CASE L[i] \in Target
      <4>1. PICK n \in Target : n = L[i]
        BY <3>3
      <4>2. n \notin Source
        BY NodeFacts
      <4>3. PICK Z : Y[i] = Product(n, Z)
        BY <2>3, <4>1, <4>2 DEF OfNode
      <4>4. Fresh(Product(n, Z), b) /\ Fresh(Product(n, Z), Cur)
        BY <2>1, <2>2, <3>1, <4>3
      <4>5. Newest(n, b) /\ X[i] = content[n]
        BY <1>7, <4>1 DEF Rough, Finished
      <4>6. content[n] = Product(n, Z)
        BY <4>4, <4>5 DEF Newest
      <4> QED BY <4>3, <4>5, <4>6
    <3> QED BY <1>7, <3>2, <3>3, NodeFacts
  <2> QED BY <1>5, <2>3, <2>4
<1> QED BY <1>4, <1>6, <1>12, <1>13, <1>14

-----------------------------------------------------------------------------
(* What the visit of a target, its preparation and its command establish.  *)

LEMMA DeadLater ==
  ASSUME NEW t, NEW D, NEW v \in Vers, NEW w \in Vers, AtMost(v, w), Dead(t, D, v)
  PROVE  Dead(t, D, w)
BY AtMostFacts DEF Dead

\* A record stays what it was when sources get newer.
LEMMA RecordedLater ==
  ASSUME NEW t, NEW c, NEW D, NEW b \in Vers, NEW v \in Vers, Recorded(t, c, D, b, v),
         NEW d \in Vers, NEW w \in Vers, AtMost(b, d), AtMost(v, w)
  PROVE  Recorded(t, c, D, d, w)
BY KnownLater, DeadLater DEF Recorded

\* Known signatures are not computed again.
LEMMA NowSigs ==
  ASSUME NEW t, Ready(t) PROVE Now(t) = Sigs(t)
BY DEF Now, Sigs, GetCsig, Ready

\* What is known is done.
LEMMA ReadyDone ==
  ASSUME NEW t, Ready(t) PROVE ChildrenDone(t)
BY DEF Ready, ChildrenDone

\* When a target is considered, the build goes on and nothing is decided of it.
LEMMA ConsideredFacts ==
  ASSUME NEW t \in Target, Considered(t)
  PROVE  ChildrenDone(t) /\ state[t] = "none" /\ pc = "build" /\ ~stopped
<1>1. children[t] # <<>> /\ state[t] = "none" /\ pc = "build" /\ ~stopped
  BY DEF Considered, Reached
<1>2. \A i \in DOMAIN children[t] : children[t][i] \in Range(children[t])
  BY DEF Range
<1> QED BY <1>1, <1>2 DEF Considered, ChildrenDone

\* If nothing that t depends on was edited, the signatures are those of the disk.
LEMMA NowCurrent ==
  ASSUME Typed, NEW b, Rough(b), NEW t \in Target, ChildrenDone(t),
         edited \cap Range(Children(t)) = {}, pc # "idle"
  PROVE  Now(t) = Inputs(t) /\ children[t] = Children(t)
<1>1. PICK v : ScannedAt(t, b, v)
  BY DEF Rough, Scanned, ChildrenDone
<1>2. v \in Vers /\ AtMost(b, v) /\ AtMost(v, Cur) /\ children[t] = Listed(t, v)
  BY <1>1 DEF ScannedAt
<1>3. b \in Vers /\ Cur \in Vers
  BY CurFacts DEF Rough, Based
<1>4. ASSUME NEW s \in Source, s \in Range(Sources[t]) PROVE v[s] = Cur[s]
  <2>1. PICK i \in DOMAIN Sources[t] : s = Sources[t][i]
    BY <1>4 DEF Range
  <2>2. i \in DOMAIN Children(t) /\ Children(t)[i] = s
    BY <1>3, <2>1, ListedFacts, ChildrenListed
  <2>3. s \notin edited
    BY <2>2 DEF Range
  <2>4. b[s] = Cur[s]
    BY <2>3 DEF Rough, Based
  <2>5. b[s] <= v[s] /\ v[s] <= Cur[s] /\ v[s] \in Nat /\ Cur[s] \in Nat
    BY <1>2, <1>3, VersFacts DEF AtMost
  <2> QED BY <2>4, <2>5
<1>5. children[t] = Children(t)
  <2>1. Listed(t, v) = Listed(t, Cur)
    BY <1>2, <1>3, <1>4, ListedSame
  <2> QED BY <1>2, <2>1, ChildrenListed
<1>6. PICK L : L = children[t]
  OBVIOUS
<1>7. ASSUME NEW i \in DOMAIN L PROVE GetCsig(L[i]) = content[L[i]]
  <2>1. L[i] \in Node /\ state[L[i]] = "done"
    BY <1>6, ChildFacts DEF ChildrenDone
  <2>2. L[i] \notin edited
    BY <1>5, <1>6 DEF Range
  <2> QED BY <2>1, <2>2, SigFacts, NodeFacts
<1>8. Now(t) = [i \in DOMAIN L |-> GetCsig(L[i])]
  BY <1>6 DEF Now
<1>9. Inputs(t) = [i \in DOMAIN L |-> content[L[i]]]
  BY <1>5, <1>6 DEF Inputs
<1> QED BY <1>5, <1>7, <1>8, <1>9

\* A target that is up to date is what its command would make (is_up_to_date).
LEMMA VisitFacts ==
  ASSUME Typed, NEW b, Rough(b), NEW t \in Target, Considered(t), IsUpToDate(t)
  PROVE  content[t] = Product(t, Now(t)) /\ Newest(t, b) /\ NotOlder(t, b) /\ Current(t)
<1>1. ChildrenDone(t) /\ state[t] = "none" /\ pc = "build"
  BY ConsideredFacts
<1>2. db[t].deps = Now(t)
  BY DEF IsUpToDate, Changed
<1>3. Recorded(t, content[t], Now(t), b, b)
  BY <1>1, <1>2 DEF Rough, Records
<1>4. Now(t) # <<>>
  <2>1. DOMAIN Now(t) = DOMAIN children[t] /\ children[t] # <<>>
    BY <1>1 DEF Now, ChildrenDone
  <2>2. PICK v : ScannedAt(t, b, v)
    BY <2>1 DEF Rough, Scanned
  <2>3. children[t] \in Seq(Node)
    BY <2>2, ListedFacts DEF ScannedAt
  <2> QED BY <2>1, <2>3
<1>5. /\ \A i \in DOMAIN Now(t) : Known(Now(t)[i], b)
      /\ content[t] = Product(t, Now(t)) \/ Dead(t, Now(t), b)
  BY <1>3, <1>4 DEF Recorded
<1>6. Fresh(Product(t, Now(t)), b)
  BY <1>1, <1>5, NowOld
<1>7. b \in Vers /\ AtMost(b, b)
  BY AtMostFacts DEF Rough, Based
<1>8. ~Dead(t, Now(t), b)
  BY <1>6, <1>7 DEF Dead
<1>9. content[t] = Product(t, Now(t))
  BY <1>5, <1>8
<1>10. Newest(t, b)
  BY <1>1, <1>9, NowIs DEF Newest
<1>11. NotOlder(t, b)
  BY <1>6, <1>9 DEF NotOlder
<1>12. Current(t)
  <2>1. Result(t) = Product(t, Inputs(t))
    BY DEF Result, Inputs
  <2>2. edited \cap Range(Children(t)) = {} => Now(t) = Inputs(t)
    BY <1>1, NowCurrent
  <2> QED BY <1>9, <2>1, <2>2 DEF Current
<1> QED BY <1>9, <1>10, <1>11, <1>12

\* The record of a target that is out of date is of no use any more, whatever
\* becomes of the target.
LEMMA PrepareFacts ==
  ASSUME Typed, NEW b, Rough(b), NEW t \in Target, Considered(t), ~IsUpToDate(t), NEW c
  PROVE  Recorded(t, c, db[t].deps, b, Cur)
<1>1. ChildrenDone(t) /\ state[t] = "none" /\ pc = "build"
  BY ConsideredFacts
<1>2. PICK D : D = db[t].deps
  OBVIOUS
<1>3. Recorded(t, content[t], D, b, b)
  BY <1>1, <1>2 DEF Rough, Records
<1>4. b \in Vers /\ Cur \in Vers /\ AtMost(b, Cur)
  BY CurFacts DEF Rough, Based
<1>5. CASE D = <<>>
  BY <1>2, <1>5 DEF Recorded
<1>6. CASE D # <<>>
  <2>1. /\ \A i \in DOMAIN D : Known(D[i], b)
        /\ content[t] = Product(t, D) \/ Dead(t, D, b)
    BY <1>3, <1>6 DEF Recorded
  <2>2. CASE Dead(t, D, b)
    BY <1>2, <1>4, <2>1, <2>2, DeadLater DEF Recorded
  <2>3. CASE content[t] = Product(t, D)
    <3>1. Now(t) # D
      <4>1. content[t] # Absent
        BY <2>3, ProductOnly
      <4> QED BY <1>2, <4>1 DEF IsUpToDate, Changed
    <3>2. ASSUME NEW w \in Vers, AtMost(Cur, w), Fresh(Product(t, D), w) PROVE FALSE
      <4>1. Fits(t, D) /\ \A i \in DOMAIN D : Fresh(D[i], w)
        BY <3>2, FromParts DEF Fresh
      <4>2. \A i \in DOMAIN D : Fresh(D[i], b) /\ Fresh(D[i], Cur)
        BY <1>4, <2>1, <3>2, <4>1, FreshBetween
      <4>3. Fresh(Product(t, D), b) /\ Fresh(Product(t, D), Cur)
        BY <4>1, <4>2, FromProduct DEF Fresh
      <4> QED BY <1>1, <3>1, <4>3, NowIs
    <3>3. Dead(t, D, Cur)
      BY <3>2 DEF Dead
    <3> QED BY <1>2, <2>1, <3>3 DEF Recorded
  <2> QED BY <2>1, <2>2, <2>3
<1> QED BY <1>5, <1>6

\* A command makes what the signatures say, or what cannot be right any more
\* since a source was edited in between.
LEMMA BuiltFacts ==
  ASSUME Typed, NEW b, Rough(b), NEW t \in Target, Ready(t)
  PROVE  Result(t) = Product(t, Sigs(t)) \/ Dead(t, Sigs(t), Cur)
<1>1. ChildrenDone(t) /\ Now(t) = Sigs(t)
  BY NowSigs, ReadyDone
<1>2. ASSUME NEW w \in Vers, AtMost(Cur, w), Fresh(Product(t, Now(t)), w)
      PROVE  Product(t, Now(t)) = Result(t)
  BY <1>1, <1>2, NowResult
<1>3. PICK X : X = Sigs(t)
  OBVIOUS
<1>4. \A w \in Vers : AtMost(Cur, w) /\ Fresh(Product(t, X), w) => Product(t, X) = Result(t)
  BY <1>1, <1>2, <1>3
<1>5. CASE Dead(t, X, Cur)
  BY <1>3, <1>5
<1>6. CASE ~Dead(t, X, Cur)
  <2>1. Product(t, X) = Result(t)
    BY <1>4, <1>6 DEF Dead
  <2> QED BY <1>3, <2>1
<1> QED BY <1>5, <1>6

\* What is recorded at the end of a build.
LEMMA SigsKnown ==
  ASSUME Typed, NEW b, Rough(b), NEW t \in Target, state[t] = "done"
  PROVE  Recorded(t, content[t], Sigs(t), Cur, Cur)
<1>1. Ready(t) /\ Remembered(t)
  BY DEF Rough, Begun, Finished
<1>2. Cur \in Vers /\ Zero \in Vers
  BY CurFacts, SConsignAssumption DEF Zero, Vers, Version
<1>3. ASSUME NEW i \in DOMAIN Sigs(t) PROVE Known(Sigs(t)[i], Cur)
  <2>1. PICK n : n = children[t][i]
    OBVIOUS
  <2>2. i \in DOMAIN children[t] /\ Sigs(t)[i] = ninfo[n].csig
    BY <2>1 DEF Sigs
  <2>3. n \in Node /\ state[n] = "done" /\ ninfo[n].csig # None
    BY <1>1, <2>1, <2>2, ChildFacts DEF Ready
  <2>4. CASE n \in Source
    <3>1. PICK x \in Version : ninfo[n].csig = Original(n, x) /\ x <= Cur[n]
      BY <2>3, <2>4 DEF Rough, Read
    <3>2. Zero[n] <= x
      BY <2>4 DEF Zero, Version
    <3>3. Known(Original(n, x), Cur)
      BY <1>2, <2>4, <3>1, <3>2, FromOriginal DEF Known
    <3> QED BY <2>2, <3>1, <3>3
  <2>5. CASE n \in Target
    <3>1. ninfo[n].csig = content[n]
      BY <2>3, <2>5 DEF Rough, Read
    <3>2. PICK Y : content[n] = Product(n, Y)
      BY <2>3, <2>5 DEF Rough, Finished, IsProduct
    <3>3. content[n] # Absent /\ content[n] # Partial(n)
      BY <3>2, ProductOnly
    <3>4. Known(content[n], Cur)
      BY <2>5, <3>3 DEF Rough, Contents
    <3> QED BY <2>2, <3>1, <3>4
  <2> QED BY <2>3, <2>4, <2>5, NodeFacts
<1> QED BY <1>1, <1>3 DEF Recorded, Remembered

-----------------------------------------------------------------------------
(* Steps of a build.                                                       *)

\* Sources, and what is done, scanned and read, stay as they are.
Quiet ==
  /\ \A s \in Source : content'[s] = content[s]
  /\ \A t \in Target : state[t] = "done" => content'[t] = content[t]
  /\ \A t \in Target : children[t] # <<>> => children'[t] = children[t]
  /\ \A n \in Node : ninfo[n].csig # None => ninfo'[n].csig = ninfo[n].csig
  /\ \A n \in Node : state[n] = "done" => state'[n] = "done"
  /\ edited' = edited

\* What is known of the dependencies of a target stays known.
LEMMA QuietReady ==
  ASSUME NEW b, Rough(b), Quiet, NEW t \in Target, Ready(t)
  PROVE  Ready(t)' /\ Sigs(t)' = Sigs(t)
<1>1. children[t] # <<>> /\ children'[t] = children[t]
  BY DEF Ready, Quiet
<1>2. ASSUME NEW i \in DOMAIN children[t]
      PROVE  /\ state'[children[t][i]] = "done"
             /\ ninfo'[children[t][i]].csig = ninfo[children[t][i]].csig
             /\ ninfo[children[t][i]].csig # None
  BY <1>1, ChildFacts DEF Ready, Quiet
<1>3. Sigs(t)' = [i \in DOMAIN children[t] |-> ninfo'[children[t][i]].csig]
  BY <1>1 DEF Sigs
<1>4. Sigs(t)' = Sigs(t)
  BY <1>2, <1>3 DEF Sigs
<1>5. Ready(t)'
  BY <1>1, <1>2 DEF Ready
<1> QED BY <1>4, <1>5

\* The sources and what a scan finds in them stay.
LEMMA QuietCur ==
  ASSUME Quiet
  PROVE  Cur' = Cur /\ \A t \in Target : Children(t)' = Children(t)
<1>1. \A s \in Source : content'[s].version = content[s].version
  BY DEF Quiet
<1>2. Cur' = Cur
  BY <1>1 DEF Cur
<1>3. ASSUME NEW t \in Target PROVE Children(t)' = Children(t)
  <2>1. ASSUME NEW i \in DOMAIN Sources[t] PROVE Included(Sources[t][i])' = Included(Sources[t][i])
    BY <1>1 DEF Included
  <2>2. [i \in DOMAIN Sources[t] |-> Included(Sources[t][i])]' =
        [i \in DOMAIN Sources[t] |-> Included(Sources[t][i])]
    BY <2>1
  <2> QED BY <2>2 DEF Children
<1> QED BY <1>2, <1>3

\* What t depends on, if all it was scanned for is done.
LEMMA InputsDone ==
  ASSUME Typed, NEW b, Rough(b), NEW t \in Target, ChildrenDone(t), NEW i \in DOMAIN Children(t)
  PROVE  Children(t)[i] \in Source \/ (Children(t)[i] \in Target /\ state[Children(t)[i]] = "done")
<1>1. PICK L : L = Children(t)
  OBVIOUS
<1>2. L = Listed(t, Cur) /\ Cur \in Vers
  BY <1>1, ChildrenListed, CurFacts
<1>3. L[i] \in Source \/ L[i] \in Range(Sources[t])
  BY <1>1, <1>2, ListedFacts
<1>4. L[i] \in Node
  <2>1. L \in Seq(Node)
    BY <1>2, ListedFacts
  <2> QED BY <1>1, <2>1
<1>5. ASSUME L[i] \in Range(Sources[t]) PROVE state[L[i]] = "done"
  <2>1. PICK j \in DOMAIN Sources[t] : L[i] = Sources[t][j]
    BY <1>5 DEF Range
  <2>2. j \in DOMAIN children[t] /\ children[t][j] = L[i]
    BY <2>1, ChildFacts DEF ChildrenDone
  <2> QED BY <2>2 DEF ChildrenDone
<1> QED BY <1>1, <1>3, <1>4, <1>5, NodeFacts

\* What a command would make stays.
LEMMA QuietResult ==
  ASSUME Typed, NEW b, Rough(b), Quiet, NEW t \in Target, ChildrenDone(t)
  PROVE  Result(t)' = Result(t)
<1>1. Children(t)' = Children(t)
  BY QuietCur
<1>2. \A i \in DOMAIN Children(t) : content'[Children(t)[i]] = content[Children(t)[i]]
  BY InputsDone DEF Quiet
<1>3. PICK L : L = Children(t)
  OBVIOUS
<1>4. [i \in DOMAIN L |-> content'[L[i]]] = [i \in DOMAIN L |-> content[L[i]]]
  BY <1>2, <1>3
<1>5. Result(t)' = Product(t, [i \in DOMAIN L |-> content'[L[i]]])
  BY <1>1, <1>3 DEF Result, Product
<1>6. Result(t) = Product(t, [i \in DOMAIN L |-> content[L[i]]])
  BY <1>3 DEF Result
<1> QED BY <1>4, <1>5, <1>6

\* All that is said of a target that is done.
Settles(t, b) == IsProduct(t) /\ Newest(t, b) /\ NotOlder(t, b) /\ Remembered(t) /\ Current(t)

\* What is said of a target that is done stays true.
LEMMA QuietSettled ==
  ASSUME Typed, NEW b, Rough(b), Quiet, NEW t \in Target, state[t] = "done"
  PROVE  Settles(t, b)'
<1>1. Ready(t) /\ Settles(t, b)
  BY DEF Rough, Begun, Finished, Settles
<1>2. content'[t] = content[t] /\ Cur' = Cur /\ Sigs(t)' = Sigs(t) /\ edited' = edited
      /\ Children(t)' = Children(t) /\ Result(t)' = Result(t)
  BY <1>1, QuietCur, QuietReady, QuietResult, ReadyDone DEF Quiet
<1>3. IsProduct(t)' /\ Newest(t, b)' /\ NotOlder(t, b)'
  BY <1>1, <1>2 DEF Settles, IsProduct, Newest, NotOlder
<1>4. Remembered(t)'
  <2>1. PICK X : X = Sigs(t)
    OBVIOUS
  <2>2. content[t] = Product(t, X) \/ Dead(t, X, Cur)
    BY <1>1, <2>1 DEF Settles, Remembered
  <2>3. Remembered(t)' <=> content'[t] = Product(t, X) \/ Dead(t, X, Cur')
    BY <1>2, <2>1 DEF Remembered, Dead, Product, Fresh, From, Coherent, Between, Made, Fits, Shaped, OfNode
  <2> QED BY <1>2, <2>2, <2>3
<1>5. Current(t)'
  BY <1>1, <1>2 DEF Settles, Current
<1> QED BY <1>3, <1>4, <1>5 DEF Settles

\* What a step of a build may change, besides what is quiet.
ContentStep ==
  \A t \in Target :
    \/ content'[t] \in {content[t], Absent, Partial(t)}
    \/ \E X : content'[t] = Product(t, X) /\ Known(Product(t, X), Cur)
RecordStep(b) ==
  \A t \in Target :
    \/ content'[t] = content[t] /\ (state[t] # "none" => state'[t] # "none")
    \/ state'[t] # "none" /\ Recorded(t, content'[t], db[t].deps, b, Cur)
SigStep ==
  \A n \in Node :
    \/ /\ ninfo'[n].csig = ninfo[n].csig
       /\ n \in Target => content'[n] = content[n] \/ ninfo[n].csig = None
    \/ /\ ninfo'[n].csig = GetCsig(n) /\ state[n] = "done"
       /\ \E t \in Target : n \in Range(children[t])
    \/ n \in Target /\ state'[n] = "done" /\ ninfo'[n].csig = content'[n]
ScanStep ==
  \A t \in Target :
    \/ children'[t] = children[t]
    \/ /\ children[t] = <<>> /\ children'[t] = Children(t)
       /\ \A n \in Node : ninfo'[n].csig = ninfo[n].csig
BuildStep(b) ==
  /\ Quiet /\ pc = "build"
  /\ pc' = "build" \/ (pc' = "write" /\ \A t \in Target : state'[t] # "running")
  /\ drifted' = drifted /\ db' = db /\ tmp' = tmp
  /\ ContentStep /\ RecordStep(b) /\ SigStep /\ ScanStep
  /\ \A t \in Target : state'[t] \in {"running", "done"} =>
       state[t] \in {"running", "done"} \/ Ready(t)'
  /\ \A t \in Target : state'[t] = "done" => state[t] = "done" \/ Settles(t, b)'

\* Such a step keeps what is said of the records.
LEMMA BuildStepRecords ==
  ASSUME Typed, NEW b, Rough(b), BuildStep(b) PROVE Records(b)'
<1>1. Cur' = Cur /\ db' = db /\ pc' # "unlinked"
  BY QuietCur DEF BuildStep
<1>2. b \in Vers /\ Cur \in Vers /\ AtMost(b, Cur) /\ AtMost(b, b)
  BY CurFacts, AtMostFacts DEF Rough, Based
<1>3. ASSUME NEW t \in Target
      PROVE  /\ state'[t] = "none" => Recorded(t, content'[t], db[t].deps, b, b)
             /\ state'[t] # "none" => Recorded(t, content'[t], db[t].deps, b, Cur)
  <2>1. CASE state'[t] # "none" /\ Recorded(t, content'[t], db[t].deps, b, Cur)
    BY <2>1
  <2>2. CASE content'[t] = content[t] /\ (state[t] # "none" => state'[t] # "none")
    <3>1. /\ state[t] = "none" => Recorded(t, content'[t], db[t].deps, b, b)
          /\ state[t] # "none" => Recorded(t, content'[t], db[t].deps, b, Cur)
      BY <2>2 DEF Rough, Records
    <3>2. ASSUME Recorded(t, content'[t], db[t].deps, b, b)
          PROVE  Recorded(t, content'[t], db[t].deps, b, Cur)
      BY <1>2, <3>2, RecordedLater
    <3> QED BY <2>2, <3>1, <3>2
  <2> QED BY <2>1, <2>2 DEF BuildStep, RecordStep
<1> QED BY <1>1, <1>3 DEF Records

\* It keeps what is said of the signatures that were read.
LEMMA BuildStepRead ==
  ASSUME Typed, NEW b, Rough(b), BuildStep(b) PROVE Read(b)'
<1>1. Cur' = Cur
  BY QuietCur DEF BuildStep
<1> SUFFICES ASSUME NEW n \in Node, ninfo'[n].csig # None
             PROVE  /\ state'[n] = "done"
                    /\ n \in Target => ninfo'[n].csig = content'[n]
                    /\ n \in Source =>
                         /\ \E x \in Version : ninfo'[n].csig = Original(n, x) /\ b[n] <= x /\ x <= Cur[n]
                         /\ \E t \in Target : n \in Range(children'[t])
  BY <1>1 DEF Read
<1>2. ASSUME NEW t \in Target, n \in Range(children[t]) PROVE n \in Range(children'[t])
  <2>1. children[t] # <<>>
    BY <1>2 DEF Range
  <2> QED BY <1>2, <2>1 DEF BuildStep, Quiet
<1>3. CASE ninfo'[n].csig = ninfo[n].csig /\ (n \in Target => content'[n] = content[n] \/ ninfo[n].csig = None)
  <2>1. /\ state[n] = "done"
        /\ n \in Target => ninfo[n].csig = content[n]
        /\ n \in Source =>
             /\ \E x \in Version : ninfo[n].csig = Original(n, x) /\ b[n] <= x /\ x <= Cur[n]
             /\ \E t \in Target : n \in Range(children[t])
    BY <1>3 DEF Rough, Read
  <2>2. state'[n] = "done"
    BY <2>1 DEF BuildStep, Quiet
  <2> QED BY <1>2, <1>3, <2>1, <2>2
<1>4. CASE ninfo'[n].csig = GetCsig(n) /\ state[n] = "done" /\ \E t \in Target : n \in Range(children[t])
  <2>1. state'[n] = "done" /\ (n \in Target => content'[n] = content[n])
    BY <1>4 DEF BuildStep, Quiet
  <2>2. n \in Target => ninfo'[n].csig = content'[n]
    BY <1>4, <2>1, SigFacts
  <2>3. n \in Source => \E x \in Version : ninfo'[n].csig = Original(n, x) /\ b[n] <= x /\ x <= Cur[n]
    BY <1>4, SigFacts
  <2> QED BY <1>2, <1>4, <2>1, <2>2, <2>3
<1>5. CASE n \in Target /\ state'[n] = "done" /\ ninfo'[n].csig = content'[n]
  BY <1>5, NodeFacts
<1> QED BY <1>3, <1>4, <1>5 DEF BuildStep, SigStep

\* Where a source that includes something is read, the target was scanned that
\* depends on it: there is only one.
LEMMA OnlyOne ==
  ASSUME NEW b, Rough(b), NEW s \in Source, ~Plain(s), NEW t \in Target, s \in Range(Sources[t]),
         NEW u \in Target, s \in Range(children[u])
  PROVE  u = t
<1>1. PICK i \in DOMAIN children[u] : s = children[u][i]
  BY DEF Range
<1>2. children[u] # <<>>
  BY <1>1
<1>3. s \in Range(Sources[u])
  BY <1>1, <1>2, ChildFacts
<1>4. ASSUME u # t PROVE FALSE
  <2>1. s \in Source \cap Range(Sources[t]) \cap Range(Sources[u])
    BY <1>3
  <2>2. \A v \in Version : Includes[s][v] = <<>>
    BY <1>4, <2>1, SConsignAssumption
  <2> QED BY <2>2 DEF Plain
<1> QED BY <1>4

\* It keeps what is said of the scans.
LEMMA BuildStepScanned ==
  ASSUME Typed, NEW b, Rough(b), BuildStep(b) PROVE Scanned(b)'
<1>1. Cur' = Cur /\ Cur \in Vers
  BY QuietCur, CurFacts DEF BuildStep
<1>2. b \in Vers /\ AtMost(b, Cur) /\ AtMost(Cur, Cur)
  BY CurFacts, AtMostFacts DEF Rough, Based
<1> SUFFICES ASSUME NEW t \in Target, children'[t] # <<>> PROVE (\E v : ScannedAt(t, b, v))'
  BY DEF Scanned
<1>3. CASE children'[t] = children[t]
  <2>1. PICK v : ScannedAt(t, b, v)
    BY <1>3 DEF Rough, Scanned
  <2>2. v \in Vers /\ AtMost(b, v) /\ AtMost(v, Cur') /\ children'[t] = Listed(t, v)
    BY <1>1, <1>3, <2>1 DEF ScannedAt
  <2>3. ASSUME NEW s \in Source, s \in Range(Sources[t]), ~Plain(s), ninfo'[s].csig # None
        PROVE  \E x \in Version : ninfo'[s].csig = Original(s, x) /\ v[s] <= x
    <3>1. s \in Node /\ s \notin Target /\ drifted[s] = 0
      BY NodeFacts DEF Rough, Unread
    <3>2. CASE ninfo[s].csig # None
      <4>1. ninfo'[s].csig = ninfo[s].csig
        BY <3>1, <3>2 DEF BuildStep, Quiet
      <4> QED BY <2>1, <2>3, <3>2, <4>1 DEF ScannedAt
    <3>3. CASE ninfo[s].csig = None
      <4>1. ninfo'[s].csig = GetCsig(s)
        BY <2>3, <3>1, <3>3 DEF BuildStep, SigStep
      <4>2. GetCsig(s) = content[s]
        BY <3>1, <3>3, GetCsigFacts
      <4>3. content[s] = Original(s, Cur[s]) /\ Cur[s] \in Version
        BY <1>1, CurFacts, VersFacts
      <4>4. v[s] <= Cur[s]
        BY <2>1 DEF ScannedAt, AtMost
      <4> QED BY <4>1, <4>2, <4>3, <4>4
    <3> QED BY <3>2, <3>3
  <2>4. ScannedAt(t, b, v)'
    BY <2>2, <2>3 DEF ScannedAt
  <2> QED BY <2>4
<1>4. CASE children[t] = <<>> /\ children'[t] = Children(t) /\ \A n \in Node : ninfo'[n].csig = ninfo[n].csig
  <2>1. children'[t] = Listed(t, Cur)
    BY <1>4, ChildrenListed
  <2>2. ASSUME NEW s \in Source, s \in Range(Sources[t]), ~Plain(s) PROVE ninfo'[s].csig = None
    <3>1. s \in Node
      BY NodeFacts
    <3>2. ASSUME ninfo[s].csig # None PROVE FALSE
      <4>1. PICK u \in Target : s \in Range(children[u])
        BY <3>1, <3>2 DEF Rough, Read
      <4>2. u = t
        BY <2>2, <4>1, OnlyOne
      <4> QED BY <1>4, <4>1, <4>2 DEF Range
    <3> QED BY <1>4, <3>1, <3>2
  <2>3. PICK v : v = Cur
    OBVIOUS
  <2>4. v \in Vers /\ AtMost(b, v) /\ AtMost(v, Cur') /\ children'[t] = Listed(t, v)
    BY <1>1, <1>2, <2>1, <2>3
  <2>5. ScannedAt(t, b, v)'
    BY <2>2, <2>4 DEF ScannedAt
  <2> QED BY <2>5
<1> QED BY <1>3, <1>4 DEF BuildStep, ScanStep

\* It keeps all of the invariant.
LEMMA BuildStepKeeps ==
  ASSUME Typed, NEW b, Rough(b), BuildStep(b) PROVE Rough(b)'
<1>1. Cur' = Cur /\ pc # "idle" /\ pc' # "idle" /\ edited' = edited /\ drifted' = drifted
  BY QuietCur DEF BuildStep, Quiet
<1>11. pc' # "build" => \A t \in Target : state'[t] # "running"
  BY DEF BuildStep
<1>2. Based(b)' /\ Rested' /\ Unread'
  BY <1>1, <1>11 DEF Rough, Based, Rested, Unread
<1>3. Contents'
  <2> SUFFICES ASSUME NEW t \in Target
               PROVE \/ content'[t] = Absent \/ content'[t] = Partial(t)
                     \/ \E X : content'[t] = Product(t, X) /\ Known(Product(t, X), Cur)
    BY <1>1 DEF Contents
  <2>1. \/ content'[t] \in {content[t], Absent, Partial(t)}
        \/ \E X : content'[t] = Product(t, X) /\ Known(Product(t, X), Cur)
    BY DEF BuildStep, ContentStep
  <2>2. \/ content[t] = Absent \/ content[t] = Partial(t)
        \/ \E X : content[t] = Product(t, X) /\ Known(Product(t, X), Cur)
    BY DEF Rough, Contents
  <2> QED BY <2>1, <2>2
<1>4. Begun'
  <2> SUFFICES ASSUME NEW t \in Target, state'[t] \in {"running", "done"} PROVE Ready(t)'
    BY DEF Begun
  <2>1. state[t] \in {"running", "done"} \/ Ready(t)'
    BY DEF BuildStep
  <2>2. ASSUME state[t] \in {"running", "done"} PROVE Ready(t)'
    BY <2>2, QuietReady DEF Rough, Begun, BuildStep
  <2> QED BY <2>1, <2>2
<1>5. Finished(b)'
  <2> SUFFICES ASSUME NEW t \in Target, state'[t] = "done" PROVE Settles(t, b)'
    BY DEF Finished, Settles
  <2>1. state[t] = "done" \/ Settles(t, b)'
    BY DEF BuildStep
  <2>2. ASSUME state[t] = "done" PROVE Settles(t, b)'
    BY <2>2, QuietSettled DEF BuildStep
  <2> QED BY <2>1, <2>2
<1>6. Records(b)' /\ Read(b)' /\ Scanned(b)'
  BY BuildStepRecords, BuildStepRead, BuildStepScanned
<1> QED BY <1>2, <1>3, <1>4, <1>5, <1>6 DEF Rough

\* The step of a source that is visited is of this form.
LEMMA VisitSourceStep ==
  ASSUME Typed, NEW b, Rough(b), NEW s \in Source, VisitSource(s) PROVE BuildStep(b)
<1>1. s \in Node /\ s \notin Target /\ pc = "build" /\ state[s] = "none" /\ drifted[s] = 0
  BY NodeFacts DEF VisitSource, Reached, Rough, Unread
<1>2. state' = [state EXCEPT ![s] = "done"] /\ ninfo' = [ninfo EXCEPT ![s] = Visited(s)]
      /\ UNCHANGED <<world, disk, db, tmp, pc, children, stopped, edited>>
  BY DEF VisitSource
<1>3. Visited(s).csig = None
  BY <1>1, GetCsigFacts DEF Visited
<1>4. ninfo[s].csig = None
  BY <1>1 DEF Rough, Read
<1>5. \A n \in Node : ninfo'[n].csig = ninfo[n].csig
  BY <1>1, <1>2, <1>3, <1>4 DEF Typed
<1>6. state'[s] = "done" /\ \A n \in Node : n # s => state'[n] = state[n]
  BY <1>1, <1>2 DEF Typed, TypeOK
<1>7. \A t \in Target : state'[t] = state[t]
  BY <1>1, <1>6, NodeFacts
<1>8. content' = content /\ drifted' = drifted /\ db' = db /\ tmp' = tmp /\ pc' = pc
      /\ children' = children /\ edited' = edited
  BY <1>2 DEF disk
<1>9. Quiet
  BY <1>1, <1>5, <1>6, <1>8 DEF Quiet
<1>10. ContentStep /\ RecordStep(b) /\ SigStep /\ ScanStep
  BY <1>5, <1>7, <1>8 DEF ContentStep, RecordStep, SigStep, ScanStep
<1> QED BY <1>1, <1>7, <1>8, <1>9, <1>10 DEF BuildStep

\* So is a scan.
LEMMA ScanKeeps ==
  ASSUME Typed, NEW b, Rough(b), NEW t \in Target, Scan(t) PROVE BuildStep(b)
<1>1. pc = "build" /\ children[t] = <<>>
  BY DEF Scan, Reached
<1>2. children' = [children EXCEPT ![t] = Children(t)]
      /\ UNCHANGED <<world, disk, db, tmp, pc, state, stopped, edited>>
  BY DEF Scan
<1>3. ASSUME NEW n \in Node PROVE ninfo'[n].csig = ninfo[n].csig
  <2>1. PICK x : x = Stamp(n)
    OBVIOUS
  <2>2. ninfo[n] = [csig |-> ninfo[n].csig, stamp |-> ninfo[n].stamp]
    BY DEF Typed
  <2>3. ninfo'[n] = IF n \in Source \cap Range(Children(t)) THEN [ninfo[n] EXCEPT !.stamp = x] ELSE ninfo[n]
    BY <2>1 DEF Scan
  <2> QED BY <2>2, <2>3
<1>4. children'[t] = Children(t) /\ \A u \in Target : u # t => children'[u] = children[u]
  BY <1>2 DEF Typed
<1>5. content' = content /\ drifted' = drifted /\ db' = db /\ tmp' = tmp /\ pc' = pc
      /\ state' = state /\ edited' = edited
  BY <1>2 DEF disk
<1>6. Quiet
  BY <1>1, <1>3, <1>4, <1>5 DEF Quiet
<1>7. ContentStep /\ RecordStep(b) /\ SigStep /\ ScanStep
  BY <1>1, <1>3, <1>4, <1>5 DEF ContentStep, RecordStep, SigStep, ScanStep
<1> QED BY <1>1, <1>5, <1>6, <1>7 DEF BuildStep

\* What a visit and a preparation have in common: the signatures of all that
\* the target depends on.
LEMMA ConsideredStep ==
  ASSUME Typed, NEW b, Rough(b), NEW t \in Target, Considered(t),
         NEW w, w = WithCsigs(t)
  PROVE  /\ t \notin Range(children[t])
         /\ \A n \in Node : n \notin Range(children[t]) => w[n].csig = ninfo[n].csig
         /\ \A n \in Node : n \in Range(children[t]) => w[n].csig = GetCsig(n) /\ state[n] = "done"
         /\ \A n \in Node : ninfo[n].csig # None => w[n].csig = ninfo[n].csig
         /\ \A n \in Node : n \in Range(children[t]) => GetCsig(n) # None
<1>1. ChildrenDone(t) /\ state[t] = "none" /\ \A n \in Range(children[t]) : state[n] = "done"
  BY ConsideredFacts DEF Considered
<1>2. \A n \in Node :
        /\ n \in Range(children[t]) => w[n].csig = GetCsig(n)
        /\ n \notin Range(children[t]) => w[n].csig = ninfo[n].csig
  BY WithCsigsFacts
<1>3. ASSUME NEW n \in Node, ninfo[n].csig # None PROVE w[n].csig = ninfo[n].csig
  <2>1. GetCsig(n) = ninfo[n].csig
    BY <1>3, GetCsigFacts DEF Rough, Unread
  <2> QED BY <1>2, <2>1
<1>4. ASSUME NEW n \in Node, n \in Range(children[t]) PROVE GetCsig(n) # None
  <2>1. state[n] = "done"
    BY <1>1, <1>4
  <2>2. CASE n \in Source
    BY <2>1, <2>2, SigFacts, OriginalOnly
  <2>3. CASE n \in Target
    <3>1. GetCsig(n) = content[n] /\ IsProduct(n)
      BY <2>1, <2>3, SigFacts DEF Rough, Finished
    <3> QED BY <3>1, ProductOnly DEF IsProduct
  <2> QED BY <2>2, <2>3, NodeFacts
<1> QED BY <1>1, <1>2, <1>3, <1>4

\* So is that a target is passed as up to date.
LEMMA VisitTargetStep ==
  ASSUME Typed, Typed', NEW b, Rough(b), NEW t \in Target, VisitTarget(t) PROVE BuildStep(b)
<1>1. t \in Node /\ pc = "build" /\ state[t] = "none" /\ ChildrenDone(t) /\ Considered(t)
      /\ IsUpToDate(t) /\ drifted[t] = 0
  BY NodeFacts, ConsideredFacts DEF VisitTarget, Rough, Unread
<1>2. PICK w : w = WithCsigs(t)
  OBVIOUS
<1>3. state' = [state EXCEPT ![t] = "done"] /\ ninfo' = [w EXCEPT ![t] = Visited(t)]
      /\ UNCHANGED <<world, disk, db, tmp, pc, children, stopped, edited>>
  BY <1>2 DEF VisitTarget
<1>4. content' = content /\ drifted' = drifted /\ db' = db /\ tmp' = tmp /\ pc' = pc
      /\ children' = children /\ edited' = edited
  BY <1>3 DEF disk
<1>5. state'[t] = "done" /\ \A n \in Node : n # t => state'[n] = state[n]
  BY <1>1, <1>3 DEF Typed, TypeOK
<1>6. Visited(t).csig = None /\ ninfo[t].csig = None
  BY <1>1, GetCsigFacts DEF Visited, Rough, Read
<1>7. ninfo'[t].csig = None /\ \A n \in Node : n # t => ninfo'[n].csig = w[n].csig
  <2>1. w = [n \in Node |-> w[n]]
    BY <1>2, WithCsigsFacts
  <2> QED BY <1>1, <1>3, <1>6, <2>1
<1>8. t \notin Range(children[t])
  BY <1>1, <1>2, ConsideredStep
<1>9. ASSUME NEW n \in Node
      PROVE  /\ n \in Range(children[t]) => ninfo'[n].csig = GetCsig(n) /\ state[n] = "done" /\ GetCsig(n) # None
             /\ n \notin Range(children[t]) => ninfo'[n].csig = ninfo[n].csig
             /\ ninfo[n].csig # None => ninfo'[n].csig = ninfo[n].csig
  BY <1>1, <1>2, <1>6, <1>7, <1>8, ConsideredStep
<1>10. Quiet
  BY <1>4, <1>5, <1>9 DEF Quiet
<1>11. SigStep /\ ContentStep /\ ScanStep /\ RecordStep(b)
  <2>1. SigStep
    BY <1>4, <1>9 DEF SigStep
  <2>2. ContentStep /\ ScanStep
    BY <1>4 DEF ContentStep, ScanStep
  <2>3. RecordStep(b)
    BY <1>1, <1>4, <1>5, NodeFacts DEF RecordStep
  <2> QED BY <2>1, <2>2, <2>3
<1>12. ASSUME NEW i \in DOMAIN children[t]
       PROVE  /\ state'[children[t][i]] = "done" /\ ninfo'[children[t][i]].csig # None
              /\ ninfo'[children[t][i]].csig = GetCsig(children[t][i])
  <2>1. PICK n : n = children[t][i]
    OBVIOUS
  <2>2. n \in Node /\ n \in Range(children[t])
    BY <1>1, <2>1, ChildFacts DEF ChildrenDone, Range
  <2>3. state[n] = "done" /\ n # t
    BY <1>1, <1>9, <2>2
  <2> QED BY <1>5, <1>9, <2>1, <2>2, <2>3
<1>13. Ready(t)'
  BY <1>1, <1>4, <1>12 DEF Ready, ChildrenDone
<1>14. Settles(t, b)'
  <2>1. content[t] = Product(t, Now(t)) /\ Newest(t, b) /\ NotOlder(t, b) /\ Current(t)
    BY <1>1, VisitFacts
  <2>2. Cur' = Cur /\ Result(t)' = Result(t) /\ Children(t)' = Children(t)
    BY <1>1, <1>10, QuietCur, QuietResult
  <2>3. Sigs(t)' = Now(t)
    BY <1>4, <1>12 DEF Sigs, Now
  <2>4. PICK X : X = Now(t)
    OBVIOUS
  <2>5. content'[t] = Product(t, X) /\ Sigs(t)' = X
    BY <1>4, <2>1, <2>3, <2>4
  <2>6. Remembered(t)'
    BY <2>5 DEF Remembered, Product
  <2>7. IsProduct(t)'
    BY <2>5 DEF IsProduct
  <2>8. Newest(t, b)' /\ NotOlder(t, b)'
    BY <1>4, <2>1, <2>2 DEF Newest, NotOlder
  <2>9. Current(t)'
    BY <1>4, <2>1, <2>2 DEF Current
  <2> QED BY <2>6, <2>7, <2>8, <2>9 DEF Settles
<1>15. \A u \in Target : u # t => state'[u] = state[u]
  BY <1>5, NodeFacts
<1> QED BY <1>1, <1>4, <1>10, <1>11, <1>13, <1>14, <1>15 DEF BuildStep

\* So is that a target is removed to be made.
LEMMA PrepareStep ==
  ASSUME Typed, NEW b, Rough(b), NEW t \in Target, Prepare(t) PROVE BuildStep(b)
<1>1. t \in Node /\ t \notin Source /\ pc = "build" /\ state[t] = "none" /\ ChildrenDone(t) /\ Considered(t)
      /\ ~IsUpToDate(t)
  BY NodeFacts, ConsideredFacts DEF Prepare
<1>2. PICK w : w = WithCsigs(t)
  OBVIOUS
<1>3. state' = [state EXCEPT ![t] = "running"] /\ ninfo' = w
      /\ content' = [content EXCEPT ![t] = Absent]
      /\ UNCHANGED <<world, mtime, drifted, db, tmp, pc, children, stopped, edited>>
  BY <1>2 DEF Prepare, Prepared
<1>4. drifted' = drifted /\ db' = db /\ tmp' = tmp /\ pc' = pc /\ children' = children /\ edited' = edited
  BY <1>3
<1>5. state'[t] = "running" /\ \A n \in Node : n # t => state'[n] = state[n]
  BY <1>1, <1>3 DEF Typed, TypeOK
<1>6. content'[t] = Absent /\ \A n \in Node : n # t => content'[n] = content[n]
  BY <1>1, <1>3 DEF Typed
<1>7. ninfo[t].csig = None /\ t \notin Range(children[t])
  BY <1>1, <1>2, ConsideredStep DEF Rough, Read
<1>8. ASSUME NEW n \in Node
      PROVE  /\ n \in Range(children[t]) => ninfo'[n].csig = GetCsig(n) /\ state[n] = "done" /\ GetCsig(n) # None
             /\ n \notin Range(children[t]) => ninfo'[n].csig = ninfo[n].csig
             /\ ninfo[n].csig # None => ninfo'[n].csig = ninfo[n].csig
  BY <1>1, <1>2, <1>3, ConsideredStep
<1>9. Quiet
  BY <1>1, <1>4, <1>5, <1>6, <1>8, NodeFacts DEF Quiet
<1>10. SigStep
  <2> SUFFICES ASSUME NEW n \in Node
      PROVE \/ /\ ninfo'[n].csig = ninfo[n].csig
               /\ n \in Target => content'[n] = content[n] \/ ninfo[n].csig = None
            \/ /\ ninfo'[n].csig = GetCsig(n) /\ state[n] = "done"
               /\ \E u \in Target : n \in Range(children[u])
    BY DEF SigStep
  <2> QED BY <1>6, <1>7, <1>8
<1>11. ContentStep /\ ScanStep
  BY <1>4, <1>6, NodeFacts DEF ContentStep, ScanStep
<1>12. RecordStep(b)
  <2>1. Recorded(t, content'[t], db[t].deps, b, Cur)
    BY <1>1, PrepareFacts
  <2> QED BY <1>5, <1>6, <2>1, NodeFacts DEF RecordStep
<1>13. Ready(t)'
  <2>1. ASSUME NEW i \in DOMAIN children[t]
        PROVE  state'[children[t][i]] = "done" /\ ninfo'[children[t][i]].csig # None
    <3>1. PICK n : n = children[t][i]
      OBVIOUS
    <3>2. n \in Node /\ n \in Range(children[t])
      BY <1>1, <3>1, ChildFacts DEF ChildrenDone, Range
    <3>3. state[n] = "done" /\ n # t
      BY <1>1, <1>8, <3>2
    <3> QED BY <1>5, <1>8, <3>1, <3>2, <3>3
  <2> QED BY <1>1, <1>4, <2>1 DEF Ready, ChildrenDone
<1>14. \A u \in Target : u # t => state'[u] = state[u]
  BY <1>5, NodeFacts
<1> QED BY <1>1, <1>4, <1>5, <1>9, <1>10, <1>11, <1>12, <1>13, <1>14 DEF BuildStep


\* So is the end of a command.
LEMMA BuiltStep ==
  ASSUME Typed, NEW b, Rough(b), NEW t \in Target, Built(t) PROVE BuildStep(b)
<1>1. t \in Node /\ t \notin Source /\ pc = "build" /\ state[t] = "running"
  BY NodeFacts DEF Built, Rough, Rested
<1>2. PICK r : r = Result(t)
  OBVIOUS
<1>3. /\ content' = [content EXCEPT ![t] = r] /\ state' = [state EXCEPT ![t] = "done"]
      /\ ninfo' = [ninfo EXCEPT ![t] = [csig |-> r, stamp |-> mtime[t] + 1]]
      /\ UNCHANGED <<world, drifted, db, tmp, pc, children, stopped, edited>>
  BY <1>2 DEF Built
<1>4. drifted' = drifted /\ db' = db /\ tmp' = tmp /\ pc' = pc /\ children' = children /\ edited' = edited
  BY <1>3
<1>5. state'[t] = "done" /\ \A n \in Node : n # t => state'[n] = state[n]
  BY <1>1, <1>3 DEF Typed, TypeOK
<1>6. content'[t] = r /\ \A n \in Node : n # t => content'[n] = content[n]
  BY <1>1, <1>3 DEF Typed
<1>7. ninfo'[t].csig = r /\ \A n \in Node : n # t => ninfo'[n].csig = ninfo[n].csig
  BY <1>1, <1>3 DEF Typed
<1>8. ninfo[t].csig = None
  BY <1>1 DEF Rough, Read
<1>9. Ready(t) /\ ChildrenDone(t) /\ Sigs(t) = Now(t)
  BY <1>1, NowSigs, ReadyDone DEF Rough, Begun
<1>10. Quiet
  BY <1>1, <1>4, <1>5, <1>6, <1>7, <1>8, NodeFacts DEF Quiet
<1>11. SigStep
  <2> SUFFICES ASSUME NEW n \in Node
      PROVE \/ /\ ninfo'[n].csig = ninfo[n].csig
               /\ n \in Target => content'[n] = content[n] \/ ninfo[n].csig = None
            \/ n \in Target /\ state'[n] = "done" /\ ninfo'[n].csig = content'[n]
    BY DEF SigStep
  <2> QED BY <1>5, <1>6, <1>7
<1>12. r = Product(t, Inputs(t)) /\ Known(r, Cur)
  BY <1>2, <1>9, ResultFacts
<1>13. ContentStep /\ ScanStep
  BY <1>4, <1>6, <1>12, NodeFacts DEF ContentStep, ScanStep
<1>14. RecordStep(b)
  <2>1. Recorded(t, content[t], db[t].deps, b, Cur)
    BY <1>1 DEF Rough, Records
  <2>2. content[t] = Absent
    BY <1>1 DEF Typed, TypeOK
  <2>3. content[t] # Product(t, db[t].deps)
    BY <2>2, ProductOnly
  <2>4. Recorded(t, content'[t], db[t].deps, b, Cur)
    BY <2>1, <2>3 DEF Recorded
  <2> QED BY <1>5, <1>6, <2>4, NodeFacts DEF RecordStep
<1>15. Settles(t, b)'
  <2>1. Cur' = Cur /\ Result(t)' = Result(t)
    BY <1>9, <1>10, QuietCur, QuietResult
  <2>2. IsProduct(t)'
    BY <1>6, <1>12 DEF IsProduct
  <2>3. Newest(t, b)' /\ NotOlder(t, b)'
    BY <1>2, <1>6, <1>9, <2>1, ResultFacts DEF Newest, NotOlder
  <2>4. Remembered(t)'
    <3>1. PICK X : X = Sigs(t)
      OBVIOUS
    <3>2. r = Product(t, X) \/ Dead(t, X, Cur)
      BY <1>2, <1>9, <3>1, BuiltFacts
    <3>3. Sigs(t)' = X
      BY <1>9, <1>10, <3>1, QuietReady
    <3>4. Remembered(t)' <=> content'[t] = Product(t, X) \/ Dead(t, X, Cur')
      BY <3>3 DEF Remembered, Dead, Product, Fresh, From, Coherent, Between, Made, Fits, Shaped, OfNode
    <3> QED BY <1>6, <2>1, <3>2, <3>4
  <2>5. Current(t)'
    BY <1>2, <1>6, <2>1 DEF Current
  <2> QED BY <2>2, <2>3, <2>4, <2>5 DEF Settles
<1>16. \A u \in Target : u # t => state'[u] = state[u]
  BY <1>5, NodeFacts
<1>17. pc' = "build"
  BY <1>1, <1>4
<1> QED BY <1>1, <1>4, <1>10, <1>11, <1>13, <1>14, <1>15, <1>16, <1>17 DEF BuildStep

\* So is its failure.
LEMMA FailedStep ==
  ASSUME Typed, NEW b, Rough(b), NEW t \in Target, Failed(t) PROVE BuildStep(b)
<1>1. t \in Node /\ t \notin Source /\ pc = "build" /\ state[t] = "running"
  BY NodeFacts DEF Failed, Rough, Rested
<1>2. /\ state' = [state EXCEPT ![t] = "failed"]
      /\ UNCHANGED <<drifted, db, tmp, pc, children, ninfo, edited>>
      /\ content' = content \/ content' = [content EXCEPT ![t] = Partial(t)]
  BY DEF Failed, disk
<1>3. drifted' = drifted /\ db' = db /\ tmp' = tmp /\ pc' = pc /\ children' = children /\ edited' = edited
      /\ ninfo' = ninfo
  BY <1>2
<1>4. state'[t] = "failed" /\ \A n \in Node : n # t => state'[n] = state[n]
  BY <1>1, <1>2 DEF Typed, TypeOK
<1>5. content'[t] \in {content[t], Partial(t)} /\ \A n \in Node : n # t => content'[n] = content[n]
  BY <1>1, <1>2 DEF Typed
<1>6. Quiet
  BY <1>1, <1>3, <1>4, <1>5, NodeFacts DEF Quiet
<1>7. ninfo[t].csig = None
  BY <1>1 DEF Rough, Read
<1>8. SigStep /\ ContentStep /\ ScanStep
  BY <1>3, <1>5, <1>7, NodeFacts DEF SigStep, ContentStep, ScanStep
<1>9. RecordStep(b)
  <2>1. Recorded(t, content[t], db[t].deps, b, Cur)
    BY <1>1 DEF Rough, Records
  <2>2. content[t] = Absent
    BY <1>1 DEF Typed, TypeOK
  <2>3. content[t] # Product(t, db[t].deps)
    BY <2>2, ProductOnly
  <2>4. Recorded(t, content'[t], db[t].deps, b, Cur)
    BY <2>1, <2>3 DEF Recorded
  <2> QED BY <1>4, <1>5, <2>4, NodeFacts DEF RecordStep
<1>10. \A u \in Target : u # t => state'[u] = state[u]
  BY <1>4, NodeFacts
<1>11. pc' = "build"
  BY <1>1, <1>3
<1> QED BY <1>1, <1>3, <1>4, <1>6, <1>8, <1>9, <1>10, <1>11 DEF BuildStep

\* So is the end of a build, by itself or by an interrupt.
LEMMA StopStep ==
  ASSUME NEW b, Rough(b), Stop \/ EndBuild PROVE BuildStep(b)
<1>1. content' = content /\ drifted' = drifted /\ db' = db /\ tmp' = tmp /\ children' = children
      /\ edited' = edited /\ ninfo' = ninfo /\ state' = state /\ pc = "build"
  BY DEF Stop, EndBuild, disk, memory
<1>2. pc' = "build" \/ (pc' = "write" /\ \A t \in Target : state'[t] # "running")
  BY <1>1 DEF Stop, EndBuild
<1>3. Quiet /\ SigStep /\ ContentStep /\ ScanStep /\ RecordStep(b)
  BY <1>1 DEF Quiet, SigStep, ContentStep, ScanStep, RecordStep
<1> QED BY <1>1, <1>2, <1>3 DEF BuildStep

-----------------------------------------------------------------------------
(* Between builds, at the end of one, and edits.                           *)

LEMMA IdleRough ==
  ASSUME NEW d \in Vers, Cur' = d, pc' = "idle",
         \A n \in Node : state'[n] = "none" /\ ninfo'[n].csig = None,
         \A t \in Target : children'[t] = <<>>,
         Unread', Contents',
         \A t \in Target : Recorded(t, content'[t], db'[t].deps, d, d)
  PROVE  Rough(d)'
<1>1. Based(d)' /\ Rested'
  BY AtMostFacts, NodeFacts DEF Based, Rested
<1>2. Records(d)'
  BY DEF Records
<1>3. Read(d)' /\ Scanned(d)'
  BY DEF Read, Scanned
<1>4. Begun' /\ Finished(d)'
  BY NodeFacts DEF Begun, Finished
<1> QED BY <1>1, <1>2, <1>3, <1>4 DEF Rough

\* An edit does not change where targets come from.
LEMMA ContentsLater ==
  ASSUME Contents, Cur \in Vers, Cur' \in Vers, AtMost(Cur, Cur'),
         \A t \in Target : content'[t] = content[t]
  PROVE  Contents'
<1> SUFFICES ASSUME NEW t \in Target
             PROVE \/ content'[t] = Absent \/ content'[t] = Partial(t)
                   \/ \E X : content'[t] = Product(t, X) /\ Known(Product(t, X), Cur')
  BY DEF Contents
<1>1. PICK v, w : v = Cur /\ w = Cur'
  OBVIOUS
<1>2. ASSUME NEW X, Known(Product(t, X), v) PROVE Known(Product(t, X), w)
  BY <1>1, <1>2, KnownLater
<1> QED BY <1>1, <1>2 DEF Contents

\* What an edit does, if it makes no older version.
LEMMA EditFacts ==
  ASSUME Typed, Typed', NEW s \in Source, Edit(s), ~world.reverts
  PROVE  /\ Cur' \in Vers /\ AtMost(Cur, Cur')
         /\ \A u \in Source : u # s => Cur'[u] = Cur[u] /\ content'[u] = content[u]
         /\ \A t \in Target : content'[t] = content[t]
         /\ UNCHANGED <<drifted, db, tmp, pc, state, children, ninfo>>
         /\ edited \subseteq edited'
         /\ pc # "idle" /\ Cur'[s] # Cur[s] => s \in edited'
         /\ Cur'[s] = Cur[s] => content' = content
<1>1. PICK v \in Version :
        /\ v \in {content[s].version, content[s].version + 1} \/ world.reverts
        /\ content' = [content EXCEPT ![s] = Original(s, v)]
        /\ edited' = IF v # content[s].version /\ pc # "idle" THEN edited \cup {s} ELSE edited
  BY DEF Edit
<1>2. s \in Node /\ s \notin Target /\ Cur[s] = content[s].version
  BY NodeFacts DEF Cur
<1>3. content'[s] = Original(s, v) /\ \A n \in Node : n # s => content'[n] = content[n]
  BY <1>1, <1>2 DEF Typed
<1>4. Cur'[s] = v
  BY <1>3, VersionOf DEF Cur
<1>5. ASSUME NEW u \in Source, u # s PROVE Cur'[u] = Cur[u] /\ content'[u] = content[u]
  BY <1>3, <1>5, NodeFacts DEF Cur
<1>6. Cur' = [u \in Source |-> Cur'[u]]
  BY DEF Cur
<1>7. Cur \in Vers
  BY CurFacts
<1>8. ASSUME NEW u \in Source PROVE Cur'[u] \in Version /\ Cur[u] <= Cur'[u]
  <2>1. Cur[u] \in Version /\ Cur[u] \in Nat
    BY <1>7, VersFacts
  <2>2. v \in Nat /\ (u = s => v \in {Cur[u], Cur[u] + 1})
    BY <1>1, <1>2 DEF Version
  <2> QED BY <1>4, <1>5, <2>1, <2>2
<1>9. Cur' \in Vers
  BY <1>6, <1>8 DEF Vers
<1>10. UNCHANGED <<drifted, db, tmp, pc, state, children, ninfo>>
  BY DEF Edit, memory
<1>11. ASSUME Cur'[s] = Cur[s] PROVE content' = content
  <2>1. v = Cur[s]
    BY <1>4, <1>11
  <2>2. content[s] = Original(s, v)
    BY <2>1, CurFacts
  <2> QED BY <1>1, <2>2 DEF Typed
<1> QED BY <1>1, <1>2, <1>3, <1>4, <1>5, <1>8, <1>9, <1>10, <1>11, NodeFacts DEF AtMost

\* An edit between builds: the versions go on with it.
LEMMA EditIdle ==
  ASSUME Typed, Typed', NEW b, Rough(b), NEW s \in Source, Edit(s), ~world.reverts, pc = "idle"
  PROVE  \E d : Rough(d)'
<1>1. PICK d : d = Cur'
  OBVIOUS
<1>2. /\ Cur' \in Vers /\ AtMost(Cur, Cur') /\ \A t \in Target : content'[t] = content[t]
      /\ UNCHANGED <<drifted, db, tmp, pc, state, children, ninfo>>
  BY EditFacts
<1>3. Cur \in Vers /\ b = Cur
  BY CurFacts DEF Rough, Based
<1>4. /\ \A n \in Node : state[n] = "none" /\ ninfo[n].csig = None
      /\ \A t \in Target : children[t] = <<>>
  BY DEF Rough, Rested
<1>5. Unread' /\ Contents'
  BY <1>2, <1>3, ContentsLater DEF Rough, Unread
<1>6. ASSUME NEW t \in Target PROVE Recorded(t, content'[t], db'[t].deps, d, d)
  <2>1. Recorded(t, content[t], db[t].deps, b, b)
    BY <1>4, NodeFacts DEF Rough, Records
  <2>2. b \in Vers /\ d \in Vers /\ AtMost(b, d)
    BY <1>1, <1>2, <1>3
  <2>3. Recorded(t, content[t], db[t].deps, d, d)
    BY <2>1, <2>2, RecordedLater
  <2> QED BY <1>2, <2>3
<1>7. Rough(d)'
  BY <1>1, <1>2, <1>4, <1>5, <1>6, IdleRough
<1> QED BY <1>7

\* Whether what t depends on was edited, an edit does not undo.
LEMMA EditCurrent ==
  ASSUME Typed, Typed', NEW b, Rough(b), NEW s \in Source, Edit(s), ~world.reverts, pc # "idle",
         NEW t \in Target, state[t] = "done"
  PROVE  Current(t)'
<1>1. /\ Cur' \in Vers /\ \A u \in Source : u # s => Cur'[u] = Cur[u] /\ content'[u] = content[u]
      /\ \A u \in Target : content'[u] = content[u]
      /\ edited \subseteq edited' /\ (Cur'[s] # Cur[s] => s \in edited')
      /\ (Cur'[s] = Cur[s] => content' = content)
  BY EditFacts
<1>2. Cur \in Vers /\ Children(t) = Listed(t, Cur)
  BY CurFacts, ChildrenListed
<1>3. Children(t)' = Listed(t, Cur')
  <2>1. ASSUME NEW i \in DOMAIN Sources[t]
        PROVE  IncludedAt(Sources[t][i], Cur') = Included(Sources[t][i])'
    BY DEF IncludedAt, Included, Cur
  <2>2. [i \in DOMAIN Sources[t] |-> Included(Sources[t][i])]' = Parts(t, Cur')
    BY <2>1 DEF Parts
  <2> QED BY <2>2 DEF Listed, Children
<1>4. PICK v, w : v = Cur /\ w = Cur'
  OBVIOUS
<1>5. v \in Vers /\ w \in Vers
  BY <1>1, <1>2, <1>4
<1>6. CASE Cur'[s] = Cur[s]
  <2>1. content' = content
    BY <1>1, <1>6
  <2>2. Result(t)' = Result(t) /\ Children(t)' = Children(t)
    BY <2>1 DEF Result, Children, Included, Product
  <2>3. Current(t)
    BY DEF Rough, Finished
  <2> QED BY <1>1, <2>1, <2>2, <2>3 DEF Current
<1>7. CASE Cur'[s] # Cur[s]
  <2>1. s \in edited'
    BY <1>1, <1>7
  <2>2. CASE s \in Range(Sources[t])
    <3>1. PICK i \in DOMAIN Sources[t] : s = Sources[t][i]
      BY <2>2 DEF Range
    <3>2. i \in DOMAIN Listed(t, w) /\ Listed(t, w)[i] = s
      BY <1>5, <3>1, ListedFacts
    <3>3. s \in Range(Children(t)')
      BY <1>3, <1>4, <3>2 DEF Range
    <3> QED BY <2>1, <3>3 DEF Current, Range
  <2>3. CASE s \notin Range(Sources[t])
    <3>1. \A u \in Source : u \in Range(Sources[t]) /\ ~Plain(u) => v[u] = w[u]
      BY <1>1, <1>4, <2>3
    <3>2. Listed(t, v) = Listed(t, w)
      BY <1>5, <3>1, ListedSame
    <3>3. Children(t)' = Children(t)
      BY <1>2, <1>3, <1>4, <3>2
    <3>4. PICK L : L = Children(t)
      OBVIOUS
    <3>5. CASE s \in Range(L)
      BY <2>1, <3>3, <3>4, <3>5 DEF Current, Range
    <3>6. CASE s \notin Range(L)
      <4>1. ChildrenDone(t) /\ Current(t)
        BY ReadyDone DEF Rough, Begun, Finished
      <4>2. ASSUME NEW i \in DOMAIN L PROVE content'[L[i]] = content[L[i]]
        <5>1. L[i] \in Source \/ L[i] \in Target
          BY <3>4, <4>1, InputsDone
        <5>2. L[i] # s
          BY <3>6 DEF Range
        <5> QED BY <1>1, <5>1, <5>2
      <4>3. [i \in DOMAIN L |-> content'[L[i]]] = [i \in DOMAIN L |-> content[L[i]]]
        BY <4>2
      <4>4. Result(t)' = Result(t)
        <5>1. Result(t)' = Product(t, [i \in DOMAIN L |-> content'[L[i]]])
          BY <3>3, <3>4 DEF Result, Product
        <5>2. Result(t) = Product(t, [i \in DOMAIN L |-> content[L[i]]])
          BY <3>4 DEF Result
        <5> QED BY <4>3, <5>1, <5>2
      <4> QED BY <1>1, <3>3, <4>1, <4>4 DEF Current
    <3> QED BY <3>5, <3>6
  <2> QED BY <2>2, <2>3
<1> QED BY <1>6, <1>7


\* An edit during a build: the versions at its beginning stay.
LEMMA EditBuild ==
  ASSUME Typed, Typed', NEW b, Rough(b), NEW s \in Source, Edit(s), ~world.reverts, pc # "idle"
  PROVE  Rough(b)'
<1>1. /\ Cur' \in Vers /\ AtMost(Cur, Cur')
      /\ \A u \in Source : u # s => Cur'[u] = Cur[u]
      /\ \A t \in Target : content'[t] = content[t]
      /\ UNCHANGED <<drifted, db, tmp, pc, state, children, ninfo>>
      /\ edited \subseteq edited' /\ (Cur'[s] # Cur[s] => s \in edited')
  BY EditFacts
<1>2. b \in Vers /\ Cur \in Vers /\ AtMost(b, Cur) /\ AtMost(b, b) /\ AtMost(b, Cur')
  <2>1. b \in Vers /\ Cur \in Vers /\ AtMost(b, Cur)
    BY CurFacts DEF Rough, Based
  <2>2. PICK v, w : v = Cur /\ w = Cur'
    OBVIOUS
  <2>3. AtMost(b, w)
    BY <1>1, <2>1, <2>2, AtMostFacts
  <2> QED BY <2>1, <2>2, <2>3, AtMostFacts
<1>3. PICK v, w : v = Cur /\ w = Cur'
  OBVIOUS
<1>4. v \in Vers /\ w \in Vers /\ AtMost(v, w) /\ AtMost(b, v) /\ AtMost(b, w)
  BY <1>1, <1>2, <1>3
<1>5. ASSUME NEW u \in Source PROVE v[u] <= w[u] /\ v[u] \in Nat /\ w[u] \in Nat
  BY <1>4, VersFacts DEF AtMost
<1>6. Based(b)'
  <2>1. ASSUME NEW u \in Source, u \notin edited' PROVE b[u] = Cur'[u]
    <3>1. u \notin edited /\ Cur'[u] = Cur[u]
      BY <1>1, <2>1
    <3> QED BY <3>1 DEF Rough, Based
  <2> QED BY <1>1, <1>2, <2>1 DEF Based
<1>7. Rested' /\ Unread' /\ Contents'
  BY <1>1, <1>2, ContentsLater DEF Rough, Rested, Unread
<1>8. Records(b)'
  <2>1. ASSUME NEW t \in Target, NEW c, NEW D, Recorded(t, c, D, b, v) PROVE Recorded(t, c, D, b, w)
    BY <1>2, <1>4, <2>1, RecordedLater
  <2>2. ASSUME NEW t \in Target, NEW c, NEW D, Recorded(t, c, D, v, v) PROVE Recorded(t, c, D, w, w)
    BY <1>4, <2>2, RecordedLater
  <2>3. ASSUME NEW t \in Target
        PROVE  /\ state'[t] = "none" => Recorded(t, content'[t], db'[t].deps, b, b)
               /\ state'[t] # "none" => Recorded(t, content'[t], db'[t].deps, b, w)
               /\ pc' = "unlinked" => Recorded(t, content'[t], tmp'[t].deps, w, w)
    <3>1. content'[t] = content[t] /\ db' = db /\ tmp' = tmp /\ pc' = pc /\ state' = state
      BY <1>1
    <3>2. /\ state[t] = "none" => Recorded(t, content[t], db[t].deps, b, b)
          /\ state[t] # "none" => Recorded(t, content[t], db[t].deps, b, v)
          /\ pc = "unlinked" => Recorded(t, content[t], tmp[t].deps, v, v)
      BY <1>3 DEF Rough, Records
    <3> QED BY <2>1, <2>2, <3>1, <3>2
  <2> QED BY <1>3, <2>3 DEF Records
<1>9. Read(b)'
  <2>1. ASSUME NEW n \in Node, ninfo'[n].csig # None
        PROVE  /\ state'[n] = "done"
               /\ n \in Target => ninfo'[n].csig = content'[n]
               /\ n \in Source =>
                    /\ \E x \in Version : ninfo'[n].csig = Original(n, x) /\ b[n] <= x /\ x <= w[n]
                    /\ \E t \in Target : n \in Range(children'[t])
    <3>1. /\ state[n] = "done"
          /\ n \in Target => ninfo[n].csig = content[n]
          /\ n \in Source =>
               /\ \E x \in Version : ninfo[n].csig = Original(n, x) /\ b[n] <= x /\ x <= v[n]
               /\ \E t \in Target : n \in Range(children[t])
      BY <1>1, <1>3, <2>1 DEF Rough, Read
    <3>2. ASSUME n \in Source, NEW x \in Version, x <= v[n] PROVE x <= w[n]
      <4>1. x \in Nat
        BY DEF Version
      <4> QED BY <1>5, <3>2, <4>1
    <3> QED BY <1>1, <3>1, <3>2
  <2> QED BY <1>3, <2>1 DEF Read
<1>10. Scanned(b)'
  <2> SUFFICES ASSUME NEW t \in Target, children'[t] # <<>> PROVE (\E x : ScannedAt(t, b, x))'
    BY DEF Scanned
  <2>1. PICK x : ScannedAt(t, b, x)
    BY <1>1 DEF Rough, Scanned
  <2>2. x \in Vers /\ AtMost(b, x) /\ AtMost(x, v) /\ children[t] = Listed(t, x)
    BY <1>3, <2>1 DEF ScannedAt
  <2>3. AtMost(x, w)
    BY <1>4, <2>2, AtMostFacts
  <2>4. ScannedAt(t, b, x)'
    BY <1>1, <1>3, <2>1, <2>2, <2>3 DEF ScannedAt
  <2> QED BY <2>4
<1>11. Begun'
  BY <1>1 DEF Rough, Begun, Ready
<1>12. Finished(b)'
  <2> SUFFICES ASSUME NEW t \in Target, state'[t] = "done"
               PROVE  (IsProduct(t) /\ Newest(t, b) /\ NotOlder(t, b) /\ Remembered(t) /\ Current(t))'
    BY DEF Finished
  <2>1. state[t] = "done" /\ content'[t] = content[t] /\ Sigs(t)' = Sigs(t)
    BY <1>1 DEF Sigs
  <2>2. IsProduct(t) /\ Newest(t, b) /\ NotOlder(t, b) /\ Remembered(t)
    BY <2>1 DEF Rough, Finished
  <2>3. IsProduct(t)' /\ NotOlder(t, b)'
    BY <2>1, <2>2 DEF IsProduct, NotOlder
  <2>4. Newest(t, b)'
    <3>1. ASSUME NEW X, Fresh(Product(t, X), b), Fresh(Product(t, X), w) PROVE content[t] = Product(t, X)
      <4>1. Known(Product(t, X), b)
        BY <1>4, <1>2, <3>1, FreshKnown
      <4>2. Fresh(Product(t, X), v)
        BY <1>2, <1>4, <3>1, <4>1, FreshBetween
      <4> QED BY <1>3, <2>2, <3>1, <4>2 DEF Newest
    <3> QED BY <1>3, <2>1, <3>1 DEF Newest
  <2>5. Remembered(t)'
    <3>1. PICK X : X = Sigs(t)
      OBVIOUS
    <3>2. content[t] = Product(t, X) \/ Dead(t, X, v)
      BY <1>3, <2>2, <3>1 DEF Remembered
    <3>3. Dead(t, X, v) => Dead(t, X, w)
      BY <1>4, DeadLater
    <3>4. Remembered(t)' <=> content'[t] = Product(t, X) \/ Dead(t, X, Cur')
      BY <2>1, <3>1 DEF Remembered, Dead, Product, Fresh, From, Coherent, Between, Made, Fits, Shaped, OfNode
    <3> QED BY <1>3, <2>1, <3>2, <3>3, <3>4
  <2>6. Current(t)'
    BY <2>1, EditCurrent
  <2> QED BY <2>3, <2>4, <2>5, <2>6
<1> QED BY <1>6, <1>7, <1>8, <1>9, <1>10, <1>11, <1>12 DEF Rough

\* A build begins with nothing in memory.
LEMMA StartStep ==
  ASSUME Typed, NEW b, Rough(b), Start PROVE Rough(b)'
<1>1. /\ pc = "idle" /\ pc' = "build" /\ edited' = {} /\ content' = content /\ drifted' = drifted
      /\ db' = db /\ tmp' = tmp /\ state' = state /\ children' = children /\ ninfo' = ninfo
  BY DEF Start, disk, memory
<1>2. Cur' = Cur /\ b = Cur /\ b \in Vers /\ AtMost(b, b)
  BY <1>1, AtMostFacts DEF Cur, Rough, Based
<1>3. /\ \A n \in Node : state[n] = "none" /\ ninfo[n].csig = None
      /\ \A t \in Target : children[t] = <<>> /\ state[t] = "none"
  BY <1>1, NodeFacts DEF Rough, Rested
<1>4. Based(b)' /\ Rested' /\ Unread'
  BY <1>1, <1>2 DEF Based, Rested, Rough, Unread
<1>5. Contents'
  BY <1>1, <1>2 DEF Rough, Contents
<1>6. Records(b)'
  BY <1>1, <1>2, <1>3 DEF Rough, Records
<1>7. Read(b)' /\ Scanned(b)' /\ Begun' /\ Finished(b)'
  BY <1>1, <1>3 DEF Read, Scanned, Begun, Finished
<1> QED BY <1>4, <1>5, <1>6, <1>7 DEF Rough

\* The new file is written with what was merged (DB.write), the old one goes.
LEMMA UnlinkStep ==
  ASSUME Typed, NEW b, Rough(b), Unlink PROVE Rough(b)'
<1>1. /\ pc = "write" /\ pc' = "unlinked" /\ content' = content /\ drifted' = drifted
      /\ db' = [n \in Node |-> NoEntry] /\ tmp' = Entries
      /\ state' = state /\ children' = children /\ ninfo' = ninfo /\ edited' = edited
  BY DEF Unlink, disk, memory
<1>2. Cur' = Cur
  BY <1>1 DEF Cur
<1>3. b \in Vers /\ Cur \in Vers /\ AtMost(b, Cur) /\ AtMost(Cur, Cur)
  BY CurFacts, AtMostFacts DEF Rough, Based
<1>4. ASSUME NEW t \in Target PROVE db'[t].deps = <<>>
  BY <1>1, NodeFacts DEF NoEntry
<1>5. ASSUME NEW t \in Target PROVE Recorded(t, content[t], tmp'[t].deps, Cur, Cur)
  <2>1. CASE state[t] = "done"
    <3>1. t \in Stored /\ t \in Node
      BY <2>1, NodeFacts DEF Stored
    <3>2. tmp'[t].deps = Now(t)
      BY <1>1, <3>1 DEF Entries, Merged
    <3>3. Now(t) = Sigs(t)
      BY <2>1, NowSigs DEF Rough, Begun
    <3> QED BY <2>1, <3>2, <3>3, SigsKnown
  <2>2. CASE state[t] # "done"
    <3>1. t \notin Stored /\ t \in Node
      BY <2>2, NodeFacts DEF Stored
    <3>2. tmp'[t].deps = db[t].deps
      BY <1>1, <3>1 DEF Entries
    <3>3. \/ Recorded(t, content[t], db[t].deps, b, b)
          \/ Recorded(t, content[t], db[t].deps, b, Cur)
      BY DEF Rough, Records
    <3>4. PICK v : v = Cur
      OBVIOUS
    <3>5. Recorded(t, content[t], db[t].deps, v, v)
      BY <1>3, <3>3, <3>4, RecordedLater
    <3> QED BY <3>2, <3>4, <3>5
  <2> QED BY <2>1, <2>2
<1>6. Based(b)' /\ Rested' /\ Unread'
  BY <1>1, <1>2 DEF Based, Rested, Rough, Unread
<1>7. Contents'
  BY <1>1, <1>2 DEF Rough, Contents
<1>8. Records(b)'
  <2>1. \A t \in Target : Recorded(t, content'[t], db'[t].deps, b, b) /\ Recorded(t, content'[t], db'[t].deps, b, Cur)
    BY <1>4 DEF Recorded
  <2> QED BY <1>1, <1>2, <1>5, <2>1 DEF Records
<1>9. Read(b)' /\ Begun'
  BY <1>1, <1>2 DEF Rough, Read, Begun, Ready
<1>10. Scanned(b)'
  BY <1>1, <1>2 DEF Rough, Scanned, ScannedAt
<1>11. Finished(b)'
  <2>1. Quiet
    BY <1>1 DEF Quiet
  <2> SUFFICES ASSUME NEW t \in Target, state'[t] = "done" PROVE Settles(t, b)'
    BY DEF Finished, Settles
  <2> QED BY <1>1, <2>1, QuietSettled
<1> QED BY <1>6, <1>7, <1>8, <1>9, <1>10, <1>11 DEF Rough

\* The new file takes the place of the old one.
LEMMA RenameStep ==
  ASSUME Typed, NEW b, Rough(b), Rename PROVE \E d : Rough(d)'
<1>1. PICK d : d = Cur
  OBVIOUS
<1>2. /\ pc = "unlinked" /\ pc' = "idle" /\ content' = content /\ drifted' = drifted /\ db' = tmp
      /\ state' = NewState /\ children' = NewChildren /\ ninfo' = NewInfo
  BY DEF Rename, End, disk
<1>3. d \in Vers /\ Cur' = d
  BY <1>1, <1>2, CurFacts DEF Cur
<1>4. /\ \A n \in Node : state'[n] = "none" /\ ninfo'[n].csig = None
      /\ \A t \in Target : children'[t] = <<>>
  BY <1>2, NewTyped
<1>5. Unread'
  BY <1>2 DEF Rough, Unread
<1>6. Contents'
  BY <1>1, <1>2, <1>3 DEF Rough, Contents
<1>7. \A t \in Target : Recorded(t, content'[t], db'[t].deps, d, d)
  BY <1>1, <1>2 DEF Rough, Records
<1>8. Rough(d)'
  BY <1>2, <1>3, <1>4, <1>5, <1>6, <1>7, IdleRough
<1> QED BY <1>8

\* A kill loses what is in memory, and the file if it was removed.
LEMMA CrashStep ==
  ASSUME Typed, NEW b, Rough(b), Crash PROVE \E d : Rough(d)'
<1>1. PICK left \in [{t \in Target : state[t] = "running"} -> {"none", "part", "all"}] :
        LET written == {t \in DOMAIN left : left[t] # "none"} IN
        /\ content' = [n \in Node |->
             IF n \notin written THEN content[n]
             ELSE IF left[n] = "part" THEN Partial(n) ELSE Result(n)]
        /\ mtime' = [n \in Node |-> IF n \in written THEN mtime[n] + 1 ELSE mtime[n]]
  BY DEF Crash
<1>2. PICK W : W = {t \in DOMAIN left : left[t] # "none"}
  OBVIOUS
<1>3. \A t \in W : t \in Target /\ state[t] = "running"
  BY <1>2
<1>4. content' = [n \in Node |->
             IF n \notin W THEN content[n]
             ELSE IF left[n] = "part" THEN Partial(n) ELSE Result(n)]
  BY <1>1, <1>2
<1>5. ASSUME NEW n \in Node
      PROVE  content'[n] = content[n] \/ (n \in Target /\ state[n] = "running" /\ content'[n] \in {Partial(n), Result(n)})
  <2>1. PICK r : r = Result(n)
    OBVIOUS
  <2>2. content'[n] = IF n \notin W THEN content[n] ELSE IF left[n] = "part" THEN Partial(n) ELSE r
    BY <1>4, <2>1
  <2> QED BY <1>3, <2>1, <2>2
<1>6. PICK d : d = Cur
  OBVIOUS
<1>7. /\ pc' = "idle" /\ drifted' = drifted /\ db' = db
      /\ state' = NewState /\ children' = NewChildren /\ ninfo' = NewInfo
  BY DEF Crash, End
<1>8. \A s \in Source : content'[s] = content[s]
  BY <1>5, NodeFacts
<1>9. d \in Vers /\ Cur' = d
  BY <1>6, <1>8, CurFacts DEF Cur
<1>10. /\ \A n \in Node : state'[n] = "none" /\ ninfo'[n].csig = None
       /\ \A t \in Target : children'[t] = <<>>
  BY <1>7, NewTyped
<1>11. Unread'
  BY <1>7 DEF Rough, Unread
<1>12. Contents'
  <2> SUFFICES ASSUME NEW t \in Target
               PROVE \/ content'[t] = Absent \/ content'[t] = Partial(t)
                     \/ \E X : content'[t] = Product(t, X) /\ Known(Product(t, X), d)
    BY <1>9 DEF Contents
  <2>1. \/ content[t] = Absent \/ content[t] = Partial(t)
        \/ \E X : content[t] = Product(t, X) /\ Known(Product(t, X), d)
    BY <1>6 DEF Rough, Contents
  <2>2. ASSUME state[t] = "running" PROVE \E X : Result(t) = Product(t, X) /\ Known(Product(t, X), d)
    <3>1. ChildrenDone(t)
      BY <2>2, ReadyDone DEF Rough, Begun
    <3>2. PICK X : X = Inputs(t)
      OBVIOUS
    <3>3. Result(t) = Product(t, X) /\ Known(Product(t, X), d)
      BY <1>6, <3>1, <3>2, ResultFacts
    <3> QED BY <3>3
  <2> QED BY <1>5, <2>1, <2>2, NodeFacts
<1>13. ASSUME NEW t \in Target PROVE Recorded(t, content'[t], db'[t].deps, d, d)
  <2>1. b \in Vers /\ AtMost(b, d) /\ AtMost(d, d)
    BY <1>6, <1>9, AtMostFacts DEF Rough, Based
  <2>2. PICK D : D = db[t].deps
    OBVIOUS
  <2>3. \/ Recorded(t, content[t], D, b, b)
        \/ Recorded(t, content[t], D, b, d)
    BY <1>6, <2>2 DEF Rough, Records
  <2>4. Recorded(t, content[t], D, d, d)
    BY <1>9, <2>1, <2>3, RecordedLater
  <2>5. CASE content'[t] = content[t]
    BY <1>7, <2>2, <2>4, <2>5
  <2>6. CASE state[t] = "running"
    <3>1. content[t] = Absent
      BY <2>6 DEF Typed, TypeOK
    <3>2. content[t] # Product(t, D)
      BY <3>1, ProductOnly
    <3>3. Recorded(t, content'[t], D, d, d)
      BY <2>4, <3>2 DEF Recorded
    <3> QED BY <1>7, <2>2, <3>3
  <2> QED BY <1>5, <2>5, <2>6, NodeFacts
<1>14. Rough(d)'
  BY <1>7, <1>9, <1>10, <1>11, <1>12, <1>13, IdleRough
<1> QED BY <1>14

-----------------------------------------------------------------------------
(* The invariant where no file gets back a content and every file is read.  *)

RoughInv == ~world.reverts /\ ~world.aging => \E b : Rough(b)

\* It holds before the first build.
LEMMA InitRough == Init => RoughInv
<1> SUFFICES ASSUME Init PROVE \E b : Rough(b)
  BY DEF RoughInv
<1>1. Typed
  BY InitTyped
<1>2. PICK b : b = Cur
  OBVIOUS
<1>3. b \in Vers /\ AtMost(b, b)
  BY <1>1, <1>2, CurFacts, AtMostFacts
<1>4. pc = "idle" /\ state = NewState /\ children = NewChildren /\ ninfo = NewInfo
  BY DEF Init
<1>5. /\ \A n \in Node : state[n] = "none" /\ ninfo[n].csig = None /\ drifted[n] = 0
      /\ \A t \in Target : children[t] = <<>> /\ content[t] = Absent /\ db[t].deps = <<>>
  <2>1. \A n \in Node : state[n] = "none"
    BY <1>4 DEF NewState
  <2>2. \A n \in Node : ninfo[n].csig = None
    BY <1>4 DEF NewInfo, NoInfo
  <2>3. \A n \in Node : drifted[n] = 0
    BY DEF Init
  <2>4. \A t \in Target : children[t] = <<>>
    BY <1>4 DEF NewChildren
  <2>5. \A t \in Target : content[t] = Absent
    BY NodeFacts DEF Init
  <2>6. \A t \in Target : db[t].deps = <<>>
    BY NodeFacts DEF Init, NoEntry
  <2> QED BY <2>1, <2>2, <2>3, <2>4, <2>5, <2>6
<1>6. Based(b) /\ Rested /\ Unread /\ Contents
  BY <1>2, <1>3, <1>4, <1>5, NodeFacts DEF Based, Rested, Unread, Contents
<1>7. Records(b)
  BY <1>4, <1>5 DEF Records, Recorded
<1>8. Read(b) /\ Scanned(b) /\ Begun /\ Finished(b)
  BY <1>5, NodeFacts DEF Read, Scanned, Begun, Finished
<1>9. Rough(b)
  BY <1>6, <1>7, <1>8 DEF Rough
<1> QED BY <1>9

\* It holds if nothing happens.
LEMMA SameRough ==
  ASSUME Typed, NEW b, Rough(b), UNCHANGED vars PROVE Rough(b)'
<1>1. /\ content' = content /\ drifted' = drifted /\ db' = db /\ tmp' = tmp /\ pc' = pc
      /\ state' = state /\ children' = children /\ ninfo' = ninfo /\ edited' = edited
  BY DEF vars, disk, memory
<1>2. Cur' = Cur
  BY <1>1 DEF Cur
<1>3. Based(b)' /\ Rested' /\ Unread'
  BY <1>1, <1>2 DEF Based, Rested, Rough, Unread
<1>4. Contents' /\ Records(b)'
  BY <1>1, <1>2 DEF Rough, Contents, Records
<1>5. Read(b)' /\ Begun'
  BY <1>1, <1>2 DEF Rough, Read, Begun, Ready
<1>6. Scanned(b)'
  BY <1>1, <1>2 DEF Rough, Scanned, ScannedAt
<1>7. Finished(b)'
  <2>1. Quiet
    BY <1>1 DEF Quiet
  <2> SUFFICES ASSUME NEW t \in Target, state'[t] = "done" PROVE Settles(t, b)'
    BY DEF Finished, Settles
  <2> QED BY <1>1, <2>1, QuietSettled
<1> QED BY <1>3, <1>4, <1>5, <1>6, <1>7 DEF Rough

\* No step changes what may happen.
LEMMA WorldStays == ASSUME [Next]_vars PROVE world' = world
BY DEF Next, vars, Edit, VisitSource, Delete, Scan, VisitTarget, Prepare, Built,
       Failed, Wait, Start, Stop, EndBuild, Unlink, Rename, Crash

\* Every step keeps it.
LEMMA RoughKept == Typed /\ Typed' /\ RoughInv /\ [Next]_vars => RoughInv'
<1> SUFFICES ASSUME Typed, Typed', RoughInv, [Next]_vars, ~world.reverts, ~world.aging
             PROVE  \E d : Rough(d)'
  BY WorldStays DEF RoughInv
<1>1. PICK b : Rough(b)
  BY DEF RoughInv
<1>2. ASSUME BuildStep(b) PROVE \E d : Rough(d)'
  BY <1>1, <1>2, BuildStepKeeps
<1>3. ASSUME NEW s \in Source, Edit(s) PROVE \E d : Rough(d)'
  BY <1>1, <1>3, EditIdle, EditBuild
<1>4. ASSUME NEW s \in Source, VisitSource(s) PROVE \E d : Rough(d)'
  BY <1>1, <1>2, <1>4, VisitSourceStep
<1>5. ASSUME NEW t \in Target, Delete(t) PROVE FALSE
  BY <1>5 DEF Delete
<1>6. ASSUME NEW t \in Target, Scan(t) PROVE \E d : Rough(d)'
  BY <1>1, <1>2, <1>6, ScanKeeps
<1>7. ASSUME NEW t \in Target, VisitTarget(t) PROVE \E d : Rough(d)'
  BY <1>1, <1>2, <1>7, VisitTargetStep
<1>8. ASSUME NEW t \in Target, Prepare(t) PROVE \E d : Rough(d)'
  BY <1>1, <1>2, <1>8, PrepareStep
<1>9. ASSUME NEW t \in Target, Built(t) PROVE \E d : Rough(d)'
  BY <1>1, <1>2, <1>9, BuiltStep
<1>10. ASSUME NEW t \in Target, Failed(t) PROVE \E d : Rough(d)'
  BY <1>1, <1>2, <1>10, FailedStep
<1>11. ASSUME Stop \/ EndBuild PROVE \E d : Rough(d)'
  BY <1>1, <1>2, <1>11, StopStep
<1>12. CASE Wait
  BY <1>12 DEF Wait
<1>13. CASE Start
  BY <1>1, <1>13, StartStep
<1>14. CASE Unlink
  BY <1>1, <1>14, UnlinkStep
<1>15. CASE Rename
  BY <1>1, <1>15, RenameStep
<1>16. CASE Crash
  BY <1>1, <1>16, CrashStep
<1>17. CASE UNCHANGED vars
  BY <1>1, <1>17, SameRough
<1> QED BY <1>3, <1>4, <1>5, <1>6, <1>7, <1>8, <1>9, <1>10, <1>11, <1>12, <1>13,
           <1>14, <1>15, <1>16, <1>17 DEF Next

\* It implies the property.
LEMMA RoughUpToDate == ASSUME NEW b, Rough(b) PROVE UpToDate
BY DEF Rough, Finished, Current, UpToDate

-----------------------------------------------------------------------------
(* Builds that are left alone: none fails, none is stopped, and no source   *)
(* changes while one runs.  Now a content may come back, and a signature    *)
(* may be taken from the file unread.                                       *)

\* What the build knows of a file is so.
Fine(n) ==
  /\ state[n] # "failed" /\ (n \in Source => state[n] # "running")
  /\ ninfo[n].stamp # 0 => ninfo[n].stamp = mtime[n]
  /\ state[n] = "done" => ninfo[n].stamp = mtime[n] /\ content[n] # Absent
  /\ ninfo[n].csig # None => state[n] = "done" /\ ninfo[n].csig = content[n]

\* An entry that has the time stamp of the file has its signature.
SameTime(n, e) ==
  /\ e.stamp \in Nat /\ e.stamp <= mtime[n]
  /\ content[n] # Absent /\ e.csig # None /\ e.stamp = mtime[n] => e.csig = content[n]

\* A record is of the target that is there.
Matches(t, e) ==
  content[t] # Absent /\ e.deps # <<>> => content[t] = Product(t, e.deps) /\ e.stamp = mtime[t]

\* The signature of every source that is done is known.
SourcesRead == \A s \in Source : state[s] = "done" => ninfo[s].csig # None
\* No build runs.
Sleeping ==
  /\ \A n \in Node : state[n] = "none" /\ ninfo[n].csig = None /\ ninfo[n].stamp = 0
  /\ \A t \in Target : children[t] = <<>>

\* The invariant.
Calm ==
  /\ ~stopped
  /\ pc = "idle" => Sleeping
  /\ pc # "build" => \A t \in Target : state[t] # "running"
  /\ pc # "build" => SourcesRead
  /\ \A n \in Node : Fine(n) /\ SameTime(n, db[n])
  /\ \A t \in Target : Matches(t, db[t]) \/ (state[t] = "done" /\ ninfo[t].csig # None)
  /\ pc # "unlinked" => \A t \in Target :
       state[t] = "done" => ninfo[t].csig # None \/ db[t].stamp = mtime[t]
  /\ pc = "unlinked" =>
       (\A n \in Node : SameTime(n, tmp[n])) /\ (\A t \in Target : Matches(t, tmp[t]))
  /\ \A t \in Target : children[t] # <<>> =>
       children[t] = Children(t) /\ (t = Top \/ \E u \in Target : t \in Range(children[u]))
  /\ \A s \in Source : state[s] = "done" => \E u \in Target : s \in Range(children[u])
  /\ Begun
  /\ \A t \in Target : state[t] = "done" => content[t] = Result(t)

-----------------------------------------------------------------------------

\* What was scanned is what is there to be found.
LEMMA CalmChildren ==
  ASSUME Typed, Calm, NEW t \in Target, children[t] # <<>>
  PROVE  /\ children[t] = Children(t)
         /\ children[t] \in Seq(Node)
         /\ \A i \in DOMAIN children[t] : children[t][i] \in Node
         /\ \A n \in Target : n \in Range(children[t]) => n \in Range(Sources[t])
<1>1. children[t] = Children(t)
  BY DEF Calm
<1>2. Cur \in Vers /\ Children(t) = Listed(t, Cur)
  BY CurFacts, ChildrenListed
<1>3. PICK L : L = Listed(t, Cur)
  OBVIOUS
<1>4. L \in Seq(Node)
  BY <1>2, <1>3, ListedFacts
<1>5. \A i \in DOMAIN L : L[i] \in Node
  BY <1>4
<1>6. ASSUME NEW n \in Target, n \in Range(L) PROVE n \in Range(Sources[t])
  <2>1. PICK i \in DOMAIN L : n = L[i]
    BY <1>6 DEF Range
  <2>2. n \notin Source
    BY NodeFacts
  <2> QED BY <1>2, <1>3, <2>1, <2>2, ListedFacts
<1>7. L = children[t]
  BY <1>1, <1>2, <1>3
<1> QED BY <1>1, <1>4, <1>5, <1>6, <1>7

\* The signature of what is done is that of the disk, read or not.
LEMMA CalmCsig ==
  ASSUME Typed, Calm, NEW n \in Node, state[n] = "done"
  PROVE  /\ GetCsig(n) = content[n] /\ content[n] # None
         /\ MaxDriftCsig(n) # None => MaxDriftCsig(n) = content[n]
<1>1. content[n] # Absent /\ ninfo[n].stamp = mtime[n] /\ (ninfo[n].csig # None => ninfo[n].csig = content[n])
  BY DEF Calm, Fine
<1>2. Stamp(n) = mtime[n]
  BY <1>1 DEF Stamp
<1>3. ASSUME MaxDriftCsig(n) # None PROVE MaxDriftCsig(n) = content[n]
  <2>1. db[n].stamp = mtime[n] /\ MaxDriftCsig(n) = db[n].csig
    BY <1>2, <1>3 DEF MaxDriftCsig
  <2> QED BY <1>1, <1>3, <2>1 DEF Calm, SameTime
<1>4. GetCsig(n) = content[n]
  BY <1>1, <1>3 DEF GetCsig
<1>5. content[n] # None
  <2>1. CASE n \in Source
    BY <2>1, CurFacts, OriginalOnly
  <2>2. CASE n \in Target
    <3>1. content[n] = Result(n)
      BY <2>2 DEF Calm
    <3> QED BY <3>1, ProductOnly DEF Result
  <2> QED BY <2>1, <2>2, NodeFacts
<1> QED BY <1>3, <1>4, <1>5

\* What is known of the dependencies of a target stays known.
LEMMA CalmReady ==
  ASSUME Typed, Calm, Quiet, NEW t \in Target, Ready(t) PROVE Ready(t)'
<1>1. children[t] # <<>> /\ children'[t] = children[t]
  BY DEF Ready, Quiet
<1>2. ASSUME NEW i \in DOMAIN children[t]
      PROVE  state'[children[t][i]] = "done" /\ ninfo'[children[t][i]].csig # None
  BY <1>1, CalmChildren DEF Ready, Quiet
<1> QED BY <1>1, <1>2 DEF Ready

\* What a command would make stays.
LEMMA CalmResult ==
  ASSUME Typed, Calm, Quiet, NEW t \in Target, ChildrenDone(t)
  PROVE  Result(t)' = Result(t)
<1>1. Children(t)' = Children(t)
  BY QuietCur
<1>2. children[t] # <<>> /\ Children(t) = children[t]
  BY CalmChildren DEF ChildrenDone
<1>3. PICK L : L = Children(t)
  OBVIOUS
<1>4. ASSUME NEW i \in DOMAIN L PROVE content'[L[i]] = content[L[i]]
  <2>1. L[i] \in Node /\ state[L[i]] = "done"
    BY <1>2, <1>3, CalmChildren DEF ChildrenDone
  <2> QED BY <2>1, NodeFacts DEF Quiet
<1>5. [i \in DOMAIN L |-> content'[L[i]]] = [i \in DOMAIN L |-> content[L[i]]]
  BY <1>4
<1>6. Result(t)' = Product(t, [i \in DOMAIN L |-> content'[L[i]]])
  BY <1>1, <1>3 DEF Result, Product
<1>7. Result(t) = Product(t, [i \in DOMAIN L |-> content[L[i]]])
  BY <1>3 DEF Result
<1> QED BY <1>5, <1>6, <1>7

\* The signatures of what t depends on are those of the disk.
LEMMA CalmNow ==
  ASSUME Typed, Calm, NEW t \in Target, ChildrenDone(t)
  PROVE  Now(t) = Inputs(t) /\ Result(t) = Product(t, Now(t)) /\ Now(t) # <<>>
<1>1. children[t] # <<>> /\ Children(t) = children[t] /\ children[t] \in Seq(Node)
  BY CalmChildren DEF ChildrenDone
<1>2. PICK L : L = children[t]
  OBVIOUS
<1>3. ASSUME NEW i \in DOMAIN L PROVE GetCsig(L[i]) = content[L[i]]
  <2>1. L[i] \in Node /\ state[L[i]] = "done"
    BY <1>1, <1>2, CalmChildren DEF ChildrenDone
  <2> QED BY <2>1, CalmCsig
<1>4. Now(t) = [i \in DOMAIN L |-> GetCsig(L[i])]
  BY <1>2 DEF Now
<1>5. Inputs(t) = [i \in DOMAIN L |-> content[L[i]]]
  BY <1>1, <1>2 DEF Inputs
<1>6. Now(t) = Inputs(t)
  BY <1>3, <1>4, <1>5
<1>7. Result(t) = Product(t, Inputs(t))
  BY DEF Result, Inputs
<1>8. Now(t) # <<>>
  <2>1. DOMAIN Now(t) = DOMAIN L
    BY <1>4
  <2>2. L \in Seq(Node) /\ L # <<>>
    BY <1>1, <1>2
  <2> QED BY <2>1, <2>2
<1> QED BY <1>6, <1>7, <1>8


\* A step of a build that is left alone.
FileStep ==
  \A n \in Node :
    \/ content'[n] = content[n] /\ mtime'[n] = mtime[n]
    \/ n \in Target /\ content'[n] = Absent /\ mtime'[n] = mtime[n]
    \/ /\ n \in Target /\ state'[n] = "done" /\ ninfo'[n].csig # None
       /\ mtime'[n] = mtime[n] + 1
CalmStep ==
  /\ Quiet /\ pc = "build" /\ ~stopped' /\ db' = db
  /\ pc' = "build" \/ (pc' = "write" /\ (\A t \in Target : state'[t] # "running") /\ SourcesRead')
  /\ FileStep
  /\ \A n \in Node : Fine(n)'
  /\ \A t \in Target :
       \/ children'[t] = children[t]
       \/ /\ children[t] = <<>> /\ children'[t] = Children(t)
          /\ t = Top \/ \E u \in Target : t \in Range(children[u])
  /\ \A s \in Source : state'[s] = "done" =>
       state[s] = "done" \/ \E u \in Target : s \in Range(children[u])
  /\ \A t \in Target : state'[t] \in {"running", "done"} =>
       state[t] \in {"running", "done"} \/ Ready(t)'
  /\ \A t \in Target : state'[t] = "done" =>
       \/ state[t] = "done"
       \/ content'[t] = Result(t)' /\ (ninfo'[t].csig # None \/ db[t].stamp = mtime'[t])

\* Such a step keeps the invariant.
LEMMA CalmStepKeeps ==
  ASSUME Typed, Calm, CalmStep PROVE Calm'
<1>1. Quiet /\ pc' # "idle" /\ pc' # "unlinked" /\ ~stopped' /\ db' = db
  BY DEF CalmStep
<1>2. pc' # "build" => (\A t \in Target : state'[t] # "running") /\ SourcesRead'
  BY DEF CalmStep
<1>3. \A n \in Node : Fine(n)'
  BY DEF CalmStep
<1>4. ASSUME NEW n \in Node PROVE SameTime(n, db[n])'
  <2>1. SameTime(n, db[n]) /\ mtime[n] \in Nat
    BY DEF Calm, Typed
  <2>2. PICK e : e = db[n]
    OBVIOUS
  <2>3. e.stamp \in Nat /\ e.stamp <= mtime[n]
        /\ (content[n] # Absent /\ e.csig # None /\ e.stamp = mtime[n] => e.csig = content[n])
    BY <2>1, <2>2 DEF SameTime
  <2>4. \/ content'[n] = content[n] /\ mtime'[n] = mtime[n]
        \/ content'[n] = Absent /\ mtime'[n] = mtime[n]
        \/ mtime'[n] = mtime[n] + 1
    BY DEF CalmStep, FileStep
  <2>5. e.stamp <= mtime'[n]
        /\ (content'[n] # Absent /\ e.csig # None /\ e.stamp = mtime'[n] => e.csig = content'[n])
    BY <2>1, <2>3, <2>4
  <2> QED BY <1>1, <2>2, <2>3, <2>5 DEF SameTime
<1>5. ASSUME NEW t \in Target
      PROVE  Matches(t, db[t])' \/ (state'[t] = "done" /\ ninfo'[t].csig # None)
  <2>1. t \in Node /\ (Matches(t, db[t]) \/ (state[t] = "done" /\ ninfo[t].csig # None))
    BY NodeFacts DEF Calm
  <2>2. CASE state[t] = "done" /\ ninfo[t].csig # None
    BY <1>1, <2>1, <2>2 DEF Quiet
  <2>3. CASE Matches(t, db[t])
    <3>1. PICK e : e = db[t]
      OBVIOUS
    <3>2. content[t] # Absent /\ e.deps # <<>> => content[t] = Product(t, e.deps) /\ e.stamp = mtime[t]
      BY <2>3, <3>1 DEF Matches
    <3>3. \/ content'[t] = content[t] /\ mtime'[t] = mtime[t]
          \/ content'[t] = Absent /\ mtime'[t] = mtime[t]
          \/ state'[t] = "done" /\ ninfo'[t].csig # None
      BY <2>1 DEF CalmStep, FileStep
    <3> QED BY <1>1, <3>1, <3>2, <3>3 DEF Matches, Product
  <2> QED BY <2>1, <2>2, <2>3
<1>6. ASSUME NEW t \in Target, children'[t] # <<>>
      PROVE  children'[t] = Children(t)' /\ (t = Top \/ \E u \in Target : t \in Range(children'[u]))
  <2>1. Children(t)' = Children(t)
    BY <1>1, QuietCur
  <2>2. ASSUME NEW u \in Target, t \in Range(children[u]) PROVE t \in Range(children'[u])
    <3>1. children[u] # <<>>
      BY <2>2 DEF Range
    <3>2. children'[u] = children[u]
      BY <1>1, <3>1 DEF Quiet
    <3> QED BY <2>2, <3>2
  <2>3. children'[t] = Children(t) /\ (t = Top \/ \E u \in Target : t \in Range(children[u]))
    BY <1>6 DEF CalmStep, Calm
  <2> QED BY <2>1, <2>2, <2>3
<1>7. ASSUME NEW s \in Source, state'[s] = "done" PROVE \E u \in Target : s \in Range(children'[u])
  <2>1. PICK u \in Target : s \in Range(children[u])
    BY <1>7 DEF CalmStep, Calm
  <2>2. children[u] # <<>>
    BY <2>1 DEF Range
  <2>3. children'[u] = children[u]
    BY <1>1, <2>2 DEF Quiet
  <2> QED BY <2>1, <2>3
<1>8. Begun'
  <2>1. ASSUME NEW t \in Target, state'[t] \in {"running", "done"} PROVE Ready(t)'
    <3>1. state[t] \in {"running", "done"} \/ Ready(t)'
      BY <2>1 DEF CalmStep
    <3>2. state[t] \in {"running", "done"} => Ready(t)
      BY DEF Calm, Begun
    <3> QED BY <1>1, <3>1, <3>2, CalmReady
  <2> QED BY <2>1 DEF Begun
<1>9. ASSUME NEW t \in Target, state'[t] = "done" PROVE content'[t] = Result(t)'
  <2>1. state[t] = "done" \/ content'[t] = Result(t)'
    BY <1>9 DEF CalmStep
  <2>2. ASSUME state[t] = "done" PROVE content'[t] = Result(t)'
    <3>1. ChildrenDone(t) /\ content[t] = Result(t)
      BY <2>2, ReadyDone DEF Calm, Begun
    <3>2. content'[t] = content[t] /\ Result(t)' = Result(t)
      BY <1>1, <2>2, <3>1, CalmResult DEF Quiet
    <3> QED BY <3>1, <3>2
  <2> QED BY <2>1, <2>2
<1>10. ASSUME NEW t \in Target, state'[t] = "done"
       PROVE  ninfo'[t].csig # None \/ db'[t].stamp = mtime'[t]
  <2>1. CASE state[t] = "done"
    <3>1. t \in Node /\ pc # "unlinked"
      BY NodeFacts DEF CalmStep
    <3>2. ninfo[t].csig # None \/ db[t].stamp = mtime[t]
      BY <2>1, <3>1 DEF Calm
    <3>3. mtime'[t] = mtime[t] \/ ninfo'[t].csig # None
      BY <3>1 DEF CalmStep, FileStep
    <3> QED BY <1>1, <3>1, <3>2, <3>3 DEF Quiet
  <2>2. CASE state[t] # "done"
    BY <1>1, <1>10, <2>2 DEF CalmStep
  <2> QED BY <2>1, <2>2
<1> QED BY <1>1, <1>2, <1>3, <1>4, <1>5, <1>6, <1>7, <1>8, <1>9, <1>10 DEF Calm

\* The step of a source that is visited is of this form.
LEMMA CalmVisitSource ==
  ASSUME Typed, Calm, NEW s \in Source, VisitSource(s) PROVE CalmStep
<1>1. s \in Node /\ s \notin Target /\ pc = "build" /\ state[s] = "none" /\ s # Top /\ ~stopped
      /\ \E u \in Target : s \in Range(children[u])
  BY NodeFacts DEF VisitSource, Reached
<1>2. PICK i : i = Visited(s)
  OBVIOUS
<1>3. state' = [state EXCEPT ![s] = "done"] /\ ninfo' = [ninfo EXCEPT ![s] = i]
      /\ UNCHANGED <<world, disk, db, tmp, pc, children, stopped, edited>>
  BY <1>2 DEF VisitSource
<1>4. content' = content /\ mtime' = mtime /\ db' = db /\ pc' = pc
      /\ children' = children /\ edited' = edited /\ stopped' = stopped
  BY <1>3 DEF disk
<1>5. Fine(s) /\ SameTime(s, db[s])
  BY <1>1 DEF Calm
<1>6. ninfo[s].csig = None /\ content[s] # Absent /\ Stamp(s) = mtime[s]
  <2>1. ninfo[s].csig = None /\ (ninfo[s].stamp # 0 => ninfo[s].stamp = mtime[s])
    BY <1>1, <1>5 DEF Fine
  <2>2. content[s] # Absent
    BY CurFacts, OriginalOnly
  <2> QED BY <2>1, <2>2 DEF Stamp
<1>7. i.stamp = mtime[s] /\ (i.csig # None => i.csig = content[s])
  <2>1. i.stamp = mtime[s] /\ i.csig = MaxDriftCsig(s)
    BY <1>2, <1>6 DEF Visited
  <2>2. ASSUME MaxDriftCsig(s) # None PROVE db[s].stamp = mtime[s] /\ MaxDriftCsig(s) = db[s].csig
    BY <1>6, <2>2 DEF MaxDriftCsig
  <2> QED BY <1>5, <1>6, <2>1, <2>2 DEF SameTime
<1>8. ninfo'[s] = i /\ state'[s] = "done"
      /\ \A n \in Node : n # s => state'[n] = state[n] /\ ninfo'[n] = ninfo[n]
  BY <1>1, <1>3 DEF Typed, TypeOK
<1>9. \A t \in Target : state'[t] = state[t]
  BY <1>1, <1>8, NodeFacts
<1>10. Quiet
  <2>1. \A n \in Node : ninfo[n].csig # None => ninfo'[n].csig = ninfo[n].csig
    BY <1>6, <1>8
  <2>2. \A n \in Node : state[n] = "done" => state'[n] = "done"
    BY <1>8
  <2> QED BY <1>4, <2>1, <2>2 DEF Quiet
<1>11. ASSUME NEW n \in Node PROVE Fine(n)'
  <2>1. CASE n = s
    BY <1>4, <1>6, <1>7, <1>8, <2>1 DEF Fine
  <2>2. CASE n # s
    <3>1. Fine(n)
      BY DEF Calm
    <3> QED BY <1>4, <1>8, <2>2, <3>1 DEF Fine
  <2> QED BY <2>1, <2>2
<1>12. FileStep
  BY <1>4 DEF FileStep
<1>13. \A u \in Source : state'[u] = "done" => state[u] = "done" \/ \E v \in Target : u \in Range(children[v])
  BY <1>1, <1>8, NodeFacts
<1>14. Quiet /\ pc = "build" /\ ~stopped' /\ db' = db /\ pc' = "build"
  BY <1>1, <1>4, <1>10 DEF Calm
<1> QED BY <1>4, <1>9, <1>11, <1>12, <1>13, <1>14 DEF CalmStep


\* So is a scan.
LEMMA CalmScan ==
  ASSUME Typed, Calm, NEW t \in Target, Scan(t) PROVE CalmStep
<1>1. pc = "build" /\ children[t] = <<>> /\ ~stopped
      /\ (t = Top \/ \E u \in Target : t \in Range(children[u]))
  BY DEF Scan, Reached
<1>2. children' = [children EXCEPT ![t] = Children(t)]
      /\ UNCHANGED <<world, disk, db, tmp, pc, state, stopped, edited>>
  BY DEF Scan
<1>3. ASSUME NEW n \in Node
      PROVE  ninfo'[n].csig = ninfo[n].csig /\ ninfo'[n].stamp \in {ninfo[n].stamp, Stamp(n)}
  <2>1. PICK x : x = Stamp(n)
    OBVIOUS
  <2>2. ninfo[n] = [csig |-> ninfo[n].csig, stamp |-> ninfo[n].stamp]
    BY DEF Typed
  <2>3. ninfo'[n] = IF n \in Source \cap Range(Children(t)) THEN [ninfo[n] EXCEPT !.stamp = x] ELSE ninfo[n]
    BY <2>1 DEF Scan
  <2> QED BY <2>1, <2>2, <2>3
<1>4. children'[t] = Children(t) /\ \A u \in Target : u # t => children'[u] = children[u]
  BY <1>2 DEF Typed
<1>5. content' = content /\ mtime' = mtime /\ db' = db /\ pc' = pc
      /\ state' = state /\ edited' = edited /\ stopped' = stopped
  BY <1>2 DEF disk
<1>6. Quiet
  BY <1>1, <1>3, <1>4, <1>5 DEF Quiet
<1>7. ASSUME NEW n \in Node PROVE Fine(n)'
  <2>1. Fine(n)
    BY DEF Calm
  <2>2. Stamp(n) = IF ninfo[n].stamp # 0 THEN ninfo[n].stamp ELSE mtime[n]
    BY DEF Stamp
  <2>3. ninfo'[n].stamp = ninfo[n].stamp \/ ninfo'[n].stamp = mtime[n]
    BY <1>3, <2>2
  <2> QED BY <1>3, <1>5, <2>1, <2>3 DEF Fine
<1>8. FileStep
  BY <1>5 DEF FileStep
<1> QED BY <1>1, <1>4, <1>5, <1>6, <1>7, <1>8 DEF CalmStep

\* What holds when a target is considered, and of the signatures it asks for.
LEMMA CalmConsidered ==
  ASSUME Typed, Calm, NEW t \in Target, Considered(t), NEW w, w = WithCsigs(t)
  PROVE  /\ ChildrenDone(t) /\ state[t] = "none" /\ pc = "build" /\ ~stopped
         /\ t \notin Range(children[t]) /\ ninfo[t].csig = None
         /\ \A n \in Node : w[n].stamp = ninfo[n].stamp
         /\ \A n \in Node : n \in Range(children[t]) =>
              state[n] = "done" /\ w[n].csig = content[n] /\ content[n] # None
         /\ \A n \in Node : n \notin Range(children[t]) => w[n].csig = ninfo[n].csig
         /\ \A n \in Node : ninfo[n].csig # None => w[n].csig = ninfo[n].csig
<1>1. ChildrenDone(t) /\ state[t] = "none" /\ pc = "build" /\ ~stopped
      /\ \A n \in Range(children[t]) : state[n] = "done"
  BY ConsideredFacts DEF Considered
<1>2. \A n \in Node :
        /\ w[n].stamp = ninfo[n].stamp
        /\ n \in Range(children[t]) => w[n].csig = GetCsig(n)
        /\ n \notin Range(children[t]) => w[n].csig = ninfo[n].csig
  BY WithCsigsFacts
<1>3. \A n \in Node : n \in Range(children[t]) => w[n].csig = content[n] /\ content[n] # None
  BY <1>1, <1>2, CalmCsig
<1>4. t \notin Range(children[t]) /\ ninfo[t].csig = None
  BY <1>1, NodeFacts DEF Calm, Fine
<1>5. \A n \in Node : ninfo[n].csig # None => w[n].csig = ninfo[n].csig
  BY <1>2, <1>3 DEF Calm, Fine
<1> QED BY <1>1, <1>2, <1>3, <1>4, <1>5

\* After that its dependencies are known.
LEMMA CalmSigned ==
  ASSUME Typed, Calm, NEW t \in Target, Considered(t), children'[t] = children[t],
         \A n \in Node : n # t => state'[n] = state[n],
         \A n \in Node : n # t => ninfo'[n].csig = WithCsigs(t)[n].csig
  PROVE  Ready(t)'
<1>1. PICK w : w = WithCsigs(t)
  OBVIOUS
<1>2. ChildrenDone(t) /\ t \notin Range(children[t])
      /\ \A n \in Node : n \in Range(children[t]) => state[n] = "done" /\ w[n].csig = content[n] /\ content[n] # None
  BY <1>1, CalmConsidered
<1>3. ASSUME NEW i \in DOMAIN children[t]
      PROVE  state'[children[t][i]] = "done" /\ ninfo'[children[t][i]].csig # None
  <2>1. PICK n : n = children[t][i]
    OBVIOUS
  <2>2. n \in Node /\ n \in Range(children[t])
    BY <1>2, <2>1, CalmChildren DEF ChildrenDone, Range
  <2>3. n # t /\ state[n] = "done" /\ w[n].csig # None
    BY <1>2, <2>2
  <2> QED BY <1>1, <2>1, <2>2, <2>3
<1> QED BY <1>2, <1>3 DEF Ready, ChildrenDone

\* That a target is passed as up to date is a step of this form.
LEMMA CalmVisitTarget ==
  ASSUME Typed, Calm, NEW t \in Target, VisitTarget(t) PROVE CalmStep
<1>1. PICK w : w = WithCsigs(t)
  OBVIOUS
<1>2. t \in Node /\ t \notin Source /\ Considered(t) /\ IsUpToDate(t)
  BY NodeFacts DEF VisitTarget
<1>3. /\ ChildrenDone(t) /\ state[t] = "none" /\ pc = "build" /\ ~stopped
      /\ t \notin Range(children[t]) /\ ninfo[t].csig = None
      /\ \A n \in Node : w[n].stamp = ninfo[n].stamp
      /\ \A n \in Node : n \in Range(children[t]) =>
           state[n] = "done" /\ w[n].csig = content[n] /\ content[n] # None
      /\ \A n \in Node : n \notin Range(children[t]) => w[n].csig = ninfo[n].csig
      /\ \A n \in Node : ninfo[n].csig # None => w[n].csig = ninfo[n].csig
  BY <1>1, <1>2, CalmConsidered
<1>4. PICK i : i = Visited(t)
  OBVIOUS
<1>5. state' = [state EXCEPT ![t] = "done"] /\ ninfo' = [w EXCEPT ![t] = i]
      /\ UNCHANGED <<world, disk, db, tmp, pc, children, stopped, edited>>
  BY <1>1, <1>4 DEF VisitTarget
<1>6. content' = content /\ mtime' = mtime /\ db' = db /\ pc' = pc
      /\ children' = children /\ edited' = edited /\ stopped' = stopped
  BY <1>5 DEF disk
<1>7. state'[t] = "done" /\ \A n \in Node : n # t => state'[n] = state[n]
  BY <1>2, <1>5 DEF Typed, TypeOK
<1>8. ninfo'[t] = i /\ \A n \in Node : n # t => ninfo'[n] = w[n]
  <2>1. w = [n \in Node |-> w[n]]
    BY <1>1, WithCsigsFacts
  <2> QED BY <1>2, <1>5, <2>1
<1>9. content[t] # Absent /\ db[t].deps = Now(t)
  BY <1>2 DEF IsUpToDate, Changed
<1>10. content[t] = Result(t) /\ db[t].stamp = mtime[t]
  <2>1. Now(t) # <<>> /\ Result(t) = Product(t, Now(t))
    BY <1>3, CalmNow
  <2>2. Matches(t, db[t])
    BY <1>3 DEF Calm
  <2>3. content[t] = Product(t, db[t].deps) /\ db[t].stamp = mtime[t]
    BY <1>9, <2>1, <2>2 DEF Matches
  <2> QED BY <1>9, <2>1, <2>3
<1>11. i.stamp = mtime[t] /\ (i.csig # None => i.csig = content[t])
  <2>1. Fine(t) /\ SameTime(t, db[t])
    BY <1>2 DEF Calm
  <2>2. Stamp(t) = mtime[t]
    BY <2>1 DEF Stamp, Fine
  <2>3. i.stamp = mtime[t] /\ i.csig = MaxDriftCsig(t)
    BY <1>4, <2>2 DEF Visited
  <2>4. ASSUME MaxDriftCsig(t) # None PROVE MaxDriftCsig(t) = db[t].csig
    BY <2>4 DEF MaxDriftCsig
  <2> QED BY <1>9, <1>10, <2>1, <2>3, <2>4 DEF SameTime
<1>12. Quiet
  <2>1. \A n \in Node : ninfo[n].csig # None => ninfo'[n].csig = ninfo[n].csig
    BY <1>3, <1>8
  <2>2. \A n \in Node : state[n] = "done" => state'[n] = "done"
    BY <1>7
  <2> QED BY <1>6, <2>1, <2>2 DEF Quiet
<1>13. ASSUME NEW n \in Node PROVE Fine(n)'
  <2>1. CASE n = t
    BY <1>2, <1>6, <1>7, <1>8, <1>9, <1>11, <2>1 DEF Fine
  <2>2. CASE n # t
    <3>1. Fine(n)
      BY DEF Calm
    <3>2. ninfo'[n].stamp = ninfo[n].stamp /\ state'[n] = state[n]
          /\ (ninfo'[n].csig = ninfo[n].csig \/ (ninfo'[n].csig = content[n] /\ state[n] = "done"))
      BY <1>3, <1>7, <1>8, <2>2
    <3> QED BY <1>6, <3>1, <3>2 DEF Fine
  <2> QED BY <2>1, <2>2
<1>14. FileStep
  BY <1>6 DEF FileStep
<1>15. Ready(t)'
  BY <1>1, <1>2, <1>6, <1>7, <1>8, CalmSigned
<1>16. content'[t] = Result(t)'
  BY <1>3, <1>6, <1>10, <1>12, CalmResult
<1>17. (\A u \in Target : u # t => state'[u] = state[u]) /\ (\A s \in Source : state'[s] = state[s])
  BY <1>7, NodeFacts
<1> QED BY <1>3, <1>6, <1>10, <1>12, <1>13, <1>14, <1>15, <1>16, <1>17 DEF CalmStep


\* So is that a target is removed to be made.
LEMMA CalmPrepare ==
  ASSUME Typed, Calm, NEW t \in Target, Prepare(t) PROVE CalmStep
<1>1. PICK w : w = WithCsigs(t)
  OBVIOUS
<1>2. t \in Node /\ t \notin Source /\ Considered(t)
  BY NodeFacts DEF Prepare
<1>3. /\ ChildrenDone(t) /\ state[t] = "none" /\ pc = "build" /\ ~stopped
      /\ t \notin Range(children[t]) /\ ninfo[t].csig = None
      /\ \A n \in Node : w[n].stamp = ninfo[n].stamp
      /\ \A n \in Node : n \in Range(children[t]) =>
           state[n] = "done" /\ w[n].csig = content[n] /\ content[n] # None
      /\ \A n \in Node : n \notin Range(children[t]) => w[n].csig = ninfo[n].csig
      /\ \A n \in Node : ninfo[n].csig # None => w[n].csig = ninfo[n].csig
  BY <1>1, <1>2, CalmConsidered
<1>4. state' = [state EXCEPT ![t] = "running"] /\ ninfo' = w
      /\ content' = [content EXCEPT ![t] = Absent]
      /\ UNCHANGED <<world, mtime, drifted, db, tmp, pc, children, stopped, edited>>
  BY <1>1 DEF Prepare, Prepared
<1>5. state'[t] = "running" /\ \A n \in Node : n # t => state'[n] = state[n]
  BY <1>2, <1>4 DEF Typed, TypeOK
<1>6. content'[t] = Absent /\ \A n \in Node : n # t => content'[n] = content[n]
  BY <1>2, <1>4 DEF Typed
<1>7. Quiet
  <2>1. \A n \in Node : ninfo[n].csig # None => ninfo'[n].csig = ninfo[n].csig
    BY <1>3, <1>4
  <2>2. \A n \in Node : state[n] = "done" => state'[n] = "done"
    BY <1>3, <1>5
  <2>3. \A u \in Target : state[u] = "done" => content'[u] = content[u]
    BY <1>3, <1>6, NodeFacts
  <2>4. \A s \in Source : content'[s] = content[s]
    BY <1>2, <1>6, NodeFacts
  <2> QED BY <1>4, <2>1, <2>2, <2>3, <2>4 DEF Quiet
<1>8. ASSUME NEW n \in Node PROVE Fine(n)'
  <2>1. Fine(n)
    BY DEF Calm
  <2>2. ninfo'[n].stamp = ninfo[n].stamp /\ mtime' = mtime
    BY <1>3, <1>4
  <2>3. CASE n = t
    BY <1>2, <1>3, <1>4, <1>5, <2>1, <2>2, <2>3 DEF Fine
  <2>4. CASE n # t
    <3>1. state'[n] = state[n] /\ content'[n] = content[n]
          /\ (ninfo'[n].csig = ninfo[n].csig \/ (ninfo'[n].csig = content[n] /\ state[n] = "done"))
      BY <1>3, <1>4, <1>5, <1>6, <2>4
    <3> QED BY <2>1, <2>2, <3>1 DEF Fine
  <2> QED BY <2>3, <2>4
<1>9. FileStep
  <2>1. ASSUME NEW n \in Node
        PROVE  \/ content'[n] = content[n] /\ mtime'[n] = mtime[n]
               \/ n \in Target /\ content'[n] = Absent /\ mtime'[n] = mtime[n]
    BY <1>4, <1>6
  <2> QED BY <2>1 DEF FileStep
<1>10. Ready(t)'
  BY <1>1, <1>2, <1>4, <1>5, CalmSigned
<1>11. (\A u \in Target : u # t => state'[u] = state[u]) /\ (\A s \in Source : state'[s] = state[s])
  BY <1>2, <1>5, NodeFacts
<1> QED BY <1>3, <1>4, <1>5, <1>7, <1>8, <1>9, <1>10, <1>11 DEF CalmStep

\* So is the end of a command.
LEMMA CalmBuilt ==
  ASSUME Typed, Calm, NEW t \in Target, Built(t) PROVE CalmStep
<1>1. t \in Node /\ t \notin Source /\ pc = "build" /\ state[t] = "running" /\ ~stopped
  BY NodeFacts DEF Built, Calm
<1>2. PICK r : r = Result(t)
  OBVIOUS
<1>3. /\ content' = [content EXCEPT ![t] = r] /\ mtime' = [mtime EXCEPT ![t] = @ + 1]
      /\ state' = [state EXCEPT ![t] = "done"]
      /\ ninfo' = [ninfo EXCEPT ![t] = [csig |-> r, stamp |-> mtime[t] + 1]]
      /\ UNCHANGED <<world, drifted, db, tmp, pc, children, stopped, edited>>
  BY <1>2 DEF Built
<1>4. state'[t] = "done" /\ \A n \in Node : n # t => state'[n] = state[n]
  BY <1>1, <1>3 DEF Typed, TypeOK
<1>5. content'[t] = r /\ \A n \in Node : n # t => content'[n] = content[n]
  BY <1>1, <1>3 DEF Typed
<1>6. mtime'[t] = mtime[t] + 1 /\ \A n \in Node : n # t => mtime'[n] = mtime[n]
  BY <1>1, <1>3 DEF Typed
<1>7. ninfo'[t] = [csig |-> r, stamp |-> mtime[t] + 1] /\ \A n \in Node : n # t => ninfo'[n] = ninfo[n]
  BY <1>1, <1>3 DEF Typed
<1>8. r # Absent /\ r # None
  BY <1>2, ProductOnly DEF Result
<1>9. Ready(t) /\ ChildrenDone(t) /\ ninfo[t].csig = None
  <2>1. Ready(t) /\ ninfo[t].csig = None
    BY <1>1 DEF Calm, Begun, Fine
  <2> QED BY <2>1, ReadyDone
<1>10. Quiet
  <2>1. \A n \in Node : ninfo[n].csig # None => ninfo'[n].csig = ninfo[n].csig
    BY <1>7, <1>9
  <2>2. \A n \in Node : state[n] = "done" => state'[n] = "done"
    BY <1>4
  <2>3. \A u \in Target : state[u] = "done" => content'[u] = content[u]
    BY <1>1, <1>5, NodeFacts
  <2>4. \A s \in Source : content'[s] = content[s]
    BY <1>1, <1>5, NodeFacts
  <2> QED BY <1>3, <2>1, <2>2, <2>3, <2>4 DEF Quiet
<1>11. ASSUME NEW n \in Node PROVE Fine(n)'
  <2>1. CASE n = t
    BY <1>1, <1>4, <1>5, <1>6, <1>7, <1>8, <2>1 DEF Fine
  <2>2. CASE n # t
    <3>1. Fine(n)
      BY DEF Calm
    <3> QED BY <1>4, <1>5, <1>6, <1>7, <2>2, <3>1 DEF Fine
  <2> QED BY <2>1, <2>2
<1>12. FileStep
  <2>1. ASSUME NEW n \in Node
        PROVE  \/ content'[n] = content[n] /\ mtime'[n] = mtime[n]
               \/ n \in Target /\ state'[n] = "done" /\ ninfo'[n].csig # None /\ mtime'[n] = mtime[n] + 1
    <3>1. ninfo'[t].csig = r
      BY <1>7
    <3> QED BY <1>4, <1>5, <1>6, <1>8, <3>1
  <2> QED BY <2>1 DEF FileStep
<1>13. content'[t] = Result(t)'
  BY <1>2, <1>5, <1>9, <1>10, CalmResult
<1>14. (\A u \in Target : u # t => state'[u] = state[u]) /\ (\A s \in Source : state'[s] = state[s])
  BY <1>1, <1>4, NodeFacts
<1> QED BY <1>1, <1>3, <1>7, <1>8, <1>9, <1>10, <1>11, <1>12, <1>13, <1>14 DEF CalmStep

\* When nothing more can be looked at, all that was scanned is done: of the
\* targets that are not, the first in the order of the sources could go on.
LEMMA CalmAllDone ==
  ASSUME Typed, Calm, EndBuild, NEW t \in Target, children[t] # <<>>
  PROVE  state[t] = "done"
<1>1. PICK rank \in [Target -> 0 .. Cardinality(Target)] :
        \A x, u \in Target : u \in Range(Sources[x]) => rank[u] < rank[x]
  BY SConsignAssumption
<1>2. PICK B : B = {u \in Target : children[u] # <<>> /\ state[u] # "done"}
  OBVIOUS
<1>3. PICK m : m = Cardinality(Target)
  OBVIOUS
<1>4. m \in Nat /\ m \in Int /\ 0 \in Int
  BY <1>3, SConsignAssumption, FS_CardinalityType
<1>5. SUFFICES ASSUME B # {} PROVE FALSE
  BY <1>2
<1>6. PICK R : R = {rank[u] : u \in B}
  OBVIOUS
<1>7. R \subseteq 0 .. m /\ R # {}
  BY <1>1, <1>2, <1>3, <1>5, <1>6
<1>8. PICK k \in R : \A y \in R : k <= y
  BY <1>4, <1>7, LeastIn
<1>9. PICK u \in B : k = rank[u]
  BY <1>6, <1>8
<1>10. u \in Target /\ u \in Node /\ children[u] # <<>> /\ state[u] # "done"
  BY <1>2, NodeFacts
<1>11. pc = "build" /\ (\A x \in Target : state[x] # "running") /\ (\A s \in Source : ~Reached(s))
       /\ \A x \in Target : ~Considered(x) /\ ~(Reached(x) /\ children[x] = <<>>)
  BY DEF EndBuild
<1>12. \A n \in Node : state[n] # "failed"
  BY DEF Calm, Fine
<1>13. state[u] = "none" /\ Reached(u)
  <2>1. state[u] = "none"
    BY <1>10, <1>11, <1>12 DEF Typed, TypeOK
  <2>2. ~stopped /\ (u = Top \/ \E x \in Target : u \in Range(children[x]))
    BY <1>10 DEF Calm
  <2> QED BY <1>11, <2>1, <2>2 DEF Reached
<1>14. PICK n \in Range(children[u]) : state[n] # "done"
  BY <1>10, <1>11, <1>13 DEF Considered
<1>15. n \in Node
  <2>1. PICK i \in DOMAIN children[u] : n = children[u][i]
    BY <1>14 DEF Range
  <2> QED BY <1>10, <2>1, CalmChildren
<1>16. state[n] = "none"
  BY <1>11, <1>12, <1>14, <1>15, NodeFacts DEF Typed, TypeOK, Calm, Fine
<1>17. Reached(n)
  BY <1>10, <1>11, <1>13, <1>14, <1>16 DEF Reached
<1>18. n \in Target /\ children[n] # <<>>
  BY <1>11, <1>15, <1>17, NodeFacts
<1>19. n \in Range(Sources[u])
  BY <1>10, <1>14, <1>18, CalmChildren
<1>20. rank[n] < rank[u] /\ n \in B
  BY <1>1, <1>2, <1>10, <1>14, <1>18, <1>19
<1>21. rank[n] \in R
  BY <1>6, <1>20
<1>22. rank[u] <= rank[n]
  BY <1>8, <1>9, <1>21
<1>23. rank[n] \in 0 .. m /\ rank[u] \in 0 .. m
  BY <1>1, <1>3, <1>10, <1>18
<1> QED BY <1>4, <1>20, <1>22, <1>23

\* So is the end of a build, when nothing is left.
LEMMA CalmEnd ==
  ASSUME Typed, Calm, EndBuild PROVE CalmStep
<1>1. /\ content' = content /\ mtime' = mtime /\ db' = db /\ tmp' = tmp /\ children' = children
      /\ edited' = edited /\ ninfo' = ninfo /\ state' = state /\ pc = "build" /\ pc' = "write"
      /\ stopped' = stopped /\ \A t \in Target : state[t] # "running"
  BY DEF EndBuild, disk, memory
<1>2. ASSUME NEW s \in Source, state[s] = "done" PROVE ninfo[s].csig # None
  <2>1. PICK u \in Target : s \in Range(children[u])
    BY <1>2 DEF Calm
  <2>2. children[u] # <<>>
    BY <2>1 DEF Range
  <2>3. Ready(u)
    BY <2>2, CalmAllDone DEF Calm, Begun
  <2>4. PICK i \in DOMAIN children[u] : s = children[u][i]
    BY <2>1 DEF Range
  <2> QED BY <2>3, <2>4 DEF Ready
<1>3. SourcesRead'
  BY <1>1, <1>2 DEF SourcesRead
<1>4. Quiet /\ FileStep
  BY <1>1 DEF Quiet, FileStep
<1>5. ASSUME NEW n \in Node PROVE Fine(n)'
  <2>1. Fine(n)
    BY DEF Calm
  <2> QED BY <1>1, <2>1 DEF Fine
<1> QED BY <1>1, <1>3, <1>4, <1>5 DEF CalmStep, Calm


\* Between two builds.
LEMMA CalmIdle ==
  ASSUME pc' = "idle", ~stopped', Sleeping',
         \A n \in Node : SameTime(n, db[n])', \A t \in Target : Matches(t, db[t])'
  PROVE  Calm'
<1>1. \A n \in Node : Fine(n)'
  BY DEF Fine, Sleeping
<1>2. \A t \in Target : state'[t] = "none" /\ children'[t] = <<>>
  BY NodeFacts DEF Sleeping
<1>3. \A s \in Source : state'[s] = "none"
  BY NodeFacts DEF Sleeping
<1>4. SourcesRead' /\ Begun'
  BY <1>2, <1>3 DEF SourcesRead, Begun
<1> QED BY <1>1, <1>2, <1>3, <1>4 DEF Calm

\* Files that get newer between builds, and targets that go, disturb nothing.
LEMMA CalmTouch ==
  ASSUME Typed, Calm, pc = "idle", UNCHANGED <<db, pc, state, children, ninfo, stopped>>,
         \A n \in Node :
           \/ content'[n] = content[n] /\ mtime'[n] = mtime[n]
           \/ n \in Source /\ mtime'[n] = mtime[n] + 1
           \/ n \in Target /\ mtime'[n] = mtime[n] /\ content'[n] = Absent
  PROVE  Calm'
<1>1. Sleeping' /\ ~stopped'
  BY DEF Calm, Sleeping
<1>2. ASSUME NEW n \in Node PROVE SameTime(n, db[n])'
  <2>1. PICK e : e = db[n]
    OBVIOUS
  <2>2. SameTime(n, db[n]) /\ mtime[n] \in Nat
    BY DEF Calm, Typed
  <2>3. e.stamp \in Nat /\ e.stamp <= mtime[n]
        /\ (content[n] # Absent /\ e.csig # None /\ e.stamp = mtime[n] => e.csig = content[n])
    BY <2>1, <2>2 DEF SameTime
  <2>4. e.stamp <= mtime'[n]
        /\ (content'[n] # Absent /\ e.csig # None /\ e.stamp = mtime'[n] => e.csig = content'[n])
    BY <2>2, <2>3
  <2> QED BY <2>1, <2>3, <2>4 DEF SameTime
<1>3. ASSUME NEW t \in Target PROVE Matches(t, db[t])'
  <2>1. t \in Node /\ t \notin Source /\ state[t] = "none"
    BY NodeFacts DEF Calm, Sleeping
  <2>2. PICK e : e = db[t]
    OBVIOUS
  <2>3. Matches(t, db[t])
    BY <2>1 DEF Calm
  <2>4. content[t] # Absent /\ e.deps # <<>> => content[t] = Product(t, e.deps) /\ e.stamp = mtime[t]
    BY <2>2, <2>3 DEF Matches
  <2> QED BY <2>1, <2>2, <2>4 DEF Matches, Product
<1> QED BY <1>1, <1>2, <1>3, CalmIdle

\* People edit between builds.
LEMMA CalmEdit ==
  ASSUME Typed, Calm, ~world.disturbed, NEW s \in Source, Edit(s) PROVE Calm'
<1>1. PICK v \in Version : content' = [content EXCEPT ![s] = Original(s, v)]
  BY DEF Edit
<1>2. pc = "idle" /\ mtime' = [mtime EXCEPT ![s] = @ + 1]
      /\ UNCHANGED <<db, pc, state, children, ninfo, stopped>>
  BY DEF Edit, memory
<1>3. s \in Node
  BY NodeFacts
<1>4. ASSUME NEW n \in Node
      PROVE  \/ content'[n] = content[n] /\ mtime'[n] = mtime[n]
             \/ n \in Source /\ mtime'[n] = mtime[n] + 1
  BY <1>1, <1>2, <1>3 DEF Typed
<1> QED BY <1>2, <1>4, CalmTouch

\* They delete targets.
LEMMA CalmDelete ==
  ASSUME Typed, Calm, NEW t \in Target, Delete(t) PROVE Calm'
<1>1. pc = "idle" /\ content' = [content EXCEPT ![t] = Absent] /\ mtime' = mtime
      /\ UNCHANGED <<db, pc, state, children, ninfo, stopped>>
  BY DEF Delete, memory
<1>2. t \in Node
  BY NodeFacts
<1>3. ASSUME NEW n \in Node
      PROVE  \/ content'[n] = content[n] /\ mtime'[n] = mtime[n]
             \/ n \in Target /\ mtime'[n] = mtime[n] /\ content'[n] = Absent
  BY <1>1, <1>2 DEF Typed
<1> QED BY <1>1, <1>3, CalmTouch

\* Days go by.
LEMMA CalmWait ==
  ASSUME Typed, Calm, Wait PROVE Calm'
<1>1. pc = "idle" /\ content' = content /\ mtime' = mtime
      /\ UNCHANGED <<db, pc, state, children, ninfo, stopped>>
  BY DEF Wait, memory
<1> QED BY <1>1, CalmTouch

\* Steps that concern no file.
LEMMA CalmSame ==
  ASSUME Calm, UNCHANGED <<content, mtime, db, tmp, state, children, ninfo, stopped>>,
         pc' = pc \/ (pc = "idle" /\ pc' = "build")
  PROVE  Calm'
<1>2. ASSUME NEW t \in Target PROVE Children(t)' = Children(t) /\ Result(t)' = Result(t)
  BY DEF Result, Children, Included, Product
<1>3. ~stopped' /\ (pc' = "idle" => Sleeping') /\ (pc' # "build" => \A t \in Target : state'[t] # "running")
      /\ (pc' # "build" => SourcesRead')
  BY DEF Calm, Sleeping, SourcesRead
<1>4. ASSUME NEW n \in Node
      PROVE  Fine(n)' /\ SameTime(n, db[n])' /\ (pc' = "unlinked" => SameTime(n, tmp[n])')
  BY DEF Calm, Fine, SameTime
<1>5. ASSUME NEW t \in Target
      PROVE  /\ Matches(t, db[t])' \/ (state'[t] = "done" /\ ninfo'[t].csig # None)
             /\ pc' = "unlinked" => Matches(t, tmp[t])'
             /\ pc' # "unlinked" /\ state'[t] = "done" => ninfo'[t].csig # None \/ db'[t].stamp = mtime'[t]
  BY DEF Calm, Matches, Product
<1>6. Begun'
  BY DEF Calm, Begun, Ready
<1>7. ASSUME NEW t \in Target
      PROVE  /\ children'[t] # <<>> =>
                  children'[t] = Children(t)' /\ (t = Top \/ \E u \in Target : t \in Range(children'[u]))
             /\ state'[t] = "done" => content'[t] = Result(t)'
  BY <1>2 DEF Calm
<1>8. \A s \in Source : state'[s] = "done" => \E u \in Target : s \in Range(children'[u])
  BY DEF Calm
<1> QED BY <1>3, <1>4, <1>5, <1>6, <1>7, <1>8 DEF Calm

\* What is merged has the signature that belongs to its time stamp.
LEMMA CalmUnlink ==
  ASSUME Typed, Calm, Unlink PROVE Calm'
<1>1. /\ pc = "write" /\ pc' = "unlinked" /\ db' = [n \in Node |-> NoEntry] /\ tmp' = Entries
      /\ content' = content /\ mtime' = mtime /\ state' = state /\ children' = children
      /\ ninfo' = ninfo /\ stopped' = stopped
  BY DEF Unlink, disk, memory
<1>2. ASSUME NEW n \in Node PROVE SameTime(n, db[n])'
  <2>1. mtime[n] \in Nat /\ 1 <= mtime[n]
    BY DEF Typed
  <2>2. db'[n].stamp = 0 /\ db'[n].csig = None
    BY <1>1 DEF NoEntry
  <2> QED BY <1>1, <2>1, <2>2 DEF SameTime
<1>3. ASSUME NEW t \in Target PROVE Matches(t, db[t])'
  <2>1. db'[t].deps = <<>>
    BY <1>1, NodeFacts DEF NoEntry
  <2> QED BY <2>1 DEF Matches
<1>4. ASSUME NEW n \in Node, state[n] = "done"
      PROVE  /\ tmp'[n].stamp = mtime[n]
             /\ tmp'[n].csig # None => tmp'[n].csig = content[n]
             /\ n \in Target => tmp'[n].deps = Now(n)
  <2>1. PICK e : e = Merged(n)
    OBVIOUS
  <2>2. tmp'[n] = e
    BY <1>1, <1>4, <2>1 DEF Entries, Stored
  <2>3. Fine(n) /\ SameTime(n, db[n])
    BY DEF Calm
  <2>4. e.stamp = ninfo[n].stamp /\ ninfo[n].stamp = mtime[n] /\ content[n] # Absent
    BY <1>4, <2>1, <2>3 DEF Fine, Merged
  <2>5. n \in Target => e.deps = Now(n)
    BY <2>1 DEF Merged
  <2>6. CASE ninfo[n].csig # None
    <3>1. e.csig = ninfo[n].csig
      BY <2>1, <2>6 DEF Merged
    <3> QED BY <2>2, <2>3, <2>4, <2>5, <2>6, <3>1 DEF Fine
  <2>7. CASE ninfo[n].csig = None
    <3>1. e.csig = db[n].csig
      BY <2>1, <2>7 DEF Merged
    <3>2. n \in Target
      BY <1>1, <1>4, <2>7, NodeFacts DEF Calm, SourcesRead
    <3>3. db[n].stamp = mtime[n]
      BY <1>1, <1>4, <2>7, <3>2 DEF Calm
    <3> QED BY <2>2, <2>3, <2>4, <2>5, <3>1, <3>3 DEF SameTime
  <2> QED BY <2>6, <2>7
<1>5. ASSUME NEW n \in Node, state[n] # "done" PROVE tmp'[n] = db[n]
  BY <1>1, <1>5 DEF Entries, Stored
<1>6. ASSUME NEW n \in Node PROVE SameTime(n, tmp[n])'
  <2>1. mtime[n] \in Nat /\ SameTime(n, db[n])
    BY DEF Typed, Calm
  <2>2. CASE state[n] = "done"
    BY <1>1, <1>4, <2>1, <2>2 DEF SameTime
  <2>3. CASE state[n] # "done"
    <3>1. tmp'[n] = db[n]
      BY <1>5, <2>3
    <3> QED BY <1>1, <2>1, <3>1 DEF SameTime
  <2> QED BY <2>2, <2>3
<1>7. ASSUME NEW t \in Target PROVE Matches(t, tmp[t])'
  <2>1. t \in Node
    BY NodeFacts
  <2>2. CASE state[t] = "done"
    <3>1. tmp'[t].stamp = mtime[t] /\ tmp'[t].deps = Now(t)
      BY <1>4, <2>1, <2>2
    <3>2. content[t] = Product(t, Now(t))
      <4>1. ChildrenDone(t) /\ content[t] = Result(t)
        BY <2>2, ReadyDone DEF Calm, Begun
      <4> QED BY <4>1, CalmNow
    <3>3. PICK X : X = Now(t)
      OBVIOUS
    <3> QED BY <1>1, <3>1, <3>2, <3>3 DEF Matches, Product
  <2>3. CASE state[t] # "done"
    <3>1. tmp'[t] = db[t] /\ Matches(t, db[t])
      BY <1>5, <2>1, <2>3 DEF Calm
    <3> QED BY <1>1, <3>1 DEF Matches, Product
  <2> QED BY <2>2, <2>3
<1>8. ASSUME NEW t \in Target PROVE Children(t)' = Children(t) /\ Result(t)' = Result(t)
  BY <1>1 DEF Result, Children, Included, Product
<1>9. ~stopped' /\ (\A t \in Target : state'[t] # "running") /\ SourcesRead' /\ Begun'
  BY <1>1 DEF Calm, SourcesRead, Begun, Ready
<1>10. \A n \in Node : Fine(n)'
  BY <1>1 DEF Calm, Fine
<1>11. ASSUME NEW t \in Target
       PROVE  /\ children'[t] # <<>> =>
                   children'[t] = Children(t)' /\ (t = Top \/ \E u \in Target : t \in Range(children'[u]))
              /\ state'[t] = "done" => content'[t] = Result(t)'
  BY <1>1, <1>8 DEF Calm
<1>12. \A s \in Source : state'[s] = "done" => \E u \in Target : s \in Range(children'[u])
  BY <1>1 DEF Calm
<1> QED BY <1>1, <1>2, <1>3, <1>6, <1>7, <1>9, <1>10, <1>11, <1>12 DEF Calm

\* The new file takes the place of the old one.
LEMMA CalmRename ==
  ASSUME Calm, Rename PROVE Calm'
<1>1. /\ pc = "unlinked" /\ pc' = "idle" /\ content' = content /\ mtime' = mtime /\ db' = tmp
      /\ state' = NewState /\ children' = NewChildren /\ ninfo' = NewInfo /\ stopped' = FALSE
  BY DEF Rename, End, disk
<1>2. Sleeping'
  <2>1. \A n \in Node : state'[n] = "none"
    BY <1>1 DEF NewState
  <2>2. \A n \in Node : ninfo'[n].csig = None /\ ninfo'[n].stamp = 0
    BY <1>1 DEF NewInfo, NoInfo
  <2>3. \A t \in Target : children'[t] = <<>>
    BY <1>1 DEF NewChildren
  <2> QED BY <2>1, <2>2, <2>3 DEF Sleeping
<1>3. \A n \in Node : SameTime(n, db[n])'
  BY <1>1 DEF Calm, SameTime
<1>4. \A t \in Target : Matches(t, db[t])'
  BY <1>1 DEF Calm, Matches, Product
<1> QED BY <1>1, <1>2, <1>3, <1>4, CalmIdle

-----------------------------------------------------------------------------

\* The invariant where builds are left alone.
CalmInv == ~world.disturbed => Calm

\* It holds before the first build.
LEMMA InitCalm == Init => CalmInv
<1> SUFFICES ASSUME Init PROVE Calm
  BY DEF CalmInv
<1>1. pc = "idle" /\ state = NewState /\ children = NewChildren /\ ninfo = NewInfo /\ ~stopped
      /\ \A n \in Node : mtime[n] = 1 /\ db[n] = NoEntry
  BY DEF Init
<1>2. Sleeping
  <2>1. \A n \in Node : state[n] = "none"
    BY <1>1 DEF NewState
  <2>2. \A n \in Node : ninfo[n].csig = None /\ ninfo[n].stamp = 0
    BY <1>1 DEF NewInfo, NoInfo
  <2>3. \A t \in Target : children[t] = <<>>
    BY <1>1 DEF NewChildren
  <2> QED BY <2>1, <2>2, <2>3 DEF Sleeping
<1>3. \A n \in Node : SameTime(n, db[n])
  BY <1>1 DEF SameTime, NoEntry
<1>4. \A t \in Target : Matches(t, db[t])
  <2>1. \A t \in Target : db[t].deps = <<>>
    BY <1>1, NodeFacts DEF NoEntry
  <2> QED BY <2>1 DEF Matches
<1>5. \A n \in Node : Fine(n)
  BY <1>2 DEF Fine, Sleeping
<1>6. /\ \A t \in Target : state[t] = "none" /\ children[t] = <<>>
      /\ \A s \in Source : state[s] = "none"
  BY <1>2, NodeFacts DEF Sleeping
<1>7. SourcesRead /\ Begun
  BY <1>6 DEF SourcesRead, Begun
<1> QED BY <1>1, <1>2, <1>3, <1>4, <1>5, <1>6, <1>7 DEF Calm

\* Every step keeps it.
LEMMA CalmKept == Typed /\ Typed' /\ CalmInv /\ [Next]_vars => CalmInv'
<1> SUFFICES ASSUME Typed, Calm, [Next]_vars, ~world.disturbed PROVE Calm'
  BY WorldStays DEF CalmInv
<1>1. ASSUME CalmStep PROVE Calm'
  BY <1>1, CalmStepKeeps
<1>2. ASSUME NEW s \in Source, Edit(s) PROVE Calm'
  BY <1>2, CalmEdit
<1>3. ASSUME NEW s \in Source, VisitSource(s) PROVE Calm'
  BY <1>1, <1>3, CalmVisitSource
<1>4. ASSUME NEW t \in Target, Delete(t) PROVE Calm'
  BY <1>4, CalmDelete
<1>5. ASSUME NEW t \in Target, Scan(t) PROVE Calm'
  BY <1>1, <1>5, CalmScan
<1>6. ASSUME NEW t \in Target, VisitTarget(t) PROVE Calm'
  BY <1>1, <1>6, CalmVisitTarget
<1>7. ASSUME NEW t \in Target, Prepare(t) PROVE Calm'
  BY <1>1, <1>7, CalmPrepare
<1>8. ASSUME NEW t \in Target, Built(t) PROVE Calm'
  BY <1>1, <1>8, CalmBuilt
<1>9. ASSUME NEW t \in Target, Failed(t) PROVE FALSE
  BY <1>9 DEF Failed
<1>10. CASE Wait
  BY <1>10, CalmWait
<1>11. CASE Start
  BY <1>11, CalmSame DEF Start, disk, memory
<1>12. CASE Stop
  BY <1>12 DEF Stop
<1>13. CASE EndBuild
  BY <1>1, <1>13, CalmEnd
<1>14. CASE Unlink
  BY <1>14, CalmUnlink
<1>15. CASE Rename
  BY <1>15, CalmRename
<1>16. CASE Crash
  BY <1>16 DEF Crash
<1>17. CASE UNCHANGED vars
  BY <1>17, CalmSame DEF vars, disk, memory
<1> QED BY <1>2, <1>3, <1>4, <1>5, <1>6, <1>7, <1>8, <1>9, <1>10, <1>11, <1>12, <1>13,
           <1>14, <1>15, <1>16, <1>17 DEF Next

-----------------------------------------------------------------------------
(* The theorems.  A world in which builds are disturbed and a file also gets *)
(* back a content that it had, or a signature is taken unread, is left out:  *)
(* there OnePointInTime fails, and with it what follows from it.             *)

Apart == \A w \in Worlds : w.disturbed => ~w.reverts /\ ~w.aging

Inv == Typed /\ RoughInv /\ CalmInv

\* Both hold before the first build.
LEMMA InitInv == Init => Inv
BY InitTyped, InitRough, InitCalm DEF Inv

\* Every step keeps both.
LEMMA InvKept == Inv /\ [Next]_vars => Inv'
<1> SUFFICES ASSUME Inv, [Next]_vars PROVE Inv'
  OBVIOUS
<1>1. Typed /\ RoughInv /\ CalmInv
  BY DEF Inv
<1>2. Typed'
  BY <1>1, TypedKept
<1> QED BY <1>1, <1>2, RoughKept, CalmKept DEF Inv

\* In each of the worlds one of them says what is the case.
LEMMA EitherWorld ==
  ASSUME Inv, Apart PROVE Calm \/ \E b : Rough(b)
<1>1. world \in Worlds
  BY DEF Inv, Typed, TypeOK
<1> QED BY <1>1 DEF Inv, Apart, RoughInv, CalmInv

\* What a build passes as up to date or has built is what the command makes of
\* the dependencies as they are, for any files, sources and includes: after
\* commands that failed and builds that were stopped or killed at any step if
\* no source gets back a content that it had, and with that and with signatures
\* taken unread if builds are left alone (changed, is_up_to_date, get_csig,
\* merge, sync).
THEOREM UpToDateAlways ==
  ASSUME \A w \in Worlds : w.disturbed => ~w.reverts /\ ~w.aging
  PROVE  Spec => []UpToDate
<1>1. Apart
  BY DEF Apart
<1>2. ASSUME Inv PROVE UpToDate
  <2>1. CASE Calm
    BY <2>1 DEF Calm, UpToDate
  <2>2. ASSUME NEW b, Rough(b) PROVE UpToDate
    BY <2>2, RoughUpToDate
  <2> QED BY <1>1, <1>2, <2>1, <2>2, EitherWorld
<1>3. Inv => UpToDate
  BY <1>2
<1> QED BY <1>3, InitInv, InvKept, PTL DEF Spec

-----------------------------------------------------------------------------
(* After a build in which all went well: Top and all it depends on, directly *)
(* or not, is there, with the contents of what it depends on in its record.  *)

\* Where the records are.
Record(t) == IF pc = "unlinked" THEN tmp[t].deps ELSE db[t].deps

SettledAt(S) ==
  /\ S \subseteq Target /\ Top \in S
  /\ pc # "idle" => edited = {}
  /\ \A t \in Target : state[t] # "running"
  /\ \A t \in Target : children[t] # <<>> => t \in S
  /\ \A t \in S :
       /\ content[t] # Absent /\ Record(t) = Inputs(t)
       /\ \A n \in Target : n \in Range(Children(t)) => n \in S

\* What was done is in the new file with the signatures that the build knows.
Written ==
  pc = "unlinked" => \A t \in Target : state[t] = "done" => tmp[t].deps = Sigs(t)

\* What holds while the property says that all is settled.
SettledInv == Written /\ (settled => \E S : SettledAt(S))

\* In a build during which nothing was edited, what is known is the case, in
\* either kind of world.
LEMMA Trusted ==
  ASSUME Inv, Apart, pc # "idle", edited = {}
  PROVE  /\ \A t \in Target : children[t] # <<>> =>
              /\ children[t] = Children(t)
              /\ \A i \in DOMAIN children[t] : children[t][i] \in Node
         /\ \A n \in Node : state[n] = "done" => GetCsig(n) = content[n]
         /\ \A t \in Target : state[t] = "done" => content[t] # Absent /\ Ready(t)
<1>1. Typed
  BY DEF Inv
<1>2. CASE Calm
  <2>1. \A t \in Target : state[t] = "done" => content[t] # Absent /\ Ready(t)
    BY <1>2, NodeFacts DEF Calm, Fine, Begun
  <2> QED BY <1>1, <1>2, <2>1, CalmChildren, CalmCsig
<1>3. ASSUME NEW b, Rough(b)
      PROVE  /\ \A t \in Target : children[t] # <<>> =>
                  /\ children[t] = Children(t)
                  /\ \A i \in DOMAIN children[t] : children[t][i] \in Node
             /\ \A n \in Node : state[n] = "done" => GetCsig(n) = content[n]
             /\ \A t \in Target : state[t] = "done" => content[t] # Absent /\ Ready(t)
  <2>1. ASSUME NEW t \in Target, children[t] # <<>> PROVE children[t] = Children(t)
    <3>1. PICK v : ScannedAt(t, b, v)
      BY <1>3, <2>1 DEF Rough, Scanned
    <3>2. v \in Vers /\ AtMost(b, v) /\ AtMost(v, Cur) /\ children[t] = Listed(t, v)
      BY <3>1 DEF ScannedAt
    <3>3. b \in Vers /\ Cur \in Vers
      BY <1>1, <1>3, CurFacts DEF Rough, Based
    <3>4. ASSUME NEW s \in Source PROVE v[s] = Cur[s]
      <4>1. b[s] = Cur[s]
        BY <1>3 DEF Rough, Based
      <4>2. b[s] <= v[s] /\ v[s] <= Cur[s] /\ v[s] \in Nat /\ Cur[s] \in Nat
        BY <3>2, <3>3, VersFacts DEF AtMost
      <4> QED BY <4>1, <4>2
    <3>5. Listed(t, v) = Listed(t, Cur)
      BY <3>2, <3>3, <3>4, ListedSame
    <3> QED BY <3>2, <3>5, ChildrenListed
  <2>2. ASSUME NEW n \in Node, state[n] = "done" PROVE GetCsig(n) = content[n]
    BY <1>1, <1>3, <2>2, SigFacts, NodeFacts
  <2>3. ASSUME NEW t \in Target, state[t] = "done" PROVE content[t] # Absent /\ Ready(t)
    <3>1. IsProduct(t) /\ Ready(t)
      BY <1>3, <2>3 DEF Rough, Finished, Begun
    <3> QED BY <3>1, ProductOnly DEF IsProduct
  <2> QED BY <1>3, <2>1, <2>2, <2>3, ChildFacts
<1> QED BY <1>2, <1>3, EitherWorld

\* What a build that was not disturbed would record.
LEMMA NowInputs ==
  ASSUME Inv, Apart, pc # "idle", edited = {}, NEW t \in Target, ChildrenDone(t)
  PROVE  Now(t) = Inputs(t)
<1>1. children[t] # <<>> /\ children[t] = Children(t) /\ \A i \in DOMAIN children[t] : children[t][i] \in Node
  BY Trusted DEF ChildrenDone
<1>2. PICK L : L = children[t]
  OBVIOUS
<1>3. ASSUME NEW i \in DOMAIN L PROVE GetCsig(L[i]) = content[L[i]]
  BY <1>1, <1>2, Trusted DEF ChildrenDone
<1>4. Now(t) = [i \in DOMAIN L |-> GetCsig(L[i])]
  BY <1>2 DEF Now
<1>5. Inputs(t) = [i \in DOMAIN L |-> content[L[i]]]
  BY <1>1, <1>2 DEF Inputs
<1> QED BY <1>3, <1>4, <1>5

\* What a command reads changes only with the disk.
LEMMA InputsStay ==
  ASSUME content' = content, NEW t
  PROVE  Inputs(t)' = Inputs(t) /\ Children(t)' = Children(t)
BY DEF Inputs, Children, Included

\* A build that finds all settled reaches nothing else.
LEMMA ReachedSettled ==
  ASSUME Inv, Apart, NEW S, SettledAt(S), NEW t \in Target, Reached(t) PROVE t \in S
<1>1. pc = "build" /\ pc # "idle" /\ edited = {}
  BY DEF Reached, SettledAt
<1>2. CASE t = Top
  BY <1>2 DEF SettledAt
<1>3. ASSUME NEW u \in Target, t \in Range(children[u]) PROVE t \in S
  <2>1. children[u] # <<>>
    BY <1>3 DEF Range
  <2>2. u \in S /\ children[u] = Children(u)
    BY <1>1, <2>1, Trusted DEF SettledAt
  <2> QED BY <1>3, <2>2 DEF SettledAt
<1> QED BY <1>2, <1>3 DEF Reached

\* It finds nothing out of date.
LEMMA SettledPrepare ==
  ASSUME Inv, Apart, NEW S, SettledAt(S), NEW t \in Target, Prepare(t) PROVE FALSE
<1>1. Considered(t) /\ Reached(t) /\ ~IsUpToDate(t)
  BY DEF Prepare, Considered
<1>2. t \in S /\ ChildrenDone(t) /\ pc = "build"
  BY <1>1, ReachedSettled, ConsideredFacts
<1>3. content[t] # Absent /\ db[t].deps = Inputs(t) /\ edited = {}
  BY <1>2 DEF SettledAt, Record
<1>4. Now(t) = Inputs(t)
  BY <1>2, <1>3, NowInputs
<1> QED BY <1>1, <1>3, <1>4 DEF IsUpToDate, Changed

\* While all is settled no command runs.
LEMMA SettledRuns ==
  ASSUME Inv, Apart, NEW S, SettledAt(S), [Next]_vars, NEW u \in Target
  PROVE  state'[u] # "running"
<1>1. \A t \in Target : state[t] # "running"
  BY DEF SettledAt
<1>2. state \in [Node -> {"none", "running", "done", "failed"}] /\ u \in Node
  BY NodeFacts DEF Inv, Typed, TypeOK
<1>3. ASSUME NEW n \in Node, state' = [state EXCEPT ![n] = "done"] PROVE state'[u] # "running"
  BY <1>1, <1>2, <1>3
<1>4. ASSUME state' = state PROVE state'[u] # "running"
  BY <1>1, <1>4
<1>5. ASSUME state' = NewState PROVE state'[u] # "running"
  BY <1>2, <1>5 DEF NewState
<1>6. ASSUME NEW s \in Source, Edit(s) \/ VisitSource(s) PROVE state'[u] # "running"
  BY <1>3, <1>4, <1>6, NodeFacts DEF Edit, VisitSource, memory
<1>7. ASSUME NEW t \in Target, Delete(t) \/ Scan(t) \/ VisitTarget(t) PROVE state'[u] # "running"
  BY <1>3, <1>4, <1>7, NodeFacts DEF Delete, Scan, VisitTarget, memory
<1>8. ASSUME NEW t \in Target, Prepare(t) \/ Built(t) \/ Failed(t) PROVE FALSE
  BY <1>1, <1>8, SettledPrepare DEF Built, Failed
<1>9. ASSUME Wait \/ Start \/ Stop \/ EndBuild \/ Unlink \/ UNCHANGED vars PROVE state'[u] # "running"
  BY <1>4, <1>9 DEF Wait, Start, Stop, EndBuild, Unlink, vars, memory
<1>10. ASSUME Rename \/ Crash PROVE state'[u] # "running"
  BY <1>5, <1>10 DEF Rename, Crash, End
<1> QED BY <1>6, <1>7, <1>8, <1>9, <1>10 DEF Next


\* The new file gets what the build knows (DB.write).
LEMMA WrittenKept ==
  ASSUME Inv, Apart, Written, [Next]_vars, pc' = "unlinked" PROVE Written'
<1>1. (pc # "build" => \A t \in Target : state[t] # "running") /\ Begun
  <2>1. CASE Calm
    BY <2>1 DEF Calm
  <2>2. ASSUME NEW b, Rough(b) PROVE (pc # "build" => \A t \in Target : state[t] # "running") /\ Begun
    BY <2>2 DEF Rough, Rested
  <2> QED BY <2>1, <2>2, EitherWorld
<1>2. CASE Unlink
  <2>1. tmp' = Entries /\ children' = children /\ ninfo' = ninfo /\ state' = state
    BY <1>2 DEF Unlink, memory
  <2>2. ASSUME NEW t \in Target, state[t] = "done" PROVE tmp'[t].deps = Sigs(t)
    <3>1. t \in Node /\ t \in Stored /\ Ready(t)
      BY <1>1, <2>2, NodeFacts DEF Stored, Begun
    <3>2. tmp'[t].deps = Now(t)
      BY <2>1, <2>2, <3>1 DEF Entries, Merged
    <3> QED BY <3>1, <3>2, NowSigs
  <2>3. \A t \in Target : Sigs(t)' = Sigs(t)
    BY <2>1 DEF Sigs
  <2> QED BY <2>1, <2>2, <2>3 DEF Written
<1>3. ASSUME pc = "unlinked", UNCHANGED <<tmp, children, ninfo, state>> PROVE Written'
  <2>1. \A t \in Target : Sigs(t)' = Sigs(t)
    BY <1>3 DEF Sigs
  <2> QED BY <1>3, <2>1 DEF Written
<1>4. ASSUME NEW s \in Source, Edit(s) PROVE Written'
  <2>1. pc' = pc /\ UNCHANGED <<tmp, children, ninfo, state>>
    BY <1>4 DEF Edit, memory
  <2> QED BY <1>3, <2>1
<1>5. ASSUME NEW s \in Source, VisitSource(s) PROVE FALSE
  BY <1>5 DEF VisitSource, Reached
<1>6. ASSUME NEW t \in Target, Scan(t) \/ VisitTarget(t) \/ Prepare(t) PROVE FALSE
  BY <1>6 DEF Scan, VisitTarget, Prepare, Considered, Reached
<1>7. ASSUME NEW t \in Target, Built(t) \/ Failed(t) PROVE FALSE
  BY <1>1, <1>7 DEF Built, Failed
<1>8. ASSUME NEW t \in Target, Delete(t) PROVE FALSE
  BY <1>8 DEF Delete
<1>9. ASSUME Wait \/ Start \/ Stop \/ EndBuild \/ Rename \/ Crash PROVE FALSE
  BY <1>9 DEF Wait, Start, Stop, EndBuild, Rename, Crash, End
<1>10. ASSUME UNCHANGED vars PROVE Written'
  BY <1>3, <1>10 DEF vars, memory
<1> QED BY <1>2, <1>4, <1>5, <1>6, <1>7, <1>8, <1>9, <1>10 DEF Next

\* A step that changes no content and no record.
LEMMA SettledStays ==
  ASSUME NEW S, SettledAt(S), content' = content,
         pc' # "idle" => edited' = {},
         \A t \in Target : state'[t] # "running",
         \A t \in Target : children'[t] # <<>> => t \in S,
         \A t \in S : Record(t)' = Record(t)
  PROVE  SettledAt(S)'
<1>1. \A t \in Target : Inputs(t)' = Inputs(t) /\ Children(t)' = Children(t)
  BY InputsStay
<1> QED BY <1>1 DEF SettledAt

\* That the new file is written changes no record of what is settled.
LEMMA SettledUnlink ==
  ASSUME Inv, Apart, NEW S, SettledAt(S), Unlink, NEW t \in S PROVE Record(t)' = Record(t)
<1>1. pc = "write" /\ pc' = "unlinked" /\ tmp' = Entries /\ edited = {} /\ t \in Target /\ t \in Node
  BY NodeFacts DEF Unlink, SettledAt
<1>2. Record(t) = db[t].deps /\ Record(t)' = tmp'[t].deps /\ Record(t) = Inputs(t)
  BY <1>1 DEF Record, SettledAt
<1>3. CASE state[t] = "done"
  <2>1. Ready(t) /\ ChildrenDone(t)
    BY <1>1, <1>3, Trusted, ReadyDone
  <2>2. Now(t) = Inputs(t)
    BY <1>1, <2>1, NowInputs
  <2>3. tmp'[t].deps = Now(t)
    BY <1>1, <1>3 DEF Entries, Stored, Merged
  <2> QED BY <1>2, <2>2, <2>3
<1>4. CASE state[t] # "done"
  <2>1. tmp'[t] = db[t]
    BY <1>1, <1>4 DEF Entries, Stored
  <2> QED BY <1>2, <2>1
<1> QED BY <1>3, <1>4

\* After a build that made its target and saw no edit all is settled.
LEMMA NewlySettled ==
  ASSUME Inv, Apart, Written, Rename, state[Top] = "done", edited = {}
  PROVE  \E S : SettledAt(S)'
<1>1. /\ pc = "unlinked" /\ pc' = "idle" /\ content' = content /\ db' = tmp
      /\ state' = NewState /\ children' = NewChildren /\ ninfo' = NewInfo
  BY DEF Rename, End, disk
<1>2. PICK S : S = {t \in Target : state[t] = "done"}
  OBVIOUS
<1>3. (\A t \in Target : state'[t] # "running" /\ children'[t] = <<>>) /\ pc # "idle"
  BY <1>1, NodeFacts DEF NewState, NewChildren
<1>4. ASSUME NEW t \in S
      PROVE  /\ content'[t] # Absent /\ Record(t)' = Inputs(t)'
             /\ \A n \in Target : n \in Range(Children(t)') => n \in S
  <2>1. t \in Target /\ state[t] = "done"
    BY <1>2
  <2>2. content[t] # Absent /\ Ready(t) /\ ChildrenDone(t) /\ children[t] = Children(t)
    <3>1. content[t] # Absent /\ Ready(t)
      BY <1>3, <2>1, Trusted
    <3>2. ChildrenDone(t)
      BY <3>1, ReadyDone
    <3> QED BY <1>3, <2>1, <3>1, <3>2, Trusted DEF ChildrenDone
  <2>3. Record(t)' = Sigs(t)
    BY <1>1, <2>1 DEF Record, Written
  <2>4. Sigs(t) = Inputs(t)
    BY <1>3, <2>1, <2>2, NowSigs, NowInputs
  <2>5. Inputs(t)' = Inputs(t) /\ Children(t)' = Children(t)
    BY <1>1, InputsStay
  <2>6. ASSUME NEW n \in Target, n \in Range(Children(t)) PROVE n \in S
    <3>1. PICK i \in DOMAIN children[t] : n = children[t][i]
      BY <2>2, <2>6 DEF Range
    <3>2. state[n] = "done"
      BY <2>2, <3>1 DEF ChildrenDone
    <3> QED BY <1>2, <3>2
  <2> QED BY <1>1, <2>2, <2>3, <2>4, <2>5, <2>6
<1>5. S \subseteq Target /\ Top \in S
  BY <1>2, NodeFacts
<1>6. SettledAt(S)'
  BY <1>1, <1>3, <1>4, <1>5 DEF SettledAt
<1> QED BY <1>6

\* A kill leaves no part of a target if no command runs.
LEMMA NoneLeft ==
  ASSUME Typed, Crash, \A t \in Target : state[t] # "running" PROVE content' = content
<1>1. PICK left \in [{t \in Target : state[t] = "running"} -> {"none", "part", "all"}] :
        LET written == {t \in DOMAIN left : left[t] # "none"} IN
        /\ content' = [n \in Node |->
             IF n \notin written THEN content[n]
             ELSE IF left[n] = "part" THEN Partial(n) ELSE Result(n)]
        /\ mtime' = [n \in Node |-> IF n \in written THEN mtime[n] + 1 ELSE mtime[n]]
  BY DEF Crash
<1>2. PICK W : W = {t \in DOMAIN left : left[t] # "none"}
  OBVIOUS
<1>3. W = {}
  BY <1>2
<1>4. content' = [n \in Node |->
             IF n \notin W THEN content[n]
             ELSE IF left[n] = "part" THEN Partial(n) ELSE Result(n)]
  BY <1>1, <1>2
<1>5. \A n \in Node : content'[n] = content[n]
  BY <1>3, <1>4
<1>6. content' = [n \in Node |-> content'[n]]
  BY <1>4
<1> QED BY <1>5, <1>6 DEF Typed


\* Once settled, it stays settled while the property says so.
LEMMA SettledKept ==
  ASSUME Inv, Apart, NEW S, SettledAt(S), settled', [Next]_vars
  PROVE  SettledAt(S)'
<1>1. Typed /\ \A t \in Target : state'[t] # "running"
  BY SettledRuns DEF Inv
<1>2. /\ \A t \in Target : state[t] # "running"
      /\ pc # "idle" => edited = {}
      /\ \A t \in Target : children[t] # <<>> => t \in S
  BY DEF SettledAt
<1>3. ASSUME content' = content, pc' = "unlinked" <=> pc = "unlinked", db' = db, tmp' = tmp,
             pc' # "idle" => edited' = {},
             \A t \in Target : children'[t] # <<>> => t \in S
      PROVE  SettledAt(S)'
  <2>1. \A t \in S : Record(t)' = Record(t)
    BY <1>3 DEF Record
  <2> QED BY <1>1, <1>3, <2>1, SettledStays
<1>4. ASSUME NEW s \in Source, Edit(s) PROVE SettledAt(S)'
  <2>1. PICK v \in Version :
          /\ content' = [content EXCEPT ![s] = Original(s, v)]
          /\ settled' = (settled /\ v = content[s].version)
          /\ edited' = IF v # content[s].version /\ pc # "idle" THEN edited \cup {s} ELSE edited
    BY <1>4 DEF Edit
  <2>2. v = content[s].version /\ edited' = edited
    BY <2>1
  <2>3. content[s] = Original(s, v)
    <3>1. PICK x \in Version : content[s] = Original(s, x)
      BY <1>1 DEF Typed, TypeOK
    <3> QED BY <2>2, <3>1, VersionOf
  <2>4. content' = content
    BY <1>1, <2>1, <2>3 DEF Typed
  <2>5. pc' = pc /\ db' = db /\ tmp' = tmp /\ children' = children
    BY <1>4 DEF Edit, memory
  <2> QED BY <1>2, <1>3, <2>2, <2>4, <2>5
<1>5. ASSUME NEW s \in Source, VisitSource(s) PROVE SettledAt(S)'
  BY <1>2, <1>3, <1>5 DEF VisitSource, disk
<1>6. ASSUME NEW t \in Target, Delete(t) PROVE FALSE
  BY <1>6 DEF Delete
<1>7. ASSUME NEW t \in Target, Scan(t) PROVE SettledAt(S)'
  <2>1. t \in S
    BY <1>7, ReachedSettled DEF Scan
  <2>2. content' = content /\ db' = db /\ tmp' = tmp /\ pc' = pc /\ edited' = edited
        /\ children' = [children EXCEPT ![t] = Children(t)]
    BY <1>7 DEF Scan, disk
  <2>3. \A u \in Target : u # t => children'[u] = children[u]
    BY <1>1, <2>2 DEF Typed
  <2> QED BY <1>2, <1>3, <2>1, <2>2, <2>3
<1>8. ASSUME NEW t \in Target, VisitTarget(t) PROVE SettledAt(S)'
  BY <1>2, <1>3, <1>8 DEF VisitTarget, disk
<1>9. ASSUME NEW t \in Target, Prepare(t) \/ Built(t) \/ Failed(t) PROVE FALSE
  BY <1>2, <1>9, SettledPrepare DEF Built, Failed
<1>10. CASE Wait
  BY <1>2, <1>3, <1>10 DEF Wait, memory
<1>11. CASE Start
  BY <1>2, <1>3, <1>11 DEF Start, memory, disk
<1>12. CASE Stop
  BY <1>2, <1>3, <1>12 DEF Stop, disk
<1>13. CASE EndBuild
  BY <1>2, <1>3, <1>13 DEF EndBuild, disk, memory
<1>14. CASE Unlink
  <2>1. \A t \in S : Record(t)' = Record(t)
    BY <1>14, SettledUnlink
  <2>2. content' = content /\ edited' = edited /\ children' = children /\ pc = "write"
    BY <1>14 DEF Unlink, disk, memory
  <2> QED BY <1>1, <1>2, <2>1, <2>2, SettledStays
<1>15. \A t \in Target : NewChildren[t] = <<>>
  BY DEF NewChildren
<1>16. CASE Rename
  <2>1. pc = "unlinked" /\ pc' = "idle" /\ content' = content /\ db' = tmp /\ children' = NewChildren
    BY <1>16 DEF Rename, End, disk
  <2>2. \A t \in S : Record(t)' = Record(t)
    BY <2>1 DEF Record
  <2> QED BY <1>1, <1>15, <2>1, <2>2, SettledStays
<1>17. CASE Crash
  <2>1. pc # "unlinked" /\ pc' = "idle" /\ db' = db /\ tmp' = tmp /\ children' = NewChildren
    BY <1>17 DEF Crash, End
  <2>2. content' = content
    BY <1>1, <1>2, <1>17, NoneLeft
  <2> QED BY <1>3, <1>15, <2>1, <2>2
<1>18. CASE UNCHANGED vars
  BY <1>2, <1>3, <1>18 DEF vars, disk, memory
<1> QED BY <1>4, <1>5, <1>6, <1>7, <1>8, <1>9, <1>10, <1>11, <1>12, <1>13, <1>14,
           <1>16, <1>17, <1>18 DEF Next

\* Every step keeps it.
LEMMA SettledInvKept ==
  ASSUME Apart PROVE Inv /\ SettledInv /\ [Next]_vars => SettledInv'
<1> SUFFICES ASSUME Inv, Written, settled => \E S : SettledAt(S), [Next]_vars PROVE SettledInv'
  BY DEF SettledInv
<1>1. Written'
  <2>1. pc' # "unlinked" => Written'
    BY DEF Written
  <2> QED BY <2>1, WrittenKept
<1>2. ASSUME settled' PROVE \E S : SettledAt(S)'
  <2>1. CASE settled
    <3>1. PICK S : SettledAt(S)
      BY <2>1
    <3>2. SettledAt(S)'
      BY <1>2, <3>1, SettledKept
    <3> QED BY <3>2
  <2>2. CASE ~settled
    <3>1. Rename /\ state[Top] = "done" /\ edited = {}
      BY <1>2, <2>2 DEF Next, vars, Edit, VisitSource, Delete, Scan, VisitTarget, Prepare, Built,
           Failed, Wait, Start, Stop, EndBuild, Unlink, Rename, Crash
    <3> QED BY <3>1, NewlySettled
  <2> QED BY <2>1, <2>2
<1> QED BY <1>1, <1>2 DEF SettledInv

\* After a build in which all went well no command runs until a source gets
\* another content or a target is deleted, for any files, sources and includes:
\* also if sources are touched, and if builds after it are stopped or killed,
\* but for a kill between the two steps of sync (changed, get_csig, merge, sync).
THEOREM NothingToDoAlways ==
  ASSUME \A w \in Worlds : w.disturbed => ~w.reverts /\ ~w.aging
  PROVE  Spec => NothingToDo
<1>1. Apart
  BY DEF Apart
<1>2. Init => SettledInv
  BY DEF Init, SettledInv, Written
<1>3. Inv /\ SettledInv /\ [Next]_vars => SettledInv'
  BY <1>1, SettledInvKept
<1>4. ASSUME Inv, SettledInv, [Next]_vars, settled
      PROVE  \A t \in Target : state'[t] # "running"
  <2>1. PICK S : SettledAt(S)
    BY <1>4 DEF SettledInv
  <2> QED BY <1>1, <1>4, <2>1, SettledRuns
<1>5. Inv /\ SettledInv /\ [Next]_vars => [settled => \A t \in Target : state'[t] # "running"]_vars
  BY <1>4
<1> QED BY <1>2, <1>3, <1>5, InitInv, InvKept, PTL DEF Spec, NothingToDo

=============================================================================
