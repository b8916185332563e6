---------------------------- MODULE RatDBProofs ----------------------------
(* Theorems about RatDB, for any tables, runs, files and documents: a key  *)
(* is asked of the server once, what was set is read back, and a read      *)
(* changes no other read but in the cases that ReadsDoNotDisturb names.    *)
EXTENDS RatDB, FiniteSetTheorems, WellFoundedInduction, TLAPS

-----------------------------------------------------------------------------
(* The inductive invariant.                                                *)

DBType ==
  [tables : [Keys -> Tables \cup {None}], missing : SUBSET Keys,
   asked : [Keys -> 0 .. 2], dead : BOOLEAN]

\* A key that was asked is in memory, or known to be missing.
Once(d) ==
  \A k \in Keys :
    /\ d.asked[k] <= 1
    /\ ~d.dead /\ d.asked[k] = 1 => d.tables[k] # None \/ k \in d.missing

\* The user plane has what was set.
Kept(d, s) ==
  \A f \in Fields :
    ~d.dead /\ s[f] # None => d.tables[User] # None /\ d.tables[User][f].value = s[f]

\* The documents, those of a call of append included.
DocsInv ==
  /\ IsFiniteSet(docs) /\ docs \subseteq DocumentType
  /\ tool.step \in {"idle", "copied", "reset", "upload"}
  /\ tool.step # "idle" => tool.new \in DocumentType /\ tool.new.lo > 0
  /\ tool.step = "copied" => tool.copy \in DocumentType

JobInv ==
  /\ db \in DBType /\ Once(db)
  /\ run \in Runs /\ links \subseteq Runs
  /\ sets \in [Fields -> SetValues \cup {None}]

\* A document is for one plane: default, user, or runs.
OnePlane(doc) == doc.lo > 0 \/ doc.lo = doc.hi
PlanesInv ==
  /\ \A doc \in docs : OnePlane(doc)
  /\ tool.step = "copied" => tool.copy.lo > 0

-----------------------------------------------------------------------------
(* Looking up a key.                                                       *)

Asks(d, k) == ~d.dead /\ d.tables[k] = None /\ Table \in names /\ k \notin d.missing

\* The planes are numbers: user, default, and the runs.
LEMMA KeysFacts == User \in Keys /\ Default \in Keys /\ Runs \subseteq Keys /\ Keys \subseteq Int
BY ServerAssumption DEF Keys, User, Default

\* What the server selects is a document that fills the plane it was asked for.
LEMMA SelectFacts ==
  ASSUME docs \subseteq DocumentType, NEW k \in Keys, NEW doc \in Select(Table, k)
  PROVE  /\ doc \in docs /\ doc.lo \in Int /\ doc.hi \in Int /\ k \in Filled(doc)
         /\ doc.content \in Tables /\ doc.content # None
BY DBAssumption, KeysFacts DEF Select, DocumentType, Filled

\* A lookup is counted;
Counted(e, d, k) ==
  /\ \A j \in Keys : j # k => e.asked[j] = d.asked[j]
  /\ d.asked[k] = 0 => e.asked[k] = 1
Asked(d, k) == [d EXCEPT !.asked[k] = IF @ = 2 THEN 2 ELSE @ + 1]
\* That a key is asked for is counted, and changes no table.
LEMMA AskedFacts ==
  ASSUME NEW d \in DBType, NEW k \in Keys, d.dead = FALSE,
         NEW a, a = Asked(d, k)
  PROVE  /\ a \in DBType /\ a.tables = d.tables /\ a.missing = d.missing /\ a.dead = FALSE
         /\ Counted(a, d, k)
BY DEF DBType, Asked, Counted

\* two documents end the job,
Two(k) == Cardinality(Select(Table, k)) > 1
\* Two documents for one run end the job (GetServerTable).
LEMMA FetchTwo ==
  ASSUME NEW d \in DBType, NEW k \in Keys, d.dead = FALSE, NEW e, e = Fetch(d, k), Two(k)
  PROVE  e \in DBType /\ Counted(e, d, k) /\ e.dead = TRUE /\ e.tables = d.tables
<1>1. PICK a : a = Asked(d, k)
  OBVIOUS
<1>2. a \in DBType /\ a.tables = d.tables /\ Counted(a, d, k)
  BY <1>1, AskedFacts
<1>3. e = [a EXCEPT !.dead = TRUE]
  BY <1>1 DEF Fetch, Two, Asked
<1>4. e \in DBType /\ e.dead = TRUE /\ e.tables = a.tables /\ e.asked = a.asked
  BY <1>2, <1>3 DEF DBType
<1> QED BY <1>2, <1>4 DEF Counted

\* that there is none is noted,
LEMMA FetchNone ==
  ASSUME NEW d \in DBType, NEW k \in Keys, d.dead = FALSE, NEW e, e = Fetch(d, k),
         ~Two(k), Select(Table, k) = {}
  PROVE  /\ e \in DBType /\ Counted(e, d, k) /\ e.dead = FALSE /\ e.tables = d.tables
         /\ e.missing = d.missing \cup {k}
<1>1. PICK a : a = Asked(d, k)
  OBVIOUS
<1>2. /\ a \in DBType /\ a.tables = d.tables /\ a.missing = d.missing /\ a.dead = FALSE
      /\ Counted(a, d, k)
  BY <1>1, AskedFacts
<1>3. e = [a EXCEPT !.missing = d.missing \cup {k}]
  BY <1>1 DEF Fetch, Missing, Two, Asked
<1>4. d.missing \in SUBSET Keys
  BY DEF DBType
<1>5. /\ e \in DBType /\ e.dead = FALSE /\ e.tables = a.tables /\ e.missing = d.missing \cup {k}
      /\ e.asked = a.asked
  BY <1>2, <1>3, <1>4 DEF DBType
<1> QED BY <1>2, <1>5 DEF Counted

\* and one is stored for its whole range.
Stored(e, d, doc) ==
  \A j \in Keys : /\ j \in Filled(doc) => e.tables[j] = doc.content
                  /\ j \notin Filled(doc) => e.tables[j] = d.tables[j]
\* One document is stored in the planes of its range.
LEMMA FetchOne ==
  ASSUME docs \subseteq DocumentType, NEW d \in DBType, NEW k \in Keys, d.dead = FALSE,
         NEW e, e = Fetch(d, k), ~Two(k), NEW doc, doc = CHOOSE x \in Select(Table, k) : TRUE,
         Select(Table, k) # {}
  PROVE  /\ e \in DBType /\ Counted(e, d, k) /\ e.dead = FALSE /\ e.missing = d.missing
         /\ doc \in Select(Table, k) /\ Stored(e, d, doc)
<1>1. PICK a : a = Asked(d, k)
  OBVIOUS
<1>2. /\ a \in DBType /\ a.tables = d.tables /\ a.missing = d.missing /\ a.dead = FALSE
      /\ Counted(a, d, k)
  BY <1>1, AskedFacts
<1>3. doc \in Select(Table, k)
  OBVIOUS
<1>4. PICK G : G = [j \in Keys |-> IF j \in Filled(doc) THEN doc.content ELSE d.tables[j]]
  OBVIOUS
<1>5. doc.content \in Tables
  BY <1>3, SelectFacts
<1>6. G \in [Keys -> Tables \cup {None}]
  BY <1>4, <1>5 DEF DBType
<1>7. e = [a EXCEPT !.tables = G]
  BY <1>1, <1>2, <1>4 DEF Fetch, Two, Asked
<1>8. /\ e \in DBType /\ e.dead = FALSE /\ e.tables = G /\ e.missing = a.missing
      /\ e.asked = a.asked
  BY <1>2, <1>6, <1>7 DEF DBType
<1> QED BY <1>2, <1>3, <1>4, <1>8 DEF Counted, Stored

\* What a lookup does, in three cases.
Answers(e, d, k) ==
  \/ Two(k) /\ e.dead = TRUE /\ e.tables = d.tables
  \/ /\ ~Two(k) /\ Select(Table, k) = {} /\ e.dead = FALSE
     /\ e.tables = d.tables /\ e.missing = d.missing \cup {k}
  \/ /\ ~Two(k) /\ Select(Table, k) # {} /\ e.dead = FALSE /\ e.missing = d.missing
     /\ Stored(e, d, CHOOSE x \in Select(Table, k) : TRUE)
\* What a lookup does: nothing, or it asks the server once and takes its answer.
LEMMA FindFacts ==
  ASSUME docs \subseteq DocumentType, NEW d \in DBType, NEW k \in Keys,
         NEW e, e = FindTable(d, k)
  PROVE  /\ e \in DBType
         /\ ~Asks(d, k) => e = d
         /\ Asks(d, k) => d.dead = FALSE /\ Counted(e, d, k) /\ Answers(e, d, k)
<1>1. Asks(d, k) => d.dead = FALSE
  BY DEF DBType, Asks
<1>2. (~Asks(d, k) => e = d) /\ (Asks(d, k) => e = Fetch(d, k))
  BY DEF FindTable, Asks
<1>3. ASSUME Asks(d, k) PROVE e \in DBType /\ Counted(e, d, k) /\ Answers(e, d, k)
  <2>1. d.dead = FALSE /\ e = Fetch(d, k)
    BY <1>1, <1>2, <1>3
  <2>2. PICK doc : doc = CHOOSE x \in Select(Table, k) : TRUE
    OBVIOUS
  <2>3. CASE Two(k)
    BY <2>1, <2>3, FetchTwo DEF Answers
  <2>4. CASE ~Two(k) /\ Select(Table, k) = {}
    BY <2>1, <2>4, FetchNone DEF Answers
  <2>5. CASE ~Two(k) /\ Select(Table, k) # {}
    <3>1. /\ e \in DBType /\ Counted(e, d, k) /\ e.dead = FALSE /\ e.missing = d.missing
          /\ Stored(e, d, doc)
      BY <2>1, <2>2, <2>5, FetchOne
    <3> QED BY <2>2, <2>5, <3>1 DEF Answers
  <2> QED BY <2>3, <2>4, <2>5
<1> QED BY <1>1, <1>2, <1>3

\* The document that is taken is one of those selected.
LEMMA ChosenFacts ==
  ASSUME docs \subseteq DocumentType, NEW k \in Keys, Select(Table, k) # {},
         NEW doc, doc = CHOOSE x \in Select(Table, k) : TRUE
  PROVE  /\ doc \in Select(Table, k) /\ doc \in docs /\ k \in Filled(doc)
         /\ doc.content \in Tables /\ doc.content # None
<1>1. doc \in Select(Table, k)
  OBVIOUS
<1> QED BY <1>1, SelectFacts

\* A key is asked once: the answer stays.
LEMMA FindOnce ==
  ASSUME docs \subseteq DocumentType, NEW d \in DBType, Once(d), NEW k \in Keys,
         NEW e, e = FindTable(d, k)
  PROVE  Once(e)
<1>1. CASE ~Asks(d, k)
  BY <1>1, FindFacts
<1>2. CASE Asks(d, k)
  <2>1. d.dead = FALSE /\ Counted(e, d, k) /\ Answers(e, d, k)
    BY <1>2, FindFacts
  <2>2. d.asked[k] = 0
    <3>1. d.asked[k] \in 0 .. 2
      BY DEF DBType
    <3> QED BY <1>2, <3>1 DEF Once, Asks
  <2>3. \A j \in Keys : e.asked[j] <= 1 /\ (e.asked[j] = 1 => j = k \/ d.asked[j] = 1)
    BY <2>1, <2>2 DEF Counted, Once
  <2>4. CASE e.dead = TRUE
    BY <2>3, <2>4 DEF Once
  <2>5. CASE Select(Table, k) = {} /\ e.tables = d.tables /\ e.missing = d.missing \cup {k}
    BY <2>1, <2>3, <2>5 DEF Once
  <2>6. CASE /\ Select(Table, k) # {} /\ e.missing = d.missing
             /\ Stored(e, d, CHOOSE x \in Select(Table, k) : TRUE)
    <3>1. PICK doc : doc = CHOOSE x \in Select(Table, k) : TRUE
      OBVIOUS
    <3>2. k \in Filled(doc) /\ doc.content # None /\ Stored(e, d, doc)
      BY <2>6, <3>1, ChosenFacts
    <3> QED BY <2>1, <2>3, <2>6, <3>2 DEF Once, Stored
  <2> QED BY <2>1, <2>4, <2>5, <2>6 DEF Answers
<1> QED BY <1>1, <1>2

\* What was set stays in the user plane.
LEMMA FindKept ==
  ASSUME docs \subseteq DocumentType, PlanesInv, NEW d \in DBType, NEW s, Kept(d, s),
         NEW k \in Keys, NEW e, e = FindTable(d, k)
  PROVE  Kept(e, s)
<1>1. CASE ~Asks(d, k)
  BY <1>1, FindFacts
<1>2. CASE Asks(d, k)
  <2>1. d.dead = FALSE /\ Answers(e, d, k)
    BY <1>2, FindFacts
  <2>2. CASE k = User
    BY <1>2, <2>1, <2>2 DEF Kept, Asks
  <2>3. CASE e.dead = TRUE \/ e.tables = d.tables
    BY <2>1, <2>3 DEF Kept
  <2>4. CASE /\ k # User /\ Select(Table, k) # {}
             /\ Stored(e, d, CHOOSE x \in Select(Table, k) : TRUE)
    <3>1. PICK doc : doc = CHOOSE x \in Select(Table, k) : TRUE
      OBVIOUS
    <3>2. k \in Filled(doc) /\ doc \in docs /\ Stored(e, d, doc)
      BY <2>4, <3>1, ChosenFacts
    <3>3. OnePlane(doc) /\ doc.lo \in Int /\ doc.hi \in Int
      BY <3>2 DEF PlanesInv, DocumentType
    <3>4. User \notin Filled(doc)
      BY <2>4, <3>2, <3>3, KeysFacts DEF OnePlane, User, Filled
    <3> QED BY <2>1, <3>2, <3>4, KeysFacts DEF Kept, Stored
  <2> QED BY <2>1, <2>2, <2>3, <2>4 DEF Answers
<1> QED BY <1>1, <1>2

-----------------------------------------------------------------------------
(* Reading: three keys are looked up, one after the other.                 *)

LEMMA PickFacts ==
  ASSUME NEW d, NEW r, NEW f, NEW t, NEW d1, d1 = FindTable(d, User), NEW d2, d2 = FindTable(d1, r),
         NEW d3, d3 = FindTable(d2, Default)
  PROVE  Pick(d, r, f, t) =
           IF Holds(d1, User, f, t) THEN [db |-> d1, plane |-> User]
           ELSE IF Holds(d2, r, f, t) THEN [db |-> d2, plane |-> r]
           ELSE IF Holds(d3, Default, f, t) THEN [db |-> d3, plane |-> Default]
           ELSE [db |-> d3, plane |-> None]
BY DEF Pick, Planes

\* A set of databases that no lookup leaves is not left by a read.
LEMMA PickStays ==
  ASSUME NEW P, \A x \in P, k \in Keys : FindTable(x, k) \in P,
         NEW d \in P, NEW r \in Keys, NEW f, NEW t
  PROVE  Pick(d, r, f, t).db \in P
<1>1. PICK d1 : d1 = FindTable(d, User)
  OBVIOUS
<1>2. PICK d2 : d2 = FindTable(d1, r)
  OBVIOUS
<1>3. PICK d3 : d3 = FindTable(d2, Default)
  OBVIOUS
<1>4. d1 \in P /\ d2 \in P /\ d3 \in P
  BY <1>1, <1>2, <1>3, KeysFacts
<1>5. PICK p : p = Pick(d, r, f, t)
  OBVIOUS
<1>6. p.db \in {d1, d2, d3}
  BY <1>1, <1>2, <1>3, <1>5, PickFacts
<1> QED BY <1>4, <1>5, <1>6

-----------------------------------------------------------------------------
(* Loading a file: its runs one after the other.                           *)

LEMMA LeastIn ==
  ASSUME NEW a \in Int, NEW b \in Int, NEW T, T \subseteq a .. b, T # {}
  PROVE  \E x \in T : \A y \in T : x <= y
<1>1. PICK S : S = a .. b
  OBVIOUS
<1>2. IsFiniteSet(S)
  BY <1>1, FS_Interval
<1>3. IsWellFoundedOn(StrictSubsetOrdering(S), SUBSET S)
  BY <1>2, FS_StrictSubsetOrderingWellFounded, FS_FiniteSubsetsOfFinite
<1>4. PICK F : F = {a .. x : x \in T}
  OBVIOUS
<1>5. F \subseteq SUBSET S /\ F # {}
  <2>1. ASSUME NEW x \in T PROVE a .. x \subseteq S
    <3>1. x \in Int /\ x <= b
      OBVIOUS
    <3> QED BY <1>1, <3>1
  <2> QED BY <1>4, <2>1
<1>6. PICK s \in F : \A r \in F : ~ (<<r, s>> \in StrictSubsetOrdering(S))
  BY <1>3, <1>5, WFMin
<1>7. PICK x \in T : s = a .. x
  BY <1>4, <1>6
<1>8. ASSUME NEW y \in T PROVE x <= y
  <2>1. PICK r : r = a .. y
    OBVIOUS
  <2>2. r \in F /\ ~(<<r, s>> \in StrictSubsetOrdering(S))
    BY <1>4, <1>6, <2>1
  <2>3. ~(r \subseteq s /\ r # s)
    BY <1>5, <2>2 DEF StrictSubsetOrdering
  <2>4. x \in Int /\ y \in Int /\ a <= x /\ a <= y
    OBVIOUS
  <2>5. ASSUME y < x PROVE FALSE
    <3>1. r \subseteq s
      BY <1>7, <2>1, <2>4, <2>5
    <3>2. x \in s /\ x \notin r
      BY <1>7, <2>1, <2>4, <2>5
    <3> QED BY <2>3, <3>1, <3>2
  <2> QED BY <2>4, <2>5
<1> QED BY <1>8

\* There is a function that goes on from d with G, and all of them stay in P.
Steps(f, a, b, d, G) == f = [k \in a .. b |-> IF k = a THEN d ELSE G[k][f[k - 1]]]

\* What starts in P and never leaves it is in P throughout.
LEMMA StepsStay ==
  ASSUME NEW a \in Int, NEW b \in Int, NEW P, NEW d \in P, NEW G,
         \A k \in (a + 1) .. b : \A x \in P : G[k][x] \in P,
         NEW f, Steps(f, a, b, d, G)
  PROVE  \A k \in a .. b : f[k] \in P
<1>1. PICK T : T = {k \in a .. b : f[k] \notin P}
  OBVIOUS
<1>2. SUFFICES ASSUME T # {} PROVE FALSE
  BY <1>1
<1>3. T \subseteq a .. b
  BY <1>1
<1>4. PICK k \in T : \A y \in T : k <= y
  BY <1>2, <1>3, LeastIn
<1>5. k \in a .. b /\ f[k] = IF k = a THEN d ELSE G[k][f[k - 1]]
  BY <1>3 DEF Steps
<1>6. k # a
  BY <1>1, <1>5
<1>7. k - 1 \in a .. b /\ k \in (a + 1) .. b
  BY <1>5, <1>6
<1>8. ~(k <= k - 1)
  BY <1>5
<1>9. k - 1 \notin T
  BY <1>4, <1>8
<1>10. f[k - 1] \in P
  BY <1>1, <1>7, <1>9
<1>11. G[k][f[k - 1]] \in P
  BY <1>7, <1>10
<1> QED BY <1>1, <1>5, <1>6, <1>11

\* The recursive function of Steps exists.
LEMMA StepsExist ==
  ASSUME NEW a \in Int, NEW b \in Int, NEW d, NEW G
  PROVE  \E f : Steps(f, a, b, d, G)
<1>1. PICK T : T = {j \in a .. b : ~\E f : Steps(f, a, j, d, G)}
  OBVIOUS
<1>2. CASE b < a
  <2>1. PICK f : f = [k \in {} |-> d]
    OBVIOUS
  <2>2. a .. b = {}
    BY <1>2
  <2>3. Steps(f, a, b, d, G)
    BY <2>1, <2>2 DEF Steps
  <2> QED BY <2>3
<1>3. CASE b \in a .. b
  <2>1. SUFFICES ASSUME T # {} PROVE FALSE
    BY <1>1, <1>3
  <2>2. T \subseteq a .. b
    BY <1>1
  <2>3. PICK j \in T : \A y \in T : j <= y
    BY <2>1, <2>2, LeastIn
  <2>4. j \in Int /\ a <= j /\ j <= b
    BY <2>2
  <2>5. CASE j = a
    <3>1. PICK f : f = [k \in a .. a |-> d]
      OBVIOUS
    <3>2. f = [k \in a .. a |-> IF k = a THEN d ELSE G[k][f[k - 1]]]
      BY <3>1
    <3> QED BY <1>1, <2>5, <3>2 DEF Steps
  <2>6. CASE j # a
    <3>1. j - 1 \in a .. b /\ ~(j <= j - 1)
      BY <2>4, <2>6
    <3>2. j - 1 \notin T
      BY <2>3, <3>1
    <3>3. PICK f : Steps(f, a, j - 1, d, G)
      BY <1>1, <3>1, <3>2
    <3>4. PICK g : g = [k \in a .. j |-> IF k = j THEN G[j][f[j - 1]] ELSE f[k]]
      OBVIOUS
    <3>5. ASSUME NEW k \in a .. j PROVE g[k] = IF k = a THEN d ELSE G[k][g[k - 1]]
      <4>1. CASE k = j
        <5>1. j - 1 \in a .. j /\ j - 1 # j
          BY <2>4, <2>6
        <5> QED BY <2>6, <3>4, <4>1, <5>1
      <4>2. CASE k # j
        <5>1. k \in a .. (j - 1)
          BY <2>4, <4>2
        <5>2. f[k] = IF k = a THEN d ELSE G[k][f[k - 1]]
          BY <3>3, <5>1 DEF Steps
        <5>3. k # a => k - 1 \in a .. j /\ k - 1 # j
          BY <2>4, <5>1
        <5> QED BY <3>4, <4>2, <5>2, <5>3
      <4> QED BY <4>1, <4>2
    <3>6. g = [k \in a .. j |-> g[k]]
      BY <3>4
    <3>7. Steps(g, a, j, d, G)
      BY <3>5, <3>6 DEF Steps
    <3> QED BY <1>1, <2>3, <3>7
  <2> QED BY <2>5, <2>6
<1> QED BY <1>2, <1>3

\* A set that the load of a run does not leave is not left by the load of a file.
LEMMA LoadStays ==
  ASSUME NEW file \in Files, NEW P, NEW d \in P,
         \A x \in P, k \in file.lo .. file.hi : LoadRun(x, k, file.fields) \in P
  PROVE  LoadTable(d, file) \in P
<1>1. file.lo \in Int /\ file.hi \in Int /\ file.lo <= file.hi
  BY DBAssumption
<1>2. PICK a : a = file.lo - 1
  OBVIOUS
<1>3. PICK b : b = file.hi
  OBVIOUS
<1>4. a \in Int /\ b \in Int /\ b \in a .. b /\ \A k \in (a + 1) .. b : k \in file.lo .. file.hi
  BY <1>1, <1>2, <1>3
<1>5. PICK G : G = [k \in (a + 1) .. b |-> [x \in P |-> LoadRun(x, k, file.fields)]]
  OBVIOUS
<1>6. \A k \in (a + 1) .. b : \A x \in P : G[k][x] = LoadRun(x, k, file.fields) /\ G[k][x] \in P
  BY <1>4, <1>5
<1> DEFINE Loads(f) == f = [k \in (file.lo - 1) .. file.hi |->
                              IF k = file.lo - 1 THEN d ELSE LoadRun(f[k - 1], k, file.fields)]
<1>7. PICK f : Steps(f, a, b, d, G)
  BY <1>4, StepsExist
<1>8. \A k \in a .. b : f[k] \in P
  BY <1>4, <1>6, <1>7, StepsStay
<1>9. ASSUME NEW k \in a .. b
      PROVE  f[k] = IF k = a THEN d ELSE LoadRun(f[k - 1], k, file.fields)
  <2>1. f[k] = IF k = a THEN d ELSE G[k][f[k - 1]]
    BY <1>7 DEF Steps
  <2>2. k # a => k - 1 \in a .. b /\ k \in (a + 1) .. b
    BY <1>4
  <2> QED BY <1>6, <1>8, <2>1, <2>2
<1>10. Loads(f)
  <2>1. f = [k \in a .. b |-> f[k]]
    BY <1>7 DEF Steps
  <2> QED BY <1>2, <1>3, <1>9, <2>1
<1>11. PICK s : s = CHOOSE g : Loads(g)
  OBVIOUS
<1>12. Loads(s)
  BY <1>10, <1>11
<1>13. LoadTable(d, file) = s[file.hi]
  BY <1>11 DEF LoadTable
<1>14. \A k \in a .. b : s[k] \in P
  <2>1. s = [k \in a .. b |-> IF k = a THEN d ELSE LoadRun(s[k - 1], k, file.fields)]
    BY <1>2, <1>3, <1>12
  <2>2. PICK T : T = {k \in a .. b : s[k] \notin P}
    OBVIOUS
  <2>3. SUFFICES ASSUME T # {} PROVE FALSE
    BY <2>2
  <2>4. T \subseteq a .. b
    BY <2>2
  <2>5. PICK k \in T : \A y \in T : k <= y
    BY <1>4, <2>3, <2>4, LeastIn
  <2>6. k \in a .. b /\ ~(k <= k - 1)
    BY <1>4, <2>4
  <2>7. k # a => k - 1 \in a .. b /\ k \in (a + 1) .. b
    BY <1>4, <2>6
  <2>8. k - 1 \notin T
    BY <2>5, <2>6
  <2>9. s[k] \in P
    BY <1>4, <2>1, <2>2, <2>6, <2>7, <2>8
  <2> QED BY <2>2, <2>5, <2>9
<1> QED BY <1>3, <1>4, <1>13, <1>14

-----------------------------------------------------------------------------
(* The tool.                                                               *)

LEMMA InitDocsInv == Init => DocsInv
<1> SUFFICES ASSUME Init PROVE DocsInv
  OBVIOUS
<1>1. docs \in InitDocs /\ tool = [step |-> "idle"]
  BY DEF Init, ServerInit, Idle
<1>2. IsFiniteSet(docs) /\ docs \subseteq DocumentType
  BY <1>1, ServerAssumption
<1> QED BY <1>1, <1>2 DEF DocsInv

\* What ratdb append makes is a document of one plane.
LEMMA DocumentFacts ==
  ASSUME NEW n \in Names, NEW first \in Runs, NEW inc \in Increments, NEW c \in Contents,
         NEW new, new = Document(n, first, first + inc, c)
  PROVE  new \in DocumentType /\ new.lo > 0 /\ OnePlane(new)
<1>1. first \in Int /\ first > 0 /\ first + inc \in Int
  BY ServerAssumption
<1> QED BY <1>1 DEF Document, DocumentType, OnePlane

\* What append copies is cut to fewer runs, but at least one.
LEMMA RevisedFacts ==
  ASSUME NEW old \in DocumentType, OnePlane(old), NEW m \in Int, old.lo < m, Truncate(old, m),
         NEW copy, copy = [old EXCEPT !.id = <<old.name, old.lo, m - 1>>]
  PROVE  copy.lo > 0
<1>1. old.lo \in Int /\ old.hi \in Int /\ copy.lo = old.lo
  BY DEF DocumentType
<1>2. old.lo # old.hi
  BY <1>1 DEF Truncate
<1> QED BY <1>1, <1>2 DEF OnePlane

\* Its steps keep the documents as they should be.
LEMMA ToolSteps ==
  ASSUME DocsInv, Append
  PROVE  DocsInv' /\ (PlanesInv => PlanesInv')
<1>1. IsFiniteSet(docs) /\ docs \subseteq DocumentType
  BY DEF DocsInv
<1>2. ASSUME NEW n \in Names, NEW first \in Runs, NEW inc \in Increments, NEW c \in Contents,
             StartAppend(Document(n, first, first + inc, c))
      PROVE  DocsInv' /\ (PlanesInv => PlanesInv')
  <2>1. PICK new : new = Document(n, first, first + inc, c)
    OBVIOUS
  <2>2. new \in DocumentType /\ new.lo > 0 /\ new.lo \in Int
    BY <2>1, DocumentFacts DEF DocumentType
  <2>3. CASE tool' = [step |-> "upload", new |-> new] /\ docs' = docs
    BY <1>1, <2>2, <2>3 DEF DocsInv, PlanesInv
  <2>4. ASSUME NEW old \in docs, NEW copy, copy = [old EXCEPT !.id = <<old.name, old.lo, new.lo - 1>>],
               old.lo < new.lo, Truncate(old, new.lo), docs' = docs \cup {copy},
               tool' = [step |-> "copied", new |-> new, old |-> old, copy |-> copy]
        PROVE  DocsInv' /\ (PlanesInv => PlanesInv')
    <3>1. old \in DocumentType
      BY <1>1
    <3>2. <<old.name, old.lo, new.lo - 1>> \in Names \X Int \X Int
      BY <2>2, <3>1 DEF DocumentType
    <3>3. copy \in DocumentType
      BY <2>4, <3>1, <3>2 DEF DocumentType
    <3>4. IsFiniteSet(docs')
      BY <1>1, <2>4, FS_AddElement
    <3>5. DocsInv'
      BY <1>1, <2>2, <2>4, <3>3, <3>4 DEF DocsInv
    <3>6. PlanesInv => copy.lo > 0
      BY <2>2, <2>4, <3>1, RevisedFacts DEF PlanesInv
    <3>7. PlanesInv => PlanesInv'
      BY <2>4, <3>6 DEF PlanesInv, OnePlane
    <3> QED BY <3>5, <3>7
  <2>5. \/ tool' = [step |-> "upload", new |-> new] /\ docs' = docs
        \/ \E old \in docs : \E copy :
              /\ copy = [old EXCEPT !.id = <<old.name, old.lo, new.lo - 1>>]
              /\ old.lo < new.lo /\ Truncate(old, new.lo) /\ docs' = docs \cup {copy}
              /\ tool' = [step |-> "copied", new |-> new, old |-> old, copy |-> copy]
    <3>1. StartAppend(new)
      BY <1>2, <2>1
    <3> QED BY <3>1 DEF StartAppend, Before
  <2> QED BY <2>3, <2>4, <2>5
<1>3. ASSUME ResetRange PROVE DocsInv' /\ (PlanesInv => PlanesInv')
  <2>1. tool.step = "copied" /\ tool.new \in DocumentType /\ tool.copy \in DocumentType
        /\ tool.new.lo > 0
    BY <1>3 DEF ResetRange, DocsInv
  <2>2. PICK cut : cut = [tool.copy EXCEPT !.hi = tool.new.lo - 1]
    OBVIOUS
  <2>3. cut \in DocumentType /\ cut.lo = tool.copy.lo
    BY <2>1, <2>2 DEF DocumentType
  <2>4. /\ docs' = (docs \ {tool.copy}) \cup {cut}
        /\ tool' = [step |-> "reset", new |-> tool.new, old |-> tool.old]
    BY <1>3, <2>2 DEF ResetRange
  <2>5. IsFiniteSet(docs')
    BY <1>1, <2>4, FS_AddElement, FS_RemoveElement
  <2>6. DocsInv'
    BY <1>1, <2>1, <2>3, <2>4, <2>5 DEF DocsInv
  <2>7. PlanesInv => PlanesInv'
    BY <2>1, <2>3, <2>4 DEF PlanesInv, OnePlane
  <2> QED BY <2>6, <2>7
<1>4. ASSUME RemoveOld PROVE DocsInv' /\ (PlanesInv => PlanesInv')
  <2>1. /\ docs' = docs \ {tool.old} /\ tool' = [step |-> "upload", new |-> tool.new]
        /\ tool.new \in DocumentType /\ tool.new.lo > 0
    BY <1>4 DEF RemoveOld, DocsInv
  <2>2. IsFiniteSet(docs')
    BY <1>1, <2>1, FS_RemoveElement
  <2> QED BY <1>1, <2>1, <2>2 DEF DocsInv, PlanesInv
<1>5. ASSUME SaveNew PROVE DocsInv' /\ (PlanesInv => PlanesInv')
  <2>1. /\ docs' = docs \/ docs' = docs \cup {tool.new}
        /\ tool' = [step |-> "idle"]
        /\ tool.new \in DocumentType /\ tool.new.lo > 0
    BY <1>5 DEF SaveNew, DocsInv, Idle
  <2>2. IsFiniteSet(docs')
    BY <1>1, <2>1, FS_AddElement
  <2> QED BY <1>1, <2>1, <2>2 DEF DocsInv, PlanesInv, OnePlane
<1> QED BY <1>2, <1>3, <1>4, <1>5 DEF Append

-----------------------------------------------------------------------------
(* The job.                                                                *)

\* Once put into memory, a table is there.
LEMMA InsertFacts ==
  ASSUME NEW d \in DBType, NEW k \in Keys, NEW t \in Tables, NEW e, e = Insert(d, k, t)
  PROVE  /\ e \in DBType /\ e.tables[k] = t /\ t # None
         /\ \A j \in Keys : j # k => e.tables[j] = d.tables[j]
         /\ e.missing = d.missing /\ e.asked = d.asked /\ e.dead = d.dead
BY DBAssumption DEF DBType, Insert

\* A table that is put in memory makes no key asked twice.
LEMMA InsertOnce ==
  ASSUME NEW d \in DBType, Once(d), NEW k \in Keys, NEW t \in Tables, NEW e, e = Insert(d, k, t)
  PROVE  e \in DBType /\ Once(e)
BY InsertFacts DEF Once

\* A new table has no field.
LEMMA NewTableFacts == NewTable \in Tables
<1>1. Absent \in Entries
  BY DEF Absent, Field, Entries
<1> QED BY <1>1 DEF NewTable, Tables

\* FindOrCreateTable: a lookup, then a table in the user plane if there is none.
LEMMA CreateFacts ==
  ASSUME docs \subseteq DocumentType, NEW d \in DBType, Once(d),
         NEW e, e = FindOrCreateTable(d)
  PROVE  /\ e \in DBType /\ Once(e)
         /\ e.dead = FALSE => e.tables[User] \in Tables
         /\ PlanesInv => \A s : Kept(d, s) => Kept(e, s)
<1>1. PICK x : x = FindTable(d, User)
  OBVIOUS
<1>2. x \in DBType /\ Once(x)
  BY <1>1, KeysFacts, FindFacts, FindOnce
<1>3. PlanesInv => \A s : Kept(d, s) => Kept(x, s)
  BY <1>1, KeysFacts, FindKept
<1>4. CASE x.dead \/ x.tables[User] # None
  <2>1. e = x
    BY <1>1, <1>4 DEF FindOrCreateTable
  <2>2. e.dead = FALSE => e.tables[User] \in Tables
    BY <1>2, <1>4, <2>1, KeysFacts DEF DBType
  <2> QED BY <1>2, <1>3, <2>1, <2>2
<1>5. CASE ~(x.dead \/ x.tables[User] # None)
  <2>1. PICK t : t = NewTable
    OBVIOUS
  <2>2. t \in Tables /\ e = Insert(x, User, t)
    BY <1>1, <1>5, <2>1, NewTableFacts DEF FindOrCreateTable
  <2>3. e \in DBType /\ Once(e) /\ e.tables[User] = t
    <3>1. User \in Keys
      BY KeysFacts
    <3>2. e \in DBType /\ Once(e)
      BY <1>2, <2>2, <3>1, InsertOnce
    <3>3. e.tables[User] = t
      BY <1>2, <2>2, <3>1, InsertFacts
    <3> QED BY <3>2, <3>3
  <2>4. ASSUME NEW s, Kept(x, s) PROVE Kept(e, s)
    BY <1>5, <2>4 DEF Kept
  <2> QED BY <1>3, <2>2, <2>3, <2>4
<1> QED BY <1>4, <1>5

\* One run of a file: a lookup, then its fields.
LEMMA LoadRunStays ==
  ASSUME docs \subseteq DocumentType, NEW d \in DBType, Once(d), NEW k \in Keys, NEW t \in Tables,
         NEW e, e = LoadRun(d, k, t)
  PROVE  /\ e \in DBType /\ Once(e)
         /\ PlanesInv /\ k # User => \A s : Kept(d, s) => Kept(e, s)
<1>1. PICK x : x = FindTable(d, k)
  OBVIOUS
<1>2. x \in DBType /\ Once(x)
  BY <1>1, FindFacts, FindOnce
<1>3. PlanesInv => \A s : Kept(d, s) => Kept(x, s)
  BY <1>1, FindKept
<1>4. CASE x.dead
  BY <1>1, <1>2, <1>3, <1>4 DEF LoadRun
<1>5. CASE ~x.dead
  <2>1. e = Insert(x, k, t)
    BY <1>1, <1>5 DEF LoadRun
  <2>2. e \in DBType /\ Once(e)
    BY <1>2, <2>1, InsertOnce
  <2>3. ASSUME k # User PROVE e.tables[User] = x.tables[User] /\ e.dead = x.dead
    BY <1>2, <2>1, <2>3, KeysFacts, InsertFacts
  <2>4. ASSUME k # User, NEW s, Kept(x, s) PROVE Kept(e, s)
    BY <2>3, <2>4 DEF Kept
  <2> QED BY <1>3, <2>2, <2>4
<1> QED BY <1>4, <1>5

\* The runs of a file are planes.
LEMMA FileFacts ==
  ASSUME NEW file \in Files
  PROVE  /\ file.fields \in Tables /\ \A k \in file.lo .. file.hi : k \in Keys
         /\ file.lo # User => \A k \in file.lo .. file.hi : k # User
<1>1. /\ file.fields \in Tables /\ file.lo .. file.hi \subseteq Keys
      /\ file.lo \in Int /\ file.hi \in Int /\ file.lo <= file.hi
  BY DBAssumption
<1>2. file.lo \in file.lo .. file.hi
  BY <1>1
<1>3. file.lo >= User
  BY <1>1, <1>2, ServerAssumption DEF Keys, User, Default
<1>4. file.lo # User => \A k \in file.lo .. file.hi : k # User
  BY <1>1, <1>3, KeysFacts DEF User
<1> QED BY <1>1, <1>4

\* A whole file changes the user plane only if it is for it.
LEMMA LoadFacts ==
  ASSUME docs \subseteq DocumentType, NEW d \in DBType, Once(d), NEW file \in Files,
         NEW e, e = LoadTable(d, file)
  PROVE  /\ e \in DBType /\ Once(e)
         /\ PlanesInv /\ file.lo # User => \A s : Kept(d, s) => Kept(e, s)
<1>1. PICK t : t = file.fields
  OBVIOUS
<1>2. /\ t \in Tables /\ \A k \in file.lo .. file.hi : k \in Keys
      /\ file.lo # User => \A k \in file.lo .. file.hi : k # User
  BY <1>1, FileFacts
<1>3. PICK P : P = {x \in DBType : Once(x)}
  OBVIOUS
<1>4. ASSUME NEW x \in P, NEW k \in file.lo .. file.hi PROVE LoadRun(x, k, file.fields) \in P
  BY <1>1, <1>2, <1>3, LoadRunStays
<1>5. e \in P
  <2>1. d \in P
    BY <1>3
  <2> QED BY <1>4, <2>1, LoadStays
<1>6. ASSUME PlanesInv, file.lo # User, NEW s, Kept(d, s) PROVE Kept(e, s)
  <2>1. PICK Q : Q = {x \in DBType : Once(x) /\ Kept(x, s)}
    OBVIOUS
  <2>2. ASSUME NEW x \in Q, NEW k \in file.lo .. file.hi PROVE LoadRun(x, k, file.fields) \in Q
    BY <1>1, <1>2, <1>6, <2>1, LoadRunStays
  <2>3. e \in Q
    <3>1. d \in Q
      BY <1>6, <2>1
    <3> QED BY <2>2, <3>1, LoadStays
  <2> QED BY <2>1, <2>3
<1> QED BY <1>3, <1>5, <1>6

\* Whatever is looked up, in whatever order.
LEMMA ReadFacts ==
  ASSUME docs \subseteq DocumentType, NEW d \in DBType, Once(d), NEW r \in Keys, NEW f, NEW t,
         NEW e, e = Pick(d, r, f, t).db
  PROVE  e \in DBType /\ Once(e) /\ (PlanesInv => \A s : Kept(d, s) => Kept(e, s))
<1>1. PICK P : P = {x \in DBType : Once(x)}
  OBVIOUS
<1>2. ASSUME NEW x \in P, NEW k \in Keys PROVE FindTable(x, k) \in P
  BY <1>1, FindFacts, FindOnce
<1>3. e \in P
  <2>1. d \in P
    BY <1>1
  <2> QED BY <1>2, <2>1, PickStays
<1>4. ASSUME PlanesInv, NEW s, Kept(d, s) PROVE Kept(e, s)
  <2>1. PICK Q : Q = {x \in DBType : Once(x) /\ Kept(x, s)}
    OBVIOUS
  <2>2. ASSUME NEW x \in Q, NEW k \in Keys PROVE FindTable(x, k) \in Q
    BY <1>4, <2>1, FindFacts, FindOnce, FindKept
  <2>3. e \in Q
    <3>1. d \in Q
      BY <1>4, <2>1
    <3> QED BY <2>2, <3>1, PickStays
  <2> QED BY <2>1, <2>3
<1> QED BY <1>1, <1>3, <1>4

\* A field is overwritten.
Put(d, f, v) == [d EXCEPT !.tables[User][f] = Overwritten(d.tables[User][f], v)]

\* What a field holds after it was set.
LEMMA OverwrittenFacts ==
  ASSUME NEW old \in Entries, NEW v \in SetValues, NEW n, n = Overwritten(old, v)
  PROVE  n \in Entries /\ n.value = v
BY DEF Overwritten, Field, Entries

\* A field of the user plane is set, the others stay.
LEMMA PutFacts ==
  ASSUME NEW d \in DBType, Once(d), d.tables[User] \in Tables, NEW f \in Fields,
         NEW v \in SetValues, NEW e, e = Put(d, f, v)
  PROVE  /\ e \in DBType /\ Once(e) /\ e.tables[User] # None /\ e.tables[User][f].value = v
         /\ e.dead = d.dead
         /\ \A h \in Fields : h # f => e.tables[User][h] = d.tables[User][h]
<1>0. PICK n : n = Overwritten(d.tables[User][f], v)
  OBVIOUS
<1>a. n \in Entries /\ n.value = v
  <2>1. d.tables[User][f] \in Entries
    BY DEF Tables
  <2> QED BY <1>0, <2>1, OverwrittenFacts
<1>1. PICK u : u = [d.tables[User] EXCEPT ![f] = n]
  OBVIOUS
<1>2. u \in Tables /\ u[f] = n /\ \A h \in Fields : h # f => u[h] = d.tables[User][h]
  BY <1>1, <1>a DEF Tables
<1>3. PICK G : G = [d.tables EXCEPT ![User] = u]
  OBVIOUS
<1>4. /\ G \in [Keys -> Tables \cup {None}] /\ G[User] = u
      /\ \A k \in Keys : k # User => G[k] = d.tables[k]
  BY <1>2, <1>3, KeysFacts DEF DBType
<1>5. e = [d EXCEPT !.tables = G]
  BY <1>0, <1>1, <1>3 DEF Put
<1>6. /\ e \in DBType /\ e.tables = G /\ e.asked = d.asked /\ e.missing = d.missing
      /\ e.dead = d.dead
  BY <1>4, <1>5 DEF DBType
<1>7. u # None
  BY <1>2, DBAssumption
<1> QED BY <1>a, <1>2, <1>4, <1>6, <1>7 DEF Once

\* A field that refuses to be set may end the job.
LEMMA RefusedFacts ==
  ASSUME NEW d \in DBType, Once(d), d.dead = FALSE, NEW b \in BOOLEAN,
         NEW e, e = [d EXCEPT !.dead = b]
  PROVE  e \in DBType /\ Once(e) /\ \A s : Kept(d, s) => Kept(e, s)
<1>1. e \in DBType /\ e.tables = d.tables /\ e.asked = d.asked /\ e.missing = d.missing
  BY DEF DBType
<1> QED BY <1>1 DEF Once, Kept

SetsKept == Kept(db, sets)

\* It holds before the first command.
LEMMA InitJobInv == Init => JobInv /\ SetsKept
<1> SUFFICES ASSUME Init PROVE JobInv /\ SetsKept
  OBVIOUS
<1>1. PICK T : T = [k \in Keys |-> None]
  OBVIOUS
<1>2. PICK A : A = [k \in Keys |-> 0]
  OBVIOUS
<1>3. /\ db = [tables |-> T, missing |-> {}, asked |-> A, dead |-> FALSE]
      /\ run = 1 /\ links = {} /\ sets = [f \in Fields |-> None]
  BY <1>1, <1>2 DEF Init
<1>4. T \in [Keys -> Tables \cup {None}] /\ A \in [Keys -> 0 .. 2] /\ \A k \in Keys : A[k] = 0
  BY <1>1, <1>2
<1>5. db \in DBType /\ Once(db)
  BY <1>3, <1>4 DEF DBType, Once
<1>6. sets \in [Fields -> SetValues \cup {None}] /\ \A f \in Fields : sets[f] = None
  BY <1>3
<1> QED BY <1>3, <1>5, <1>6, DBAssumption DEF JobInv, SetsKept, Kept

\* The steps of the job: what each does to the tables, to what was set, and to
\* the run numbers.
LEMMA LoadStep ==
  ASSUME DocsInv, JobInv, NEW file \in Files, Load(file)
  PROVE  JobInv' /\ (PlanesInv /\ SetsKept => SetsKept')
<1>1. PICK e : e = LoadTable(db, file)
  OBVIOUS
<1>2. /\ db' = e /\ run' = run /\ links' = links
      /\ sets' = IF file.lo = User THEN [f \in Fields |-> None] ELSE sets
  BY <1>1 DEF Load
<1>3. /\ e \in DBType /\ Once(e)
      /\ PlanesInv /\ file.lo # User => \A s : Kept(db, s) => Kept(e, s)
  BY <1>1, LoadFacts DEF DocsInv, JobInv
<1>4. JobInv'
  <2>1. sets' \in [Fields -> SetValues \cup {None}]
    BY <1>2 DEF JobInv
  <2> QED BY <1>2, <1>3, <2>1 DEF JobInv
<1>5. CASE file.lo = User
  BY <1>2, <1>4, <1>5 DEF SetsKept, Kept
<1>6. CASE file.lo # User
  BY <1>2, <1>3, <1>4, <1>6 DEF SetsKept
<1> QED BY <1>5, <1>6

\* Set keeps what was set before.
LEMMA SetStep ==
  ASSUME DocsInv, JobInv, NEW f \in Fields, NEW v \in SetValues, Set(f, v)
  PROVE  JobInv' /\ (PlanesInv /\ SetsKept => SetsKept')
<1>1. PICK x : x = FindOrCreateTable(db)
  OBVIOUS
<1>2. /\ x \in DBType /\ Once(x) /\ (x.dead = FALSE => x.tables[User] \in Tables)
      /\ PlanesInv => \A s : Kept(db, s) => Kept(x, s)
  BY <1>1, CreateFacts DEF DocsInv, JobInv
<1>3. run' = run /\ links' = links
  BY DEF Set
<1>4. CASE x.dead
  <2>1. db' = x /\ sets' = sets
    BY <1>1, <1>4 DEF Set
  <2> QED BY <1>2, <1>3, <2>1 DEF JobInv, SetsKept
<1>5. CASE ~x.dead /\ Refused(x.tables[User][f], v)
  <2>1. PICK b \in BOOLEAN : b = (x.tables[User][f].value # None)
    OBVIOUS
  <2>2. db' = [x EXCEPT !.dead = b] /\ sets' = sets
    BY <1>1, <1>5, <2>1 DEF Set
  <2>3. x.dead = FALSE
    BY <1>2, <1>5 DEF DBType
  <2>4. db' \in DBType /\ Once(db') /\ \A s : Kept(x, s) => Kept(db', s)
    BY <1>2, <2>2, <2>3, RefusedFacts
  <2> QED BY <1>2, <1>3, <2>2, <2>4 DEF JobInv, SetsKept
<1>6. CASE ~x.dead /\ ~Refused(x.tables[User][f], v)
  <2>1. PICK e : e = Put(x, f, v)
    OBVIOUS
  <2>2. db' = e /\ sets' = [sets EXCEPT ![f] = v]
    BY <1>1, <1>6, <2>1 DEF Set, Put
  <2>3. x.tables[User] \in Tables
    BY <1>2, <1>6 DEF DBType
  <2>4. /\ e \in DBType /\ Once(e) /\ e.tables[User] # None /\ e.tables[User][f].value = v
        /\ e.dead = x.dead
        /\ \A h \in Fields : h # f => e.tables[User][h] = x.tables[User][h]
    BY <1>2, <2>1, <2>3, PutFacts
  <2>5. /\ sets' \in [Fields -> SetValues \cup {None}] /\ sets'[f] = v
        /\ \A h \in Fields : h # f => sets'[h] = sets[h]
    BY <2>2 DEF JobInv
  <2>6. JobInv'
    BY <1>3, <2>2, <2>4, <2>5 DEF JobInv
  <2>7. ASSUME Kept(x, sets) PROVE SetsKept'
    BY <2>2, <2>4, <2>5, <2>7 DEF SetsKept, Kept
  <2> QED BY <1>2, <2>6, <2>7 DEF SetsKept
<1> QED BY <1>4, <1>5, <1>6

\* A read keeps what was set.
LEMMA ReadStep ==
  ASSUME DocsInv, JobInv, NEW r, NEW f, NEW t, Read(r, f, t)
  PROVE  JobInv' /\ (PlanesInv /\ SetsKept => SetsKept')
<1>1. PICK e : e = Pick(db, r, f, t).db
  OBVIOUS
<1>2. db' = e /\ run' = run /\ links' = links /\ sets' = sets /\ r \in links
  BY <1>1 DEF Read
<1>3. r \in Keys
  BY <1>2, KeysFacts DEF JobInv
<1>4. e \in DBType /\ Once(e) /\ (PlanesInv => \A s : Kept(db, s) => Kept(e, s))
  BY <1>1, <1>3, ReadFacts DEF DocsInv, JobInv
<1> QED BY <1>2, <1>4 DEF JobInv, SetsKept

\* The job ends, and with it all that is promised of its tables.
LEMMA DeadFacts ==
  ASSUME NEW d \in DBType, Once(d), NEW e, e = [d EXCEPT !.dead = TRUE]
  PROVE  e \in DBType /\ Once(e) /\ e.dead = TRUE
<1>1. e \in DBType /\ e.dead = TRUE /\ e.asked = d.asked
  BY DEF DBType
<1> QED BY <1>1 DEF Once

\* So do the operations that touch no table.
LEMMA OtherStep ==
  ASSUME JobInv,
         \/ SetServer \/ \E r \in Runs \cup {Default} : SetDefaultRun(r)
         \/ \E r \in Runs : RemoveLink(r)
         \/ GetLink \/ Initialize \/ CommandTooLate \/ ServerFails
  PROVE  JobInv' /\ (SetsKept => SetsKept')
<1>1. PICK e : e = [db EXCEPT !.dead = TRUE]
  OBVIOUS
<1>2. e \in DBType /\ Once(e) /\ e.dead = TRUE
  BY <1>1, DeadFacts DEF JobInv
<1>3. CASE db' = db /\ sets' = sets /\ run' \in Runs /\ links' \subseteq Runs
  BY <1>3 DEF JobInv, SetsKept
<1>4. CASE db' = e /\ sets' = sets /\ run' = run /\ links' = links
  BY <1>2, <1>4 DEF JobInv, SetsKept, Kept
<1>5. CASE SetServer \/ GetLink \/ Initialize \/ \E r \in Runs : RemoveLink(r)
  BY <1>3, <1>5 DEF SetServer, GetLink, Initialize, RemoveLink, JobInv
<1>6. CASE CommandTooLate \/ ServerFails
  BY <1>1, <1>4, <1>6 DEF CommandTooLate, ServerFails
<1>7. ASSUME NEW r \in Runs \cup {Default}, SetDefaultRun(r)
      PROVE  JobInv' /\ (SetsKept => SetsKept')
  <2>1. CASE ValidRun(r)
    <3>1. r \in Runs
      BY <2>1 DEF ValidRun, Default
    <3> QED BY <1>3, <1>7, <2>1, <3>1 DEF SetDefaultRun, JobInv
  <2>2. CASE ~ValidRun(r)
    BY <1>1, <1>4, <1>7, <2>2 DEF SetDefaultRun
  <2> QED BY <2>1, <2>2
<1> QED BY <1>5, <1>6, <1>7

\* Every step of job and tool keeps it.
LEMMA JobSteps ==
  ASSUME DocsInv, JobInv, [Next]_vars
  PROVE  DocsInv' /\ JobInv' /\ (PlanesInv => PlanesInv') /\ (PlanesInv /\ SetsKept => SetsKept')
<1>1. CASE Tool
  <2>1. DocsInv' /\ (PlanesInv => PlanesInv')
    BY <1>1, ToolSteps DEF Tool
  <2> QED BY <1>1, <2>1 DEF Tool, JobInv, SetsKept
<1>2. ASSUME UNCHANGED server PROVE DocsInv' /\ (PlanesInv => PlanesInv')
  BY <1>2 DEF server, DocsInv, PlanesInv
<1>3. ASSUME NEW file \in Files, Load(file)
      PROVE  UNCHANGED server /\ JobInv' /\ (PlanesInv /\ SetsKept => SetsKept')
  BY <1>3, LoadStep DEF Load
<1>4. ASSUME NEW f \in Fields, NEW v \in SetValues, Set(f, v)
      PROVE  UNCHANGED server /\ JobInv' /\ (PlanesInv /\ SetsKept => SetsKept')
  BY <1>4, SetStep DEF Set
<1>5. ASSUME NEW r, NEW f, NEW t, Read(r, f, t)
      PROVE  UNCHANGED server /\ JobInv' /\ (PlanesInv /\ SetsKept => SetsKept')
  BY <1>5, ReadStep DEF Read
<1>6. CASE \/ SetServer \/ \E r \in Runs \cup {Default} : SetDefaultRun(r)
           \/ \E r \in Runs : RemoveLink(r)
           \/ GetLink \/ Initialize \/ CommandTooLate \/ ServerFails
  <2>1. JobInv' /\ (SetsKept => SetsKept')
    BY <1>6, OtherStep
  <2>2. UNCHANGED server
    BY <1>6 DEF SetServer, SetDefaultRun, RemoveLink, GetLink, Initialize, CommandTooLate, ServerFails
  <2> QED BY <1>2, <2>1, <2>2
<1>7. CASE UNCHANGED vars
  BY <1>7 DEF vars, DocsInv, PlanesInv, JobInv, SetsKept
<1> QED BY <1>1, <1>2, <1>3, <1>4, <1>5, <1>6, <1>7 DEF Next, Job, ReadAny

-----------------------------------------------------------------------------
(* The theorems.                                                           *)

LEMMA JobInvHolds == Spec => [](DocsInv /\ JobInv)
<1>1. DocsInv /\ JobInv /\ [Next]_vars => (DocsInv /\ JobInv)'
  BY JobSteps
<1> QED BY <1>1, InitDocsInv, InitJobInv, PTL DEF Spec

\* DB::FindTable never asks the server for a key a second time: not after it
\* was refused, and not after a document came, whatever is loaded, set and read,
\* and whatever the tool does to the documents meanwhile.
THEOREM AskedOnceAlways == Spec => []AskedOnce
<1>1. JobInv => AskedOnce
  BY DEF JobInv, Once, AskedOnce
<1> QED BY <1>1, JobInvHolds, PTL

\* From here on no document is for two planes.
LEMMA KeptHolds ==
  ASSUME \A D \in InitDocs : \A doc \in D : OnePlane(doc)
  PROVE  Spec => [](DocsInv /\ JobInv /\ PlanesInv /\ SetsKept)
<1>1. Init => PlanesInv
  BY DEF Init, ServerInit, PlanesInv, Idle
<1>2. DocsInv /\ JobInv /\ PlanesInv /\ SetsKept /\ [Next]_vars
        => (DocsInv /\ JobInv /\ PlanesInv /\ SetsKept)'
  BY JobSteps
<1> QED BY <1>1, <1>2, InitDocsInv, InitJobInv, PTL DEF Spec

\* DBLink returns what was set in the user plane, until a user table is loaded
\* over it, as JSON, and as its own type unless the type of an array is kept for
\* the field: no table that is loaded or fetched, before or after the server is
\* connected, hides it.
THEOREM ReadYourSetsAlways ==
  ASSUME \A D \in InitDocs : \A doc \in D : OnePlane(doc)
  PROVE  Spec => []ReadYourSets
<1>1. ASSUME JobInv, SetsKept, NEW f \in Fields, NEW r \in Runs, sets[f] # None, Running,
             NEW t, t = AnyType \/ (t = sets[f].type /\ db.tables[User][f].kept \in {None, t})
      PROVE  Answer(db, r, f, t) = sets[f]
  <2>1. /\ ~db.dead /\ db.tables[User] # None /\ db.tables[User][f].value = sets[f]
        /\ sets[f] \in SetValues
    BY <1>1 DEF SetsKept, Kept, Running, JobInv
  <2>2. FindTable(db, User) = db
    BY <2>1 DEF FindTable
  <2>3. FieldType(db.tables[User][f]) # None
    BY <1>1, <2>1, DBAssumption DEF FieldType
  <2>4. Holds(db, User, f, t)
    BY <1>1, <2>1, <2>3 DEF Holds, Equivalent, FieldType
  <2>5. Pick(db, r, f, t) = [db |-> db, plane |-> User]
    BY <2>2, <2>4, Zenon DEF Pick, Planes
  <2>6. User # None
    BY DBAssumption DEF Keys
  <2>7. PICK p : p = Pick(db, r, f, t)
    OBVIOUS
  <2>8. p.db = db /\ p.plane = User
    BY <2>5, <2>7
  <2>9. Value(db.tables[User][f], t) = sets[f]
    BY <1>1, <2>1 DEF Value
  <2> QED BY <2>6, <2>7, <2>8, <2>9 DEF Answer
<1>2. JobInv /\ SetsKept => ReadYourSets
  BY <1>1 DEF ReadYourSets
<1> QED BY <1>2, KeptHolds, PTL
-----------------------------------------------------------------------------
(* Two reads: what one of them leaves for the other.                       *)

\* What a lookup of key k finds, and whether it ends the job.
Wants(d, k) == d.tables[k] = None /\ Table \in names /\ k \notin d.missing
Safe(d, k) == ~(Wants(d, k) /\ Two(k))
Seen(d, k) ==
  IF Wants(d, k) /\ Select(Table, k) # {} THEN (CHOOSE x \in Select(Table, k) : TRUE).content
  ELSE d.tables[k]

\* A lookup that is answered finds what there was to see before it.
LEMMA FindSafe ==
  ASSUME docs \subseteq DocumentType, NEW d \in DBType, NEW k \in Keys, d.dead = FALSE, Safe(d, k),
         NEW e, e = FindTable(d, k)
  PROVE  e \in DBType /\ e.dead = FALSE /\ e.tables[k] = Seen(d, k)
<1>1. e \in DBType
  BY FindFacts
<1>2. Wants(d, k) <=> Asks(d, k)
  BY DEF Wants, Asks
<1>3. CASE ~Wants(d, k)
  <2>1. e = d
    BY <1>2, <1>3, FindFacts
  <2>2. Seen(d, k) = d.tables[k]
    BY <1>3 DEF Seen
  <2> QED BY <1>1, <2>1, <2>2
<1>4. CASE Wants(d, k)
  <2>1. ~Two(k) /\ Answers(e, d, k)
    BY <1>2, <1>4, FindFacts DEF Safe
  <2>2. CASE Select(Table, k) = {}
    <3>1. Seen(d, k) = d.tables[k]
      BY <2>2 DEF Seen
    <3> QED BY <1>1, <2>1, <2>2, <3>1 DEF Answers
  <2>3. CASE Select(Table, k) # {}
    <3>1. PICK doc : doc = CHOOSE x \in Select(Table, k) : TRUE
      OBVIOUS
    <3>2. Seen(d, k) = doc.content
      BY <1>4, <2>3, <3>1 DEF Seen
    <3>3. k \in Filled(doc)
      BY <2>3, <3>1, ChosenFacts
    <3> QED BY <1>1, <2>1, <2>3, <3>1, <3>2, <3>3 DEF Answers, Stored
  <2> QED BY <2>2, <2>3
<1> QED BY <1>3, <1>4

\* One for which there are two documents ends the job.
LEMMA FindUnsafe ==
  ASSUME docs \subseteq DocumentType, NEW d \in DBType, NEW k \in Keys, d.dead = FALSE, ~Safe(d, k),
         NEW e, e = FindTable(d, k)
  PROVE  e.dead = TRUE
<1>1. Asks(d, k) /\ Two(k)
  BY DEF Safe, Wants, Asks
<1> QED BY <1>1, FindFacts DEF Answers

\* The planes are apart: what is found in one says nothing of the others.
Apart(j, k) == j # k /\ (j \in {User, Default} \/ k \in {User, Default})
\* A lookup leaves alone the planes that no document shares with its own.
LEMMA FindApart ==
  ASSUME docs \subseteq DocumentType, PlanesInv, NEW d \in DBType, NEW k \in Keys, NEW j \in Keys,
         Apart(j, k), NEW e, e = FindTable(d, k)
  PROVE  e.tables[j] = d.tables[j] /\ (j \in e.missing <=> j \in d.missing)
<1>1. CASE ~Asks(d, k)
  BY <1>1, FindFacts
<1>2. CASE Asks(d, k)
  <2>1. Answers(e, d, k)
    BY <1>2, FindFacts
  <2>2. CASE Two(k)
    <3>1. e = [Asked(d, k) EXCEPT !.dead = TRUE]
      BY <1>2, <2>2 DEF FindTable, Fetch, Asks, Asked, Two
    <3>2. PICK a : a = Asked(d, k)
      OBVIOUS
    <3>3. a \in DBType /\ a.tables = d.tables /\ a.missing = d.missing
      BY <1>2, <3>2, AskedFacts DEF Asks, DBType
    <3>4. e.tables = a.tables /\ e.missing = a.missing
      BY <3>1, <3>2, <3>3 DEF DBType
    <3> QED BY <3>3, <3>4
  <2>3. CASE ~Two(k) /\ Select(Table, k) = {}
    BY <2>1, <2>3 DEF Answers, Apart
  <2>4. CASE ~Two(k) /\ Select(Table, k) # {}
    <3>1. PICK doc : doc = CHOOSE x \in Select(Table, k) : TRUE
      OBVIOUS
    <3>2. k \in Filled(doc) /\ doc \in docs
      BY <2>4, <3>1, ChosenFacts
    <3>3. e.missing = d.missing /\ Stored(e, d, doc)
      BY <2>1, <2>4, <3>1 DEF Answers
    <3>4. OnePlane(doc) /\ doc.lo \in Int /\ doc.hi \in Int
      BY <3>2 DEF PlanesInv, DocumentType
    <3>5. j \notin Filled(doc)
      BY <3>2, <3>4, KeysFacts DEF Apart, OnePlane, User, Default, Filled
    <3> QED BY <3>3, <3>5 DEF Stored
  <2> QED BY <2>2, <2>3, <2>4
<1> QED BY <1>1, <1>2

\* What is there to see depends on the plane only.
LEMMA ApartSeen ==
  ASSUME NEW d, NEW e, NEW j,
         e.tables[j] = d.tables[j], j \in e.missing <=> j \in d.missing
  PROVE  Seen(e, j) = Seen(d, j) /\ (Safe(e, j) <=> Safe(d, j))
<1>1. Wants(e, j) <=> Wants(d, j)
  BY DEF Wants
<1> QED BY <1>1 DEF Seen, Safe

\* So a lookup does not change what there is to see in such a plane.
LEMMA FindOther ==
  ASSUME docs \subseteq DocumentType, PlanesInv, NEW d \in DBType, NEW k \in Keys, NEW j \in Keys,
         Apart(j, k), NEW e, e = FindTable(d, k)
  PROVE  Seen(e, j) = Seen(d, j) /\ (Safe(e, j) <=> Safe(d, j))
BY FindApart, ApartSeen

\* The answer is that of the first plane that has the field.
Has(v, f, t) == v # None /\ Equivalent(v[f], t)
InUser(d, f, t) == Safe(d, User) /\ Has(Seen(d, User), f, t)
NotInUser(d, f, t) == Safe(d, User) /\ ~Has(Seen(d, User), f, t)
InRun(d, r, f, t) == NotInUser(d, f, t) /\ Safe(d, r) /\ Has(Seen(d, r), f, t)
NotInRun(d, r, f, t) == NotInUser(d, f, t) /\ Safe(d, r) /\ ~Has(Seen(d, r), f, t)
InDefault(d, r, f, t) ==
  NotInRun(d, r, f, t) /\ Safe(d, Default) /\ Has(Seen(d, Default), f, t)
Nowhere(d, r, f, t) ==
  NotInRun(d, r, f, t) /\ Safe(d, Default) /\ ~Has(Seen(d, Default), f, t)

Reached(d, r, f, t) ==
  InUser(d, f, t) \/ InRun(d, r, f, t) \/ InDefault(d, r, f, t) \/ Nowhere(d, r, f, t)
FromPlane(d, r, f, t) ==
  /\ InUser(d, f, t) => Answer(d, r, f, t) = Value(Seen(d, User)[f], t)
  /\ InRun(d, r, f, t) => Answer(d, r, f, t) = Value(Seen(d, r)[f], t)
  /\ InDefault(d, r, f, t) => Answer(d, r, f, t) = Value(Seen(d, Default)[f], t)
  /\ Nowhere(d, r, f, t) => Answer(d, r, f, t) = None

\* Whether a plane has the field of that type.
LEMMA HoldsFacts ==
  ASSUME NEW d, NEW k, NEW v, d.dead = FALSE, d.tables[k] = v, NEW f, NEW t
  PROVE  Holds(d, k, f, t) <=> Has(v, f, t)
BY DEF Holds, Has

\* The answer is the field of the plane that was picked.
LEMMA FieldFacts ==
  ASSUME NEW d, NEW r, NEW f, NEW t, NEW e, NEW k, NEW v, e.tables[k] = v, k # None,
         NEW p, p = Pick(d, r, f, t), p.db = e, p.plane = k
  PROVE  Answer(d, r, f, t) = Value(v[f], t)
BY DEF Answer

\* A read picks the first plane that has the field, and looks no further.
LEMMA AnswerFacts ==
  ASSUME docs \subseteq DocumentType, PlanesInv, NEW d \in DBType, d.dead = FALSE,
         NEW r \in Runs, NEW f, NEW t, NEW p, p = Pick(d, r, f, t)
  PROVE  FromPlane(d, r, f, t) /\ (p.db.dead = TRUE \/ Reached(d, r, f, t))
<1> USE DEF FromPlane, Reached
<1>1. PICK d1 : d1 = FindTable(d, User)
  OBVIOUS
<1>2. PICK d2 : d2 = FindTable(d1, r)
  OBVIOUS
<1>3. PICK d3 : d3 = FindTable(d2, Default)
  OBVIOUS
<1>4. /\ User \in Keys /\ Default \in Keys /\ r \in Keys
      /\ Apart(r, User) /\ Apart(Default, User) /\ Apart(Default, r)
      /\ User # None /\ r # None /\ Default # None
  BY KeysFacts, ServerAssumption, DBAssumption DEF Apart, User, Default
<1>6. p = IF Holds(d1, User, f, t) THEN [db |-> d1, plane |-> User]
          ELSE IF Holds(d2, r, f, t) THEN [db |-> d2, plane |-> r]
          ELSE IF Holds(d3, Default, f, t) THEN [db |-> d3, plane |-> Default]
          ELSE [db |-> d3, plane |-> None]
  BY <1>1, <1>2, <1>3, PickFacts
<1>7. CASE ~Safe(d, User)
  <2>1. d1.dead = TRUE
    BY <1>1, <1>4, <1>7, FindUnsafe
  <2>2. d2 = d1 /\ d3 = d1
    BY <1>2, <1>3, <2>1 DEF FindTable
  <2>3. p.db = d1
    BY <1>6, <2>2
  <2> QED BY <1>7, <2>1, <2>3 DEF InUser, InRun, InDefault, Nowhere, NotInRun, NotInUser
<1>8. ASSUME Safe(d, User)
      PROVE  /\ d1 \in DBType /\ d1.dead = FALSE /\ d1.tables[User] = Seen(d, User)
             /\ Holds(d1, User, f, t) <=> Has(Seen(d, User), f, t)
             /\ Seen(d1, r) = Seen(d, r) /\ (Safe(d1, r) <=> Safe(d, r))
             /\ Seen(d1, Default) = Seen(d, Default) /\ (Safe(d1, Default) <=> Safe(d, Default))
  <2>1. d1 \in DBType /\ d1.dead = FALSE /\ d1.tables[User] = Seen(d, User)
    BY <1>1, <1>4, <1>8, FindSafe
  <2>2. Holds(d1, User, f, t) <=> Has(Seen(d, User), f, t)
    BY <2>1, HoldsFacts
  <2>3. Seen(d1, r) = Seen(d, r) /\ (Safe(d1, r) <=> Safe(d, r))
    BY <1>1, <1>4, FindOther
  <2>4. Seen(d1, Default) = Seen(d, Default) /\ (Safe(d1, Default) <=> Safe(d, Default))
    BY <1>1, <1>4, FindOther
  <2> QED BY <2>1, <2>2, <2>3, <2>4
<1>9. CASE InUser(d, f, t)
  <2>1. Safe(d, User) /\ Has(Seen(d, User), f, t)
    BY <1>9 DEF InUser
  <2>2. p.db = d1 /\ p.plane = User /\ d1.tables[User] = Seen(d, User)
    BY <1>6, <1>8, <2>1
  <2>3. Answer(d, r, f, t) = Value(Seen(d, User)[f], t)
    BY <1>4, <2>2, FieldFacts
  <2> QED BY <1>9, <2>1, <2>3 DEF InRun, InDefault, Nowhere, NotInRun, NotInUser
<1>10. ASSUME NotInUser(d, f, t)
       PROVE  Safe(d, User) /\ ~Holds(d1, User, f, t) /\ ~InUser(d, f, t)
  BY <1>8, <1>10 DEF NotInUser, InUser
<1>11. CASE NotInUser(d, f, t) /\ ~Safe(d, r)
  <2>1. d2.dead = TRUE
    BY <1>2, <1>4, <1>8, <1>10, <1>11, FindUnsafe
  <2>2. d3 = d2
    BY <1>3, <2>1 DEF FindTable
  <2>3. p.db = d2
    BY <1>6, <1>10, <1>11, <2>2
  <2> QED BY <1>10, <1>11, <2>1, <2>3 DEF InRun, InDefault, Nowhere, NotInRun
<1>12. ASSUME NotInUser(d, f, t), Safe(d, r)
       PROVE  /\ d2 \in DBType /\ d2.dead = FALSE /\ d2.tables[r] = Seen(d, r)
              /\ Holds(d2, r, f, t) <=> Has(Seen(d, r), f, t)
              /\ Seen(d2, Default) = Seen(d, Default) /\ (Safe(d2, Default) <=> Safe(d, Default))
  <2>1. d2 \in DBType /\ d2.dead = FALSE /\ d2.tables[r] = Seen(d, r)
    BY <1>2, <1>4, <1>8, <1>10, <1>12, FindSafe
  <2>2. Holds(d2, r, f, t) <=> Has(Seen(d, r), f, t)
    BY <2>1, HoldsFacts
  <2>3. Seen(d2, Default) = Seen(d1, Default) /\ (Safe(d2, Default) <=> Safe(d1, Default))
    BY <1>2, <1>4, <1>8, <1>10, <1>12, FindOther
  <2> QED BY <1>8, <1>10, <1>12, <2>1, <2>2, <2>3
<1>13. CASE InRun(d, r, f, t)
  <2>1. NotInUser(d, f, t) /\ Safe(d, r) /\ Has(Seen(d, r), f, t)
    BY <1>13 DEF InRun
  <2>2. p.db = d2 /\ p.plane = r /\ d2.tables[r] = Seen(d, r)
    BY <1>6, <1>10, <1>12, <2>1
  <2>3. Answer(d, r, f, t) = Value(Seen(d, r)[f], t)
    BY <1>4, <2>2, FieldFacts
  <2> QED BY <1>10, <1>13, <2>1, <2>3 DEF InDefault, Nowhere, NotInRun
<1>14. ASSUME NotInRun(d, r, f, t)
       PROVE  /\ NotInUser(d, f, t) /\ Safe(d, r) /\ ~Holds(d2, r, f, t)
              /\ ~InUser(d, f, t) /\ ~InRun(d, r, f, t)
  BY <1>10, <1>12, <1>14 DEF NotInRun, InRun
<1>15. CASE NotInRun(d, r, f, t) /\ ~Safe(d, Default)
  <2>1. d3.dead = TRUE
    BY <1>3, <1>4, <1>12, <1>14, <1>15, FindUnsafe
  <2>2. p.db = d3
    BY <1>6, <1>10, <1>14, <1>15
  <2> QED BY <1>14, <1>15, <2>1, <2>2 DEF InDefault, Nowhere
<1>16. CASE NotInRun(d, r, f, t) /\ Safe(d, Default)
  <2>1. d3 \in DBType /\ d3.dead = FALSE /\ d3.tables[Default] = Seen(d, Default)
    <3>1. Safe(d2, Default) /\ d2 \in DBType /\ d2.dead = FALSE
      BY <1>12, <1>14, <1>16
    <3>2. Seen(d2, Default) = Seen(d, Default)
      BY <1>12, <1>14, <1>16
    <3> QED BY <1>3, <1>4, <3>1, <3>2, FindSafe
  <2>2. Holds(d3, Default, f, t) <=> Has(Seen(d, Default), f, t)
    BY <2>1, HoldsFacts
  <2>3. CASE Has(Seen(d, Default), f, t)
    <3>1. p.db = d3 /\ p.plane = Default
      BY <1>6, <1>10, <1>14, <1>16, <2>2, <2>3
    <3>2. Answer(d, r, f, t) = Value(Seen(d, Default)[f], t)
      BY <1>4, <2>1, <3>1, FieldFacts
    <3> QED BY <1>14, <1>16, <2>3, <3>2 DEF InDefault, Nowhere
  <2>4. CASE ~Has(Seen(d, Default), f, t)
    <3>2. p.plane = None
      BY <1>6, <1>10, <1>14, <1>16, <2>2, <2>4
    <3>3. Answer(d, r, f, t) = None
      BY <3>2 DEF Answer
    <3> QED BY <1>14, <1>16, <2>4, <3>3 DEF InDefault, Nowhere
  <2> QED BY <2>3, <2>4
<1>17. \/ ~Safe(d, User) \/ InUser(d, f, t) \/ (NotInUser(d, f, t) /\ ~Safe(d, r))
       \/ InRun(d, r, f, t) \/ (NotInRun(d, r, f, t) /\ ~Safe(d, Default))
       \/ (NotInRun(d, r, f, t) /\ Safe(d, Default))
  BY DEF InUser, NotInUser, InRun, NotInRun
<1> QED BY <1>7, <1>9, <1>11, <1>13, <1>15, <1>16, <1>17

\* What lookups do to the other keys: a table comes from a document for that
\* key, and what is noted as missing is missing.
Grew(d, e) ==
  \A k \in Keys :
    /\ e.tables[k] # d.tables[k]
         => Table \in names /\ \E doc \in Select(Table, k) : e.tables[k] = doc.content
    /\ e.tables[k] # d.tables[k] /\ k \in {User, Default}
         => d.tables[k] = None /\ k \notin d.missing
    /\ k \in d.missing => k \in e.missing
    /\ k \in e.missing => k \in d.missing \/ Select(Table, k) = {}

\* A lookup only adds to what is in memory.
LEMMA GrewFind ==
  ASSUME docs \subseteq DocumentType, PlanesInv, NEW d \in DBType, NEW j \in Keys,
         NEW e, e = FindTable(d, j), e.dead = FALSE
  PROVE  Grew(d, e)
<1>1. CASE ~Asks(d, j)
  BY <1>1, FindFacts DEF Grew
<1>2. CASE Asks(d, j)
  <2>1. Answers(e, d, j) /\ d.tables[j] = None /\ Table \in names /\ j \notin d.missing
    BY <1>2, FindFacts DEF Asks
  <2>2. CASE Select(Table, j) = {}
    <3>1. e.tables = d.tables /\ e.missing = d.missing \cup {j}
      BY <2>1, <2>2 DEF Answers
    <3> QED BY <2>2, <3>1 DEF Grew
  <2>3. CASE Select(Table, j) # {}
    <3>1. PICK doc : doc = CHOOSE x \in Select(Table, j) : TRUE
      OBVIOUS
    <3>2. e.missing = d.missing /\ Stored(e, d, doc)
      BY <2>1, <2>3, <3>1 DEF Answers
    <3>3. doc \in Select(Table, j)
      BY <2>3, <3>1
    <3>4. ASSUME NEW k \in Keys, e.tables[k] # d.tables[k]
          PROVE  /\ doc \in Select(Table, k) /\ e.tables[k] = doc.content
                 /\ k \in {User, Default} => d.tables[k] = None /\ k \notin d.missing
      <4>1. k \in Filled(doc) /\ e.tables[k] = doc.content
        BY <3>2, <3>4 DEF Stored
      <4>2. doc \in Select(Table, k)
        BY <3>3, <4>1, SelectFacts, KeysFacts DEF Select, Filled
      <4>3. k \in {User, Default} => k = j
        BY <3>4, FindApart DEF Apart
      <4> QED BY <2>1, <4>1, <4>2, <4>3
    <3> QED BY <2>1, <3>2, <3>4 DEF Grew
  <2> QED BY <2>2, <2>3
<1> QED BY <1>1, <1>2

\* So do two of them.
LEMMA GrewAgain ==
  ASSUME NEW d, NEW x, NEW e, Grew(d, x), Grew(x, e)
  PROVE  Grew(d, e)
<1> SUFFICES ASSUME NEW k \in Keys
             PROVE  /\ e.tables[k] # d.tables[k]
                         => Table \in names /\ \E doc \in Select(Table, k) : e.tables[k] = doc.content
                    /\ e.tables[k] # d.tables[k] /\ k \in {User, Default}
                         => d.tables[k] = None /\ k \notin d.missing
                    /\ k \in d.missing => k \in e.missing
                    /\ k \in e.missing => k \in d.missing \/ Select(Table, k) = {}
  BY DEF Grew
<1> QED BY DEF Grew

\* So does a read.
LEMMA ReadGrew ==
  ASSUME docs \subseteq DocumentType, PlanesInv, NEW d \in DBType, NEW r \in Keys, NEW f, NEW t,
         NEW e, e = Pick(d, r, f, t).db, e.dead = FALSE
  PROVE  Grew(d, e) /\ e \in DBType
<1>1. PICK P : P = {x \in DBType : x.dead = TRUE \/ Grew(d, x)}
  OBVIOUS
<1>2. ASSUME NEW x \in P, NEW k \in Keys PROVE FindTable(x, k) \in P
  <2>1. PICK y : y = FindTable(x, k)
    OBVIOUS
  <2>2. x \in DBType /\ y \in DBType
    BY <1>1, <2>1, FindFacts
  <2>3. CASE x.dead = TRUE
    BY <1>1, <2>1, <2>2, <2>3 DEF FindTable
  <2>4. CASE y.dead = FALSE /\ Grew(d, x)
    BY <1>1, <2>1, <2>2, <2>4, GrewFind, GrewAgain
  <2>5. CASE y.dead = TRUE
    BY <1>1, <2>1, <2>2, <2>5
  <2> QED BY <1>1, <2>2, <2>3, <2>4, <2>5 DEF DBType
<1>3. d \in P
  BY <1>1 DEF Grew
<1>4. e \in P
  BY <1>2, <1>3, PickStays
<1> QED BY <1>1, <1>4

\* There is no choice of the document if there are not two.
LEMMA OneDocument ==
  ASSUME IsFiniteSet(docs), NEW k, ~Two(k), NEW x \in Select(Table, k), NEW y \in Select(Table, k)
  PROVE  x = y
<1>1. PICK S : S = Select(Table, k)
  OBVIOUS
<1>2. S \subseteq docs
  BY <1>1 DEF Select
<1>3. IsFiniteSet(S) /\ Cardinality(S) \in Nat /\ Cardinality(S) # 0
  <2>1. IsFiniteSet(S)
    BY <1>2, FS_Subset
  <2> QED BY <1>1, <2>1, FS_CardinalityType, FS_EmptySet
<1>4. Cardinality(S) = 1
  BY <1>1, <1>3 DEF Two
<1> QED BY <1>1, <1>3, <1>4, FS_Singleton

\* A lookup of a key finds after another read what it would have found before,
\* unless that read changed a table of the run plane that was there, or was
\* known not to be.
Replaced(d, e, k) ==
  Select(Table, k) # {} /\ d.tables[k] # e.tables[k] /\ (k \in d.missing \/ d.tables[k] # None)

\* What was there to see still is, unless a document took its place.
LEMMA SeenAgain ==
  ASSUME docs \subseteq DocumentType, IsFiniteSet(docs), NEW d \in DBType, NEW e \in DBType,
         Grew(d, e), NEW k \in Keys, Safe(d, k), ~Replaced(d, e, k)
  PROVE  Safe(e, k) /\ Seen(e, k) = Seen(d, k)
<1>1. CASE e.tables[k] = d.tables[k] /\ (k \in e.missing <=> k \in d.missing)
  BY <1>1, ApartSeen
<1>2. CASE e.tables[k] = d.tables[k] /\ Select(Table, k) = {}
  <2>1. ~Two(k)
    BY <1>2, FS_EmptySet DEF Two
  <2> QED BY <1>2, <2>1 DEF Seen, Safe
<1>3. CASE e.tables[k] # d.tables[k]
  <2>1. PICK doc \in Select(Table, k) : e.tables[k] = doc.content
    BY <1>3 DEF Grew
  <2>2. Wants(d, k)
    BY <1>3, <2>1 DEF Grew, Replaced, Wants
  <2>3. e.tables[k] # None
    BY <2>1, SelectFacts
  <2>4. PICK x : x = CHOOSE y \in Select(Table, k) : TRUE
    OBVIOUS
  <2>5. x = doc
    BY <2>1, <2>2, <2>4, OneDocument DEF Safe
  <2>6. Seen(d, k) = doc.content
    BY <2>1, <2>2, <2>4, <2>5 DEF Seen
  <2> QED BY <2>1, <2>3, <2>6 DEF Seen, Safe, Wants
<1> QED BY <1>1, <1>2, <1>3 DEF Grew

SameLook(d, e, k) == Safe(d, k) => Safe(e, k) /\ Seen(e, k) = Seen(d, k)
Agree(d, e, r, f, t) == Answer(e, r, f, t) = Answer(d, r, f, t)
\* Two databases in which the planes look the same give the same answer.
LEMMA SameAnswer ==
  ASSUME docs \subseteq DocumentType, PlanesInv, NEW d \in DBType, d.dead = FALSE,
         NEW e \in DBType, e.dead = FALSE, NEW r \in Runs, NEW f, NEW t,
         SameLook(d, e, User), SameLook(d, e, Default), SameLook(d, e, r), Reached(d, r, f, t)
  PROVE  Agree(d, e, r, f, t)
<1>1. FromPlane(d, r, f, t)
  BY AnswerFacts
<1>2. FromPlane(e, r, f, t)
  BY AnswerFacts
<1>3. CASE InUser(d, f, t)
  <2>1. InUser(e, f, t) /\ Seen(e, User) = Seen(d, User)
    BY <1>3 DEF SameLook, InUser
  <2> QED BY <1>1, <1>2, <1>3, <2>1 DEF FromPlane, Agree
<1>4. CASE InRun(d, r, f, t)
  <2>1. InRun(e, r, f, t) /\ Seen(e, r) = Seen(d, r)
    BY <1>4 DEF SameLook, InRun, NotInUser
  <2> QED BY <1>1, <1>2, <1>4, <2>1 DEF FromPlane, Agree
<1>5. CASE InDefault(d, r, f, t)
  <2>1. InDefault(e, r, f, t) /\ Seen(e, Default) = Seen(d, Default)
    BY <1>5 DEF SameLook, InDefault, NotInRun, NotInUser
  <2> QED BY <1>1, <1>2, <1>5, <2>1 DEF FromPlane, Agree
<1>6. CASE Nowhere(d, r, f, t)
  <2>1. Nowhere(e, r, f, t)
    BY <1>6 DEF SameLook, Nowhere, NotInRun, NotInUser
  <2> QED BY <1>1, <1>2, <1>6, <2>1 DEF FromPlane, Agree
<1> QED BY <1>1, <1>3, <1>4, <1>5, <1>6 DEF Reached

\* A read gets the same answer after another read as before it.
LEMMA OtherRead ==
  ASSUME docs \subseteq DocumentType, IsFiniteSet(docs), PlanesInv, NEW d \in DBType, d.dead = FALSE,
         NEW q \in Keys, NEW g, NEW u, NEW o, o = Pick(d, q, g, u), NEW e, e = o.db, e.dead = FALSE,
         NEW r \in Runs, NEW f, NEW t, ~Replaced(d, e, r),
         NEW p, p = Pick(d, r, f, t), p.db.dead # TRUE
  PROVE  Agree(d, e, r, f, t)
<1>1. Grew(d, e) /\ e \in DBType
  BY ReadGrew
<1>2. User \in Keys /\ Default \in Keys /\ r \in Keys
  BY KeysFacts
<1>3. ~Replaced(d, e, User) /\ ~Replaced(d, e, Default)
  BY <1>1, <1>2 DEF Grew, Replaced
<1>4. SameLook(d, e, User) /\ SameLook(d, e, Default) /\ SameLook(d, e, r)
  BY <1>1, <1>2, <1>3, SeenAgain DEF SameLook
<1>5. Reached(d, r, f, t)
  BY AnswerFacts
<1> QED BY <1>1, <1>4, <1>5, SameAnswer

\* What DB::FindTable fetches for one reader is what another one would have
\* got: the order of reads matters only where a fetched document takes the place
\* of a table of a file for the same run, where the server got a document for a
\* run after it had refused one, or where the other reader would have ended the
\* job with two documents.
THEOREM ReadsDoNotDisturbAlways ==
  ASSUME \A D \in InitDocs : \A doc \in D : OnePlane(doc)
  PROVE  Spec => ReadsDoNotDisturb
<1>1. ASSUME DocsInv, JobInv, PlanesInv, Running', ReadAny,
             NEW r \in Runs, NEW f \in Fields, NEW t \in Types
      PROVE  \/ Answer(db', r, f, t) = Answer(db, r, f, t)
             \/ Pick(db, r, f, t).db.dead
             \/ Replaced(db, db', r)
  <2>1. PICK q, g, u : Read(q, g, u)
    BY <1>1 DEF ReadAny
  <2>2. PICK d : d = db
    OBVIOUS
  <2>3. PICK e : e = db'
    OBVIOUS
  <2>4. /\ d \in DBType /\ d.dead = FALSE /\ e = Pick(d, q, g, u).db
        /\ q \in Keys
    BY <1>1, <2>1, <2>2, <2>3, KeysFacts DEF Read, Running, JobInv, DBType
  <2>5. e.dead = FALSE
    <3>1. ~e.dead
      BY <1>1, <2>3 DEF Running
    <3>2. e \in DBType
      BY <1>1, <2>2, <2>4, ReadFacts DEF DocsInv, JobInv
    <3> QED BY <3>1, <3>2 DEF DBType
  <2>6. PICK o : o = Pick(d, q, g, u)
    OBVIOUS
  <2>7. PICK p : p = Pick(d, r, f, t)
    OBVIOUS
  <2>8. CASE p.db.dead # TRUE /\ ~Replaced(d, e, r)
    <3>1. docs \subseteq DocumentType /\ IsFiniteSet(docs)
      BY <1>1 DEF DocsInv
    <3>2. Agree(d, e, r, f, t)
      BY <1>1, <2>4, <2>5, <2>6, <2>7, <2>8, <3>1, OtherRead
    <3> QED BY <2>2, <2>3, <3>2 DEF Agree
  <2> QED BY <2>2, <2>3, <2>7, <2>8 DEF Replaced
<1>2. DocsInv /\ JobInv /\ PlanesInv /\ SetsKept /\ [Next]_vars
        => [db' # db /\ Running' /\ ReadAny =>
              \A r \in Runs, f \in Fields, t \in Types :
                \/ Answer(db', r, f, t) = Answer(db, r, f, t)
                \/ Pick(db, r, f, t).db.dead
                \/ /\ Select(Table, r) # {} /\ db.tables[r] # db'.tables[r]
                   /\ r \in db.missing \/ db.tables[r] # None]_vars
  BY <1>1 DEF Replaced
<1> QED BY <1>2, KeptHolds, PTL DEF Spec, ReadsDoNotDisturb

=============================================================================
