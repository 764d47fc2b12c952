---------------------------- MODULE Verifiers_proofs ----------------------------
(***************************************************************************)
(* Facts about the operators of Verifiers, for any repository: what it is  *)
(* to put a set in order, which ids package scripts get, and what the      *)
(* manifests of a repository yield.                                        *)
(***************************************************************************)
EXTENDS Verifiers, FiniteSetTheorems, WellFoundedInduction, TLAPS

-----------------------------------------------------------------------------
(* Induction.  The library's theorems about it take a predicate; what is    *)
(* said of sets here can be cited for any of them.                          *)

\* Some natural number of a set is the least.
LEMMA LeastElement ==
  ASSUME NEW T \in SUBSET Nat, T # {}
  PROVE  \E m \in T : \A n \in T : m <= n
<1> DEFINE U == {0..m : m \in T}
<1>1. U \subseteq FiniteSubsetsOf(Nat) /\ U # {}
  <2>1. \A m \in T : 0..m \in SUBSET Nat /\ IsFiniteSet(0..m)
    BY FS_Interval
  <2> QED
    BY <2>1 DEF FiniteSubsetsOf
<1>2. PICK u \in U : \A v \in U : <<v, u>> \notin StrictSubsetOrdering(Nat)
  <2> HIDE DEF U
  <2> QED
    BY <1>1, FS_StrictSubsetOrderingWellFounded, WFMin
<1>3. PICK m \in T : u = 0..m
  BY <1>2
<1>4. ASSUME NEW n \in T, n < m PROVE FALSE
  <2>1. 0..n \subseteq 0..m /\ m \notin 0..n /\ m \in 0..m
    BY <1>4
  <2>2. <<0..n, 0..m>> \in (SUBSET Nat) \X (SUBSET Nat) /\ 0..n # 0..m
    BY <2>1
  <2>3. <<0..n, 0..m>> \in StrictSubsetOrdering(Nat)
    BY <2>1, <2>2 DEF StrictSubsetOrdering
  <2> QED
    BY <1>2, <1>3, <1>4, <2>3
<1> QED
  BY <1>4

\* A set that holds 0, and n + 1 with each n, holds the natural numbers.
LEMMA SetInduction ==
  ASSUME NEW S, 0 \in S, \A n \in Nat : n \in S => n + 1 \in S
  PROVE  Nat \subseteq S
<1> DEFINE T == Nat \ S
<1> SUFFICES ASSUME T # {} PROVE FALSE
  OBVIOUS
<1>1. PICK m \in T : \A n \in T : m <= n
  BY LeastElement
<1>2. m # 0 /\ m - 1 \in Nat /\ m - 1 \notin T
  BY <1>1
<1> QED
  BY <1>2

-----------------------------------------------------------------------------
(* Putting a set in order.                                                  *)

StrictOrder(before, S) ==
  /\ \A x \in S : <<x, x>> \notin before
  /\ \A x, y, z \in S : <<x, y>> \in before /\ <<y, z>> \in before => <<x, z>> \in before
  /\ \A x, y \in S : x # y => <<x, y>> \in before \/ <<y, x>> \in before

\* The members of a finite set are enumerated once each, in their order.
LEMMA InOrderFacts ==
  ASSUME NEW S, IsFiniteSet(S), NEW before, StrictOrder(before, S),
         NEW o, o = InOrder(S, before)
  PROVE  /\ Cardinality(S) \in Nat
         /\ o \in [1..Cardinality(S) -> S]
         /\ \A x \in S : \E n \in 1..Cardinality(S) : o[n] = x
         /\ \A m, n \in 1..Cardinality(S) : o[m] = o[n] => m = n
         /\ \A m, n \in 1..Cardinality(S) : m < n => <<o[m], o[n]>> \in before
<1> DEFINE Earlier(x) == {y \in S : <<y, x>> \in before}
           c == Cardinality(S)
           f == [x \in S |-> Cardinality(Earlier(x)) + 1]
<1>1. c \in Nat /\ IsFiniteSet(1..c) /\ Cardinality(1..c) = c
  BY FS_CardinalityType, FS_Interval
<1>2. \A x \in S : IsFiniteSet(Earlier(x)) /\ Cardinality(Earlier(x)) \in Nat
  <2> TAKE x \in S
  <2>1. Earlier(x) \in SUBSET S
    OBVIOUS
  <2> QED
    BY <2>1, FS_Subset, FS_CardinalityType
<1>3. ASSUME NEW x \in S, NEW y \in S, <<x, y>> \in before
      PROVE  Cardinality(Earlier(x)) < Cardinality(Earlier(y))
  <2>1. Earlier(x) \in SUBSET Earlier(y)
    BY <1>3 DEF StrictOrder
  <2>2. x \in Earlier(y) /\ x \notin Earlier(x)
    BY <1>3 DEF StrictOrder
  <2>3. Earlier(x) # Earlier(y)
    BY <2>2
  <2> HIDE DEF Earlier
  <2>4. /\ Cardinality(Earlier(x)) <= Cardinality(Earlier(y))
        /\ Cardinality(Earlier(x)) # Cardinality(Earlier(y))
    BY <1>2, <2>1, <2>3, FS_Subset
  <2> QED
    BY <1>2, <2>4
<1>4. ASSUME NEW x \in S PROVE f[x] \in 1..c
  <2>1. S \ {x} \in SUBSET S /\ IsFiniteSet(S \ {x}) /\ Cardinality(S \ {x}) = c - 1
    BY FS_RemoveElement
  <2>2. Earlier(x) \in SUBSET (S \ {x})
    BY DEF StrictOrder
  <2> HIDE DEF Earlier
  <2>3. Cardinality(Earlier(x)) <= c - 1
    BY <2>1, <2>2, FS_Subset
  <2> QED
    BY <1>1, <1>2, <2>3
<1>5. ASSUME NEW x \in S, NEW y \in S, f[x] = f[y] PROVE x = y
  <2> SUFFICES ASSUME x # y PROVE FALSE
    OBVIOUS
  <2>0. /\ Cardinality(Earlier(x)) \in Nat /\ Cardinality(Earlier(y)) \in Nat
        /\ Cardinality(Earlier(x)) + 1 = Cardinality(Earlier(y)) + 1
    BY <1>2, <1>5
  <2> HIDE DEF Earlier, f
  <2>1. CASE <<x, y>> \in before
    BY <1>3, <2>0, <2>1
  <2>2. CASE <<y, x>> \in before
    BY <1>3, <2>0, <2>2
  <2> QED
    BY <2>1, <2>2 DEF StrictOrder
<1>6. f \in Injection(S, 1..c)
  <2>1. f \in [S -> 1..c]
    BY <1>4
  <2> QED
    BY <2>1, <1>5 DEF Injection, IsInjective
<1>7. f \in Surjection(S, 1..c)
  <2> HIDE DEF f
  <2> QED
    BY <1>1, <1>6, FS_Injection
<1>8. \A n \in 1..c : \E x \in S : f[x] = n
  BY <1>7 DEF Surjection
<1>9. \A n \in 1..c : o[n] \in S /\ f[o[n]] = n
  <2> TAKE n \in 1..c
  <2>1. o[n] = CHOOSE x \in S : Cardinality(Earlier(x)) = n - 1
    BY DEF InOrder
  <2>2. PICK x \in S : f[x] = n
    BY <1>8
  <2>3. Cardinality(Earlier(x)) \in Nat /\ Cardinality(Earlier(x)) + 1 = n
    BY <1>2, <2>2
  <2> HIDE DEF Earlier, f
  <2>4. Cardinality(Earlier(x)) = n - 1
    BY <2>3
  <2>5. o[n] \in S /\ Cardinality(Earlier(o[n])) = n - 1
    BY <2>1, <2>4
  <2>6. f[o[n]] = n - 1 + 1
    BY <2>5 DEF f
  <2> QED
    BY <1>1, <2>5, <2>6
<1>10. o \in [1..c -> S]
  <2>1. o = [n \in 1..c |-> CHOOSE x \in S : Cardinality(Earlier(x)) = n - 1]
    BY DEF InOrder
  <2> HIDE DEF Earlier, f
  <2> QED
    BY <2>1, <1>9
<1>11. \A x \in S : o[f[x]] = x
  BY <1>4, <1>5, <1>9
<1>12. ASSUME NEW m \in 1..c, NEW n \in 1..c, m < n PROVE <<o[m], o[n]>> \in before
  <2>1. o[m] \in S /\ o[n] \in S /\ f[o[m]] = m /\ f[o[n]] = n
    BY <1>9
  <2>2. o[m] # o[n]
    BY <2>1, <1>12
  <2>3. <<o[n], o[m]>> \notin before
    <3> SUFFICES ASSUME <<o[n], o[m]>> \in before PROVE FALSE
      OBVIOUS
    <3>1. Cardinality(Earlier(o[n])) < Cardinality(Earlier(o[m]))
      BY <1>3, <2>1
    <3>2. Cardinality(Earlier(o[n])) + 1 = n /\ Cardinality(Earlier(o[m])) + 1 = m
      BY <2>1
    <3>3. Cardinality(Earlier(o[n])) \in Nat /\ Cardinality(Earlier(o[m])) \in Nat
      BY <1>2, <2>1
    <3> HIDE DEF Earlier, f
    <3> QED
      BY <1>1, <1>12, <3>1, <3>2, <3>3
  <2> QED
    BY <2>1, <2>2, <2>3 DEF StrictOrder
<1> QED
  BY <1>1, <1>4, <1>9, <1>10, <1>11, <1>12

-----------------------------------------------------------------------------
(* Package scripts.                                                         *)

ScriptsInOrder(found) ==
  InOrder(found, {p \in found \X found : ScriptBefore(p[1], p[2])})

\* The scripts that are checks are put in the order of their names.
LEMMA ScriptsOrdered ==
  ASSUME NEW found \in SUBSET Scripts, IsFiniteSet(found),
         NEW o, o = ScriptsInOrder(found)
  PROVE  /\ Cardinality(found) \in Nat
         /\ o \in [1..Cardinality(found) -> found]
         /\ \A s \in found : \E n \in 1..Cardinality(found) : o[n] = s
         /\ \A m, n \in 1..Cardinality(found) : o[m] = o[n] => m = n
         /\ \A m, n \in 1..Cardinality(found) : m < n => ScriptBefore(o[m], o[n])
<1> DEFINE before == {p \in found \X found : ScriptBefore(p[1], p[2])}
<1>1. \A s, t \in found : <<s, t>> \in before <=> ScriptBefore(s, t)
  OBVIOUS
<1>2. \A s \in found : ScriptRank[s] \in Nat
  BY ScriptAssumption
<1>3. StrictOrder(before, found)
  <2>1. \A s \in found : ~ScriptBefore(s, s)
    BY <1>2 DEF ScriptBefore
  <2>2. \A r, s, t \in found : ScriptBefore(r, s) /\ ScriptBefore(s, t) => ScriptBefore(r, t)
    BY <1>2 DEF ScriptBefore
  <2>3. \A s, t \in found : s # t => ScriptBefore(s, t) \/ ScriptBefore(t, s)
    BY <1>2, ScriptAssumption DEF ScriptBefore
  <2> HIDE DEF before
  <2> QED
    BY <1>1, <2>1, <2>2, <2>3 DEF StrictOrder
<1>4. o = InOrder(found, before)
  BY DEF ScriptsInOrder
<1> HIDE DEF before
<1>5. /\ Cardinality(found) \in Nat
      /\ o \in [1..Cardinality(found) -> found]
      /\ \A s \in found : \E n \in 1..Cardinality(found) : o[n] = s
      /\ \A m, n \in 1..Cardinality(found) : o[m] = o[n] => m = n
      /\ \A m, n \in 1..Cardinality(found) : m < n => <<o[m], o[n]>> \in before
  BY <1>3, <1>4, InOrderFacts
<1> QED
  BY <1>1, <1>5

\* `long` holds those scripts of S whose id is taken by one before them.
IsLong(long, S) ==
  \A s \in S :
    s \in long <=> \E t \in S : ScriptBefore(t, s) /\ ScriptId(long, t) = JsId[s]

\* Such a set there is: by induction, from each script to the next.
LEMMA LongNamedFacts ==
  ASSUME NEW found \in SUBSET Scripts, IsFiniteSet(found),
         NEW long, long = LongNamed(found)
  PROVE  long \in SUBSET found /\ IsLong(long, found)
<1> DEFINE o == ScriptsInOrder(found)
           c == Cardinality(found)
           First(n) == {o[k] : k \in 1..n}
           N == {n \in Nat : n <= c => \E l \in SUBSET First(n) : IsLong(l, First(n))}
<1>1. /\ c \in Nat /\ o \in [1..c -> found]
      /\ \A s \in found : \E n \in 1..c : o[n] = s
      /\ \A m, n \in 1..c : o[m] = o[n] => m = n
      /\ \A m, n \in 1..c : m < n => ScriptBefore(o[m], o[n])
  BY ScriptsOrdered
<1>2. 0 \in N
  <2>1. First(0) = {}
    OBVIOUS
  <2>2. IsLong({}, {})
    BY DEF IsLong
  <2> QED
    BY <2>1, <2>2
<1> HIDE DEF o, First
<1>3. ASSUME NEW n \in Nat, n \in N PROVE n + 1 \in N
  <2> SUFFICES ASSUME n + 1 <= c
               PROVE  \E l \in SUBSET First(n + 1) : IsLong(l, First(n + 1))
    OBVIOUS
  <2>1. PICK l \in SUBSET First(n) : IsLong(l, First(n))
    BY <1>1, <1>3
  <2> DEFINE x == o[n + 1]
             taken == \E t \in First(n) : ScriptId(l, t) = JsId[x]
             m == IF taken THEN l \cup {x} ELSE l
  <2>2. x \in found /\ n + 1 \in 1..c /\ \A k \in 1..n : k \in 1..c /\ k < n + 1
    BY <1>1
  <2>3. First(n + 1) = First(n) \cup {x}
    <3>1. 1..(n + 1) = (1..n) \cup {n + 1}
      OBVIOUS
    <3> QED
      BY <3>1 DEF First
  <2>4. \A t \in First(n) : ScriptBefore(t, x) /\ t # x /\ t \in found
    BY <1>1, <2>2 DEF First
  <2>5. ~ScriptBefore(x, x) /\ \A s \in First(n) : ~ScriptBefore(x, s)
    <3>1. \A s \in found : ScriptRank[s] \in Nat
      BY ScriptAssumption
    <3> HIDE DEF x
    <3> QED
      BY <2>2, <2>4, <3>1 DEF ScriptBefore
  <2> HIDE DEF x
  <2>6. \A t \in First(n) : (t \in m <=> t \in l) /\ ScriptId(m, t) = ScriptId(l, t)
    BY <2>1, <2>4 DEF ScriptId
  <2>7. x \in m <=> \E t \in First(n) : ScriptId(m, t) = JsId[x]
    <3>1. x \notin l
      BY <2>1, <2>4
    <3> QED
      BY <2>6, <3>1
  <2>8. m \in SUBSET First(n + 1)
    BY <2>1, <2>3
  <2> HIDE DEF m
  <2>9. IsLong(m, First(n + 1))
    <3> SUFFICES ASSUME NEW s \in First(n + 1)
                 PROVE  s \in m <=> \E t \in First(n + 1) :
                                      ScriptBefore(t, s) /\ ScriptId(m, t) = JsId[s]
      BY DEF IsLong
    <3>1. CASE s = x
      BY <2>3, <2>4, <2>5, <2>7, <3>1
    <3>2. CASE s \in First(n)
      <4>1. s \in l <=> \E t \in First(n) : ScriptBefore(t, s) /\ ScriptId(l, t) = JsId[s]
        BY <2>1, <3>2 DEF IsLong
      <4> QED
        BY <2>3, <2>5, <2>6, <3>2, <4>1
    <3> QED
      BY <2>3, <3>1, <3>2
  <2> QED
    BY <2>8, <2>9
<1>4. c \in N
  <2> HIDE DEF N
  <2> QED
    BY <1>1, <1>2, <1>3, SetInduction
<1>5. First(c) = found
  BY <1>1 DEF First
<1>6. \E l \in SUBSET found : IsLong(l, found)
  BY <1>1, <1>4, <1>5
<1>7. long = CHOOSE l \in SUBSET found : IsLong(l, found)
  BY DEF LongNamed, IsLong
<1> QED
  BY <1>6, <1>7

\* The checks that package scripts yield: one for each script that is one.
LEMMA JavascriptFacts ==
  ASSUME NEW files, NEW scripts, DOMAIN scripts \subseteq Scripts,
         IsFiniteSet(DOMAIN scripts),
         NEW found, found = CheckScripts(scripts),
         NEW long, long = LongNamed(found),
         NEW checks, checks = discover_javascript(files, scripts)
  PROVE  /\ found \subseteq Scripts /\ IsFiniteSet(found)
         /\ long \subseteq found /\ IsLong(long, found)
         /\ \E o \in [1..Cardinality(found) -> found] :
              /\ Cardinality(found) \in Nat
              /\ \A s \in found : \E n \in 1..Cardinality(found) : o[n] = s
              /\ \A m, n \in 1..Cardinality(found) : o[m] = o[n] => m = n
              /\ checks = [n \in 1..Cardinality(found) |->
                             language_check(ScriptId(long, o[n]),
                                            <<package_manager(files), "run", o[n]>>,
                                            "javascript")]
<1>1. found \in SUBSET (DOMAIN scripts)
  BY DEF CheckScripts
<1>2. found \in SUBSET Scripts /\ IsFiniteSet(found)
  BY <1>1, FS_Subset
<1>3. long \subseteq found /\ IsLong(long, found)
  BY <1>2, LongNamedFacts
<1> DEFINE o == ScriptsInOrder(found)
<1>4. /\ Cardinality(found) \in Nat
      /\ o \in [1..Cardinality(found) -> found]
      /\ \A s \in found : \E n \in 1..Cardinality(found) : o[n] = s
      /\ \A m, n \in 1..Cardinality(found) : o[m] = o[n] => m = n
  BY <1>2, ScriptsOrdered
<1>5. checks = [n \in DOMAIN o |->
                  language_check(ScriptId(long, o[n]),
                                 <<package_manager(files), "run", o[n]>>, "javascript")]
  BY DEF discover_javascript, ScriptsInOrder
<1> HIDE DEF o
<1>6. DOMAIN o = 1..Cardinality(found)
  BY <1>4
<1> QED
  BY <1>2, <1>3, <1>4, <1>5, <1>6

-----------------------------------------------------------------------------
(* The checks of the manifests.                                             *)

\* What each place of a concatenation holds.
LEMMA Joined ==
  ASSUME NEW S, NEW s \in Seq(S), NEW t \in Seq(S), NEW u, u = s \o t
  PROVE  /\ u \in Seq(S) /\ Len(u) = Len(s) + Len(t)
         /\ \A i \in DOMAIN u : \/ i \in DOMAIN s /\ u[i] = s[i]
                                \/ i \notin DOMAIN s /\ i - Len(s) \in DOMAIN t /\ u[i] = t[i - Len(s)]
         /\ \A i \in DOMAIN s : i \in DOMAIN u /\ u[i] = s[i]
         /\ \A i \in DOMAIN t : Len(s) + i \in DOMAIN u /\ u[Len(s) + i] = t[i]
<1>1. /\ Len(s) \in Nat /\ Len(t) \in Nat
      /\ DOMAIN s = 1..Len(s) /\ DOMAIN t = 1..Len(t)
  OBVIOUS
<1>2. u \in Seq(S) /\ Len(u) = Len(s) + Len(t)
  OBVIOUS
<1>3. DOMAIN u = 1..(Len(s) + Len(t))
  BY <1>2
<1>4. \A i \in 1..(Len(s) + Len(t)) : u[i] = IF i <= Len(s) THEN s[i] ELSE t[i - Len(s)]
  OBVIOUS
<1> QED
  BY <1>1, <1>2, <1>3, <1>4

\* A concatenation begins with its first part.
LEMMA Begun ==
  ASSUME NEW S, NEW s \in Seq(S), NEW t \in Seq(S)
  PROVE  /\ s \o t \in Seq(S) /\ Len(s \o t) = Len(s) + Len(t)
         /\ \A i \in 1..Len(s) : (s \o t)[i] = s[i]
<1>1. DOMAIN s = 1..Len(s)
  OBVIOUS
<1> QED
  BY <1>1, Joined

\* The ids scripts may have.
ScriptIds == {JsId[s] : s \in Scripts} \cup {LongJsId[s] : s \in Scripts}
ManifestCheck ==
  [id : ToolIds \cup ScriptIds, argv : Seq(Words), dir : {Here},
   covers : {Coverage[l] : l \in {"javascript", "python", "rust", "go"}},
   explicit : {FALSE}, replaces : {<<>>}]

\* The id of the check of a tool, as its command tells it.
ToolId(argv) ==
  CASE argv[1] = "python3" /\ argv[3] \in {"pytest", "tox"} -> "python-test"
    [] argv[1] = "python3" /\ argv[3] = "ruff" -> "python-ruff"
    [] argv[1] = "python3" /\ argv[3] = "mypy" -> "python-mypy"
    [] argv[1] = "cargo" /\ argv[2] = "fmt" -> "rust-format"
    [] argv[1] = "cargo" /\ argv[2] = "clippy" -> "rust-lint"
    [] argv[1] = "cargo" /\ argv[2] = "test" -> "rust-test"
    [] argv[1] = "cargo" /\ argv[2] = "build" -> "rust-build"
    [] argv[1] = "go" /\ argv[2] = "test" -> "go-test"
    [] argv[1] = "go" /\ argv[2] = "vet" -> "go-vet"
    [] argv[1] = "go" /\ argv[2] = "build" -> "go-build"
    [] OTHER -> ""

ToolCheck ==
  {c \in ManifestCheck :
     /\ c.argv # <<>> /\ c.argv[1] \in {"python3", "cargo", "go"}
     /\ c.id \in ToolIds /\ c.id = ToolId(c.argv)}

\* Checks of tools with ids from S, each id once.
ToolsOf(s, S) ==
  /\ s \in Seq(ToolCheck)
  /\ \A i \in DOMAIN s : s[i].id \in S
  /\ \A i, j \in DOMAIN s : s[i].id = s[j].id => i = j

\* Nothing is a check of a tool.
LEMMA NoTools == ASSUME NEW S PROVE ToolsOf(<<>>, S)
BY DEF ToolsOf

\* The checks of tools with different ids, one after the other.
LEMMA JoinedTools ==
  ASSUME NEW S, NEW T, S \cap T = {}, NEW s, NEW t, ToolsOf(s, S), ToolsOf(t, T)
  PROVE  ToolsOf(s \o t, S \cup T)
<1> DEFINE u == s \o t
<1>1. s \in Seq(ToolCheck) /\ t \in Seq(ToolCheck)
  BY DEF ToolsOf
<1>2. /\ u \in Seq(ToolCheck)
      /\ \A i \in DOMAIN u : \/ i \in DOMAIN s /\ u[i] = s[i]
                             \/ i \notin DOMAIN s /\ i - Len(s) \in DOMAIN t /\ u[i] = t[i - Len(s)]
  BY <1>1, Joined
<1>3. DOMAIN u \subseteq Int /\ Len(s) \in Int
  BY <1>1, <1>2
<1> HIDE DEF u
<1>4. \A i \in DOMAIN u : u[i].id \in S \cup T
  BY <1>2 DEF ToolsOf
<1>5. ASSUME NEW i \in DOMAIN u, NEW j \in DOMAIN u, u[i].id = u[j].id PROVE i = j
  <2>1. i \in DOMAIN s <=> j \in DOMAIN s
    BY <1>2, <1>5 DEF ToolsOf
  <2>2. CASE i \in DOMAIN s
    BY <1>2, <1>5, <2>1, <2>2 DEF ToolsOf
  <2>3. CASE i \notin DOMAIN s
    <3>1. i - Len(s) = j - Len(s)
      BY <1>2, <1>5, <2>1, <2>3 DEF ToolsOf
    <3> QED
      BY <1>3, <3>1
  <2> QED
    BY <2>2, <2>3
<1> QED
  BY <1>2, <1>4, <1>5 DEF ToolsOf, u

\* A single check of a tool.
LEMMA OneTool ==
  ASSUME NEW c \in ToolCheck, NEW S, c.id \in S
  PROVE  ToolsOf(<<c>>, S)
BY DEF ToolsOf

\* A check of a tool, by its id, command and language.
LEMMA MadeTool ==
  ASSUME NEW id \in ToolIds, NEW argv \in Seq(Words), argv # <<>>,
         argv[1] \in {"python3", "cargo", "go"}, id = ToolId(argv),
         NEW l \in {"javascript", "python", "rust", "go"},
         NEW c, c = language_check(id, argv, l)
  PROVE  c \in ToolCheck /\ c.id = id
BY DEF language_check, ToolCheck, ManifestCheck

\* The Python files yield at most one check of each id.
LEMMA PythonFacts ==
  ASSUME NEW files, NEW requirements
  PROVE  ToolsOf(discover_python(files, requirements),
                 {"python-test", "python-ruff", "python-mypy"})
<1> DEFINE pytest == <<"python3", "-m", "pytest">>
           tox == <<"python3", "-m", "tox">>
           ruff == <<"python3", "-m", "ruff", "check", ".">>
           mypy == <<"python3", "-m", "mypy", ".">>
           evidence == PythonEvidence(files, requirements)
           If(tool, id, argv) ==
             IF tool \in evidence THEN <<language_check(id, argv, "python")>> ELSE <<>>
<1>1. /\ pytest \in Seq(Words) /\ tox \in Seq(Words)
      /\ ruff \in Seq(Words) /\ mypy \in Seq(Words)
  <2>1. ManifestWords \subseteq Words
    BY WordAssumption
  <2> QED
    BY <2>1 DEF ManifestWords
<1>2. /\ ToolId(pytest) = "python-test" /\ ToolId(tox) = "python-test"
      /\ ToolId(ruff) = "python-ruff" /\ ToolId(mypy) = "python-mypy"
  BY DEF ToolId
<1>3. /\ pytest # <<>> /\ tox # <<>> /\ ruff # <<>> /\ mypy # <<>>
      /\ pytest[1] = "python3" /\ tox[1] = "python3"
      /\ ruff[1] = "python3" /\ mypy[1] = "python3"
  OBVIOUS
<1> HIDE DEF pytest, tox, ruff, mypy, evidence
<1>4. /\ ToolsOf(If("pytest", "python-test", pytest), {"python-test"})
      /\ ToolsOf(If("tox", "python-test", tox), {"python-test"})
      /\ ToolsOf(If("ruff", "python-ruff", ruff), {"python-ruff"})
      /\ ToolsOf(If("mypy", "python-mypy", mypy), {"python-mypy"})
  <2>1. {"python-test", "python-ruff", "python-mypy"} \subseteq ToolIds
    BY DEF ToolIds
  <2>2. /\ language_check("python-test", pytest, "python") \in ToolCheck
        /\ language_check("python-test", pytest, "python").id = "python-test"
    BY <1>1, <1>2, <1>3, <2>1, MadeTool
  <2>3. /\ language_check("python-test", tox, "python") \in ToolCheck
        /\ language_check("python-test", tox, "python").id = "python-test"
    BY <1>1, <1>2, <1>3, <2>1, MadeTool
  <2>4. /\ language_check("python-ruff", ruff, "python") \in ToolCheck
        /\ language_check("python-ruff", ruff, "python").id = "python-ruff"
    BY <1>1, <1>2, <1>3, <2>1, MadeTool
  <2>5. /\ language_check("python-mypy", mypy, "python") \in ToolCheck
        /\ language_check("python-mypy", mypy, "python").id = "python-mypy"
    BY <1>1, <1>2, <1>3, <2>1, MadeTool
  <2>6. /\ ToolsOf(<<language_check("python-test", pytest, "python")>>, {"python-test"})
        /\ ToolsOf(<<language_check("python-test", tox, "python")>>, {"python-test"})
    BY <2>2, <2>3, OneTool
  <2>7. /\ ToolsOf(<<language_check("python-ruff", ruff, "python")>>, {"python-ruff"})
        /\ ToolsOf(<<language_check("python-mypy", mypy, "python")>>, {"python-mypy"})
    BY <2>4, <2>5, OneTool
  <2> QED
    BY <2>6, <2>7, NoTools
<1> DEFINE test == IF "pytest" \in evidence THEN If("pytest", "python-test", pytest)
                                            ELSE If("tox", "python-test", tox)
           lint == If("ruff", "python-ruff", ruff)
           types == If("mypy", "python-mypy", mypy)
<1>5. discover_python(files, requirements) = test \o lint \o types
  BY DEF discover_python, pytest, tox, ruff, mypy, evidence
<1>6. /\ ToolsOf(test, {"python-test"}) /\ ToolsOf(lint, {"python-ruff"})
      /\ ToolsOf(types, {"python-mypy"})
  BY <1>4
<1> HIDE DEF test, lint, types, If
<1>7. ToolsOf(test \o lint, {"python-test"} \cup {"python-ruff"})
  BY <1>6, JoinedTools
<1>8. ToolsOf((test \o lint) \o types, {"python-test"} \cup {"python-ruff"} \cup {"python-mypy"})
  BY <1>6, <1>7, JoinedTools
<1>9. {"python-test"} \cup {"python-ruff"} \cup {"python-mypy"}
        = {"python-test", "python-ruff", "python-mypy"}
  OBVIOUS
<1> QED
  BY <1>5, <1>8, <1>9

\* Cargo.toml yields four checks.
LEMMA RustFacts ==
  ASSUME NEW files
  PROVE  ToolsOf(discover_rust(files), {"rust-format", "rust-lint", "rust-test", "rust-build"})
<1>1. PICK locked \in {<<>>, <<"--locked">>} :
        discover_rust(files) =
          <<language_check("rust-format", <<"cargo", "fmt", "--check">>, "rust"),
            language_check("rust-lint", <<"cargo", "clippy", "--all-targets">> \o locked
                                          \o <<"--", "-D", "warnings">>, "rust"),
            language_check("rust-test", <<"cargo", "test", "--all-targets">> \o locked, "rust"),
            language_check("rust-build", <<"cargo", "build", "--release">> \o locked, "rust")>>
  BY DEF discover_rust
<1> DEFINE format == <<"cargo", "fmt", "--check">>
           lint == <<"cargo", "clippy", "--all-targets">> \o locked \o <<"--", "-D", "warnings">>
           test == <<"cargo", "test", "--all-targets">> \o locked
           build == <<"cargo", "build", "--release">> \o locked
<1>2. /\ {"cargo", "fmt", "--check", "clippy", "--all-targets", "--locked", "--", "-D",
          "warnings", "test", "build", "--release"} \subseteq Words
      /\ {"rust-format", "rust-lint", "rust-test", "rust-build"} \subseteq ToolIds
  BY WordAssumption DEF ManifestWords, ToolIds
<1>3. /\ format \in Seq(Words) /\ format # <<>> /\ format[1] = "cargo" /\ format[2] = "fmt"
  BY <1>2
<1>4. \A s \in Seq(Words), w \in Words :
        LET t == <<"cargo", w, "--all-targets">> \o s
            u == <<"cargo", w, "--release">> \o s
        IN  /\ t \in Seq(Words) /\ t # <<>> /\ t[1] = "cargo" /\ t[2] = w
            /\ u \in Seq(Words) /\ u # <<>> /\ u[1] = "cargo" /\ u[2] = w
  <2> TAKE s \in Seq(Words), w \in Words
  <2> DEFINE p == <<"cargo", w, "--all-targets">>
             q == <<"cargo", w, "--release">>
  <2>1. /\ p \in Seq(Words) /\ Len(p) = 3 /\ p[1] = "cargo" /\ p[2] = w
        /\ q \in Seq(Words) /\ Len(q) = 3 /\ q[1] = "cargo" /\ q[2] = w
    BY <1>2
  <2> HIDE DEF p, q
  <2>2. /\ p \o s \in Seq(Words) /\ Len(p \o s) = 3 + Len(s)
        /\ (p \o s)[1] = "cargo" /\ (p \o s)[2] = w
    <3>1. /\ p \o s \in Seq(Words) /\ Len(p \o s) = Len(p) + Len(s)
          /\ \A i \in 1..Len(p) : (p \o s)[i] = p[i]
      BY <2>1, Begun
    <3> QED
      BY <2>1, <3>1
  <2>3. /\ q \o s \in Seq(Words) /\ Len(q \o s) = 3 + Len(s)
        /\ (q \o s)[1] = "cargo" /\ (q \o s)[2] = w
    <3>1. /\ q \o s \in Seq(Words) /\ Len(q \o s) = Len(q) + Len(s)
          /\ \A i \in 1..Len(q) : (q \o s)[i] = q[i]
      BY <2>1, Begun
    <3> QED
      BY <2>1, <3>1
  <2>4. p \o s # <<>> /\ q \o s # <<>>
    BY <2>2, <2>3
  <2> QED
    BY <2>2, <2>3, <2>4 DEF p, q
<1>5. locked \in Seq(Words) /\ <<"--", "-D", "warnings">> \in Seq(Words)
  <2>1. <<>> \in Seq(Words) /\ <<"--locked">> \in Seq(Words)
    BY <1>2
  <2>2. <<"--", "-D", "warnings">> \in Seq(Words)
    BY <1>2
  <2> QED
    BY <2>1, <2>2
<1>6. lint = <<"cargo", "clippy", "--all-targets">> \o (locked \o <<"--", "-D", "warnings">>)
  BY <1>2, <1>5
<1>7. /\ lint \in Seq(Words) /\ lint # <<>> /\ lint[1] = "cargo" /\ lint[2] = "clippy"
  <2>1. locked \o <<"--", "-D", "warnings">> \in Seq(Words)
    BY <1>5
  <2> QED
    BY <1>2, <1>4, <1>6, <2>1
<1>8. /\ test \in Seq(Words) /\ test # <<>> /\ test[1] = "cargo" /\ test[2] = "test"
      /\ build \in Seq(Words) /\ build # <<>> /\ build[1] = "cargo" /\ build[2] = "build"
  BY <1>2, <1>4, <1>5
<1> HIDE DEF format, lint, test, build
<1>9. /\ ToolId(format) = "rust-format" /\ ToolId(lint) = "rust-lint"
      /\ ToolId(test) = "rust-test" /\ ToolId(build) = "rust-build"
  BY <1>3, <1>7, <1>8 DEF ToolId
<1> DEFINE c1 == language_check("rust-format", format, "rust")
           c2 == language_check("rust-lint", lint, "rust")
           c3 == language_check("rust-test", test, "rust")
           c4 == language_check("rust-build", build, "rust")
<1>10. c1 \in ToolCheck /\ c1.id = "rust-format"
  BY <1>2, <1>3, <1>9, MadeTool
<1>11. c2 \in ToolCheck /\ c2.id = "rust-lint"
  BY <1>2, <1>7, <1>9, MadeTool
<1>12. c3 \in ToolCheck /\ c3.id = "rust-test"
  BY <1>2, <1>8, <1>9, MadeTool
<1>13. c4 \in ToolCheck /\ c4.id = "rust-build"
  BY <1>2, <1>8, <1>9, MadeTool
<1>14. discover_rust(files) = <<c1, c2, c3, c4>>
  BY <1>1 DEF format, lint, test, build
<1> HIDE DEF c1, c2, c3, c4
<1> QED
  BY <1>10, <1>11, <1>12, <1>13, <1>14 DEF ToolsOf

\* go.mod yields three.
LEMMA GoFacts == ToolsOf(discover_go, {"go-test", "go-vet", "go-build"})
<1> DEFINE test == <<"go", "test", "./...">>
           vet == <<"go", "vet", "./...">>
           build == <<"go", "build", "./...">>
           c1 == language_check("go-test", test, "go")
           c2 == language_check("go-vet", vet, "go")
           c3 == language_check("go-build", build, "go")
<1>1. /\ {"go", "test", "vet", "build", "./..."} \subseteq Words
      /\ {"go-test", "go-vet", "go-build"} \subseteq ToolIds
  BY WordAssumption DEF ManifestWords, ToolIds
<1>2. /\ test \in Seq(Words) /\ test # <<>> /\ test[1] = "go" /\ ToolId(test) = "go-test"
      /\ vet \in Seq(Words) /\ vet # <<>> /\ vet[1] = "go" /\ ToolId(vet) = "go-vet"
      /\ build \in Seq(Words) /\ build # <<>> /\ build[1] = "go" /\ ToolId(build) = "go-build"
  BY <1>1 DEF ToolId
<1>3. discover_go = <<c1, c2, c3>>
  BY DEF discover_go
<1> HIDE DEF test, vet, build
<1>4. c1 \in ToolCheck /\ c1.id = "go-test"
  BY <1>1, <1>2, MadeTool
<1>5. c2 \in ToolCheck /\ c2.id = "go-vet"
  BY <1>1, <1>2, MadeTool
<1>6. c3 \in ToolCheck /\ c3.id = "go-build"
  BY <1>1, <1>2, MadeTool
<1> HIDE DEF c1, c2, c3
<1> QED
  BY <1>3, <1>4, <1>5, <1>6 DEF ToolsOf

-----------------------------------------------------------------------------
(* All of them.                                                             *)

\* The check of a package script.
IsScriptCheck(c, files, scripts) ==
  \E s \in CheckScripts(scripts) :
    /\ c.id = ScriptId(LongNamed(CheckScripts(scripts)), s)
    /\ c.argv = <<package_manager(files), "run", s>>

\* A package has one manager.
LEMMA ManagerFacts ==
  ASSUME NEW files
  PROVE  package_manager(files) \in Managers
<1> DEFINE present == {n \in DOMAIN LockFiles : LockFiles[n][2] \in files}
<1>1. DOMAIN LockFiles = 1..6 /\ \A n \in 1..6 : LockFiles[n][1] \in Managers
  BY DEF LockFiles, Managers
<1>2. CASE present = {}
  BY <1>2 DEF package_manager, Managers
<1>3. CASE present # {}
  <2>1. present \in SUBSET Nat /\ present \subseteq 1..6
    BY <1>1
  <2>2. package_manager(files) = LockFiles[Min(present)][1]
    BY <1>3 DEF package_manager
  <2> HIDE DEF present
  <2>3. \E m \in present : \A n \in present : m <= n
    BY <1>3, <2>1, LeastElement
  <2>4. Min(present) \in present
    BY <2>3 DEF Min
  <2> QED
    BY <1>1, <2>1, <2>2, <2>4
<1> QED
  BY <1>2, <1>3

\* The checks of scripts run them, each by its name.
LEMMA ScriptChecks ==
  ASSUME NEW files, NEW scripts, DOMAIN scripts \subseteq Scripts,
         IsFiniteSet(DOMAIN scripts),
         NEW js, js = discover_javascript(files, scripts)
  PROVE  /\ js \in Seq(ManifestCheck)
         /\ \A i \in DOMAIN js : IsScriptCheck(js[i], files, scripts)
         /\ \A i, j \in DOMAIN js : js[i].argv = js[j].argv => i = j
<1> DEFINE yes == CheckScripts(scripts)
           long == LongNamed(yes)
           manager == package_manager(files)
           Made(s) == language_check(ScriptId(long, s), <<manager, "run", s>>, "javascript")
<1>1. PICK o \in [1..Cardinality(yes) -> yes] :
        /\ Cardinality(yes) \in Nat /\ yes \subseteq Scripts
        /\ \A m, n \in 1..Cardinality(yes) : o[m] = o[n] => m = n
        /\ js = [n \in 1..Cardinality(yes) |-> Made(o[n])]
  BY JavascriptFacts
<1>2. \A s \in yes : <<manager, "run", s>> \in Seq(Words) /\ <<manager, "run", s>>[3] = s
  <2> TAKE s \in yes
  <2>1. manager \in Words /\ "run" \in Words /\ s \in Words
    BY <1>1, ManagerFacts, WordAssumption DEF ManifestWords
  <2> HIDE DEF manager
  <2> QED
    BY <2>1
<1>3. \A s \in yes : ScriptId(long, s) \in ScriptIds
  BY <1>1 DEF ScriptId, ScriptIds
<1>4. \A s \in yes : /\ Made(s) \in ManifestCheck /\ Made(s).argv = <<manager, "run", s>>
                    /\ Made(s).id = ScriptId(long, s)
  <2> HIDE DEF yes, long, manager
  <2> QED
    BY <1>2, <1>3 DEF language_check, ManifestCheck
<1> HIDE DEF Made
<1>5. js \in Seq(ManifestCheck) /\ DOMAIN js = 1..Cardinality(yes)
  <2> HIDE DEF yes
  <2>1. js \in [1..Cardinality(yes) -> ManifestCheck]
    BY <1>1, <1>4
  <2> QED
    BY <1>1, <2>1
<1>6. \A i \in DOMAIN js : IsScriptCheck(js[i], files, scripts)
  BY <1>1, <1>4, <1>5 DEF IsScriptCheck
<1>7. \A i, j \in DOMAIN js : js[i].argv = js[j].argv => i = j
  <2> TAKE i, j \in DOMAIN js
  <2> HAVE js[i].argv = js[j].argv
  <2>1. <<manager, "run", o[i]>> = <<manager, "run", o[j]>> /\ o[i] \in yes /\ o[j] \in yes
    BY <1>1, <1>4, <1>5
  <2>2. o[i] = o[j]
    BY <2>1, <1>2
  <2> QED
    BY <1>1, <1>5, <2>2
<1> QED
  BY <1>5, <1>6, <1>7

\* Every check of a manifest is that of a tool or of a script, and none runs the
\* command of another; a tool is there once.
LEMMA ManifestFacts ==
  ASSUME NEW files, NEW scripts, DOMAIN scripts \subseteq Scripts,
         IsFiniteSet(DOMAIN scripts), NEW requirements,
         NEW checks, checks = ManifestChecks(files, scripts, requirements)
  PROVE  /\ checks \in Seq(ManifestCheck)
         /\ \A i \in DOMAIN checks :
              checks[i] \in ToolCheck \/ IsScriptCheck(checks[i], files, scripts)
         /\ \A i, j \in DOMAIN checks : checks[i].argv = checks[j].argv => i = j
         /\ \A i, j \in DOMAIN checks :
              /\ checks[i] \in ToolCheck /\ checks[j] \in ToolCheck /\ checks[i].id = checks[j].id
              => i = j
<1> DEFINE js == IF "package.json" \in files THEN discover_javascript(files, scripts) ELSE <<>>
           py == IF files \cap PythonFiles # {} THEN discover_python(files, requirements) ELSE <<>>
           rs == IF "Cargo.toml" \in files THEN discover_rust(files) ELSE <<>>
           go == IF "go.mod" \in files THEN discover_go ELSE <<>>
           tools == (py \o rs) \o go
           PyIds == {"python-test", "python-ruff", "python-mypy"}
           RsIds == {"rust-format", "rust-lint", "rust-test", "rust-build"}
           GoIds == {"go-test", "go-vet", "go-build"}
<1>1. ToolsOf(py, PyIds) /\ ToolsOf(rs, RsIds) /\ ToolsOf(go, GoIds)
  BY NoTools, PythonFacts, RustFacts, GoFacts
<1>2. PyIds \cap RsIds = {} /\ (PyIds \cup RsIds) \cap GoIds = {}
  OBVIOUS
<1>3. /\ js \in Seq(ManifestCheck)
      /\ \A i \in DOMAIN js : IsScriptCheck(js[i], files, scripts)
      /\ \A i, j \in DOMAIN js : js[i].argv = js[j].argv => i = j
  BY ScriptChecks
<1>4. checks = ((js \o py) \o rs) \o go
  BY DEF ManifestChecks
<1> HIDE DEF js, py, rs, go, PyIds, RsIds, GoIds
<1>5. ToolsOf(tools, (PyIds \cup RsIds) \cup GoIds)
  <2>1. ToolsOf(py \o rs, PyIds \cup RsIds)
    BY <1>1, <1>2, JoinedTools
  <2> QED
    BY <1>1, <1>2, <2>1, JoinedTools
<1>6. /\ tools \in Seq(ToolCheck) /\ tools \in Seq(ManifestCheck)
      /\ \A i, j \in DOMAIN tools : tools[i].id = tools[j].id => i = j
  <2>1. tools \in Seq(ToolCheck) /\ ToolCheck \subseteq ManifestCheck
    BY <1>5 DEF ToolsOf, ToolCheck
  <2> HIDE DEF tools
  <2> QED
    BY <1>5, <2>1 DEF ToolsOf
<1>7. checks = js \o tools
  <2>1. py \in Seq(ManifestCheck) /\ rs \in Seq(ManifestCheck) /\ go \in Seq(ManifestCheck)
    <3>1. ToolCheck \subseteq ManifestCheck
      BY DEF ToolCheck
    <3> QED
      BY <1>1, <3>1 DEF ToolsOf
  <2> QED
    BY <1>3, <1>4, <2>1, SMTT(30)
<1> HIDE DEF tools
<1>8. /\ checks \in Seq(ManifestCheck) /\ Len(js) \in Int /\ DOMAIN checks \subseteq Int
      /\ \A i \in DOMAIN checks :
           \/ i \in DOMAIN js /\ checks[i] = js[i]
           \/ i \notin DOMAIN js /\ i - Len(js) \in DOMAIN tools /\ checks[i] = tools[i - Len(js)]
  <2>1. /\ checks \in Seq(ManifestCheck)
        /\ \A i \in DOMAIN checks :
           \/ i \in DOMAIN js /\ checks[i] = js[i]
           \/ i \notin DOMAIN js /\ i - Len(js) \in DOMAIN tools /\ checks[i] = tools[i - Len(js)]
    BY <1>3, <1>6, <1>7, Joined
  <2> QED
    BY <1>3, <2>1
<1>9. \A i \in DOMAIN tools : tools[i] \in ToolCheck /\ tools[i].argv[1] \notin Managers
  <2>1. \A i \in DOMAIN tools : tools[i] \in ToolCheck
    BY <1>6
  <2> QED
    BY <2>1 DEF ToolCheck, Managers
<1>10. \A i \in DOMAIN js : js[i].argv[1] \in Managers /\ js[i] \notin ToolCheck
  BY <1>3, ManagerFacts DEF IsScriptCheck, ToolCheck, Managers
<1>11. \A i, j \in DOMAIN tools : tools[i].argv = tools[j].argv => i = j
  BY <1>6, <1>9 DEF ToolCheck
<1>12. ASSUME NEW i \in DOMAIN checks, NEW j \in DOMAIN checks,
              checks[i].argv = checks[j].argv
       PROVE  i = j
  <2>1. i \in DOMAIN js <=> j \in DOMAIN js
    BY <1>8, <1>9, <1>10, <1>12
  <2>2. CASE i \in DOMAIN js
    BY <1>3, <1>8, <1>12, <2>1, <2>2
  <2>3. CASE i \notin DOMAIN js
    <3>1. i - Len(js) = j - Len(js)
      BY <1>8, <1>11, <1>12, <2>1, <2>3
    <3> QED
      BY <1>8, <3>1
  <2> QED
    BY <2>2, <2>3
<1>13. ASSUME NEW i \in DOMAIN checks, NEW j \in DOMAIN checks,
              checks[i] \in ToolCheck, checks[j] \in ToolCheck, checks[i].id = checks[j].id
       PROVE  i = j
  <2>1. i \notin DOMAIN js /\ j \notin DOMAIN js
    BY <1>8, <1>10, <1>13
  <2>2. i - Len(js) = j - Len(js)
    BY <1>6, <1>8, <1>13, <2>1
  <2> QED
    BY <1>8, <2>2
<1> QED
  BY <1>3, <1>8, <1>9, <1>12, <1>13
=============================================================================
