--------------------------- MODULE MfTheming_proofs ---------------------------
(***************************************************************************)
(* What lists a session is given, for any theme tree.  The lists are made  *)
(* by recursive functions, so most of this module is induction: a property *)
(* of all the numbers up to N holds because the least number that lacks it *)
(* would have one before it (Least, Induction), and a recursive definition *)
(* says what it should because some function satisfies it (Recursion).     *)
(*                                                                         *)
(* The lists of directories on disk come first, then the inheritance chain *)
(* of a theme, which is its lineage unless it is broken or a circle, then  *)
(* the merging of the lineage's directories, which keeps each list in the  *)
(* order of nearness, and last the session that uses the lists.            *)
(***************************************************************************)
EXTENDS MfTheming, FiniteSetTheorems, SequenceTheorems, WellFoundedInduction, TLAPS

-----------------------------------------------------------------------------
(* Induction.                                                               *)

\* A set of numbers has a least one.
LEMMA Least ==
    ASSUME NEW T \in SUBSET Nat, T # {}
    PROVE  \E m \in T : \A k \in T : m <= k
  <1> DEFINE R == OpToRel(<, Nat)
  <1>1. IsWellFoundedOn(R, Nat)
    BY NatLessThanWellFounded, Zenon
  <1>2. \E x \in T : \A y \in T : ~ (<<y, x>> \in R)
    <2> HIDE DEF R
    <2> QED BY <1>1, WFMin, Zenon
  <1>3. PICK m \in T : \A y \in T : ~ (<<y, m>> \in R)
    BY <1>2
  <1>4. \A k \in T : ~(k < m)
    BY <1>3 DEF OpToRel
  <1> QED BY <1>4

\* A set that holds 0, and with a number the next one, up to N, holds them all.
LEMMA Induction ==
    ASSUME NEW N \in Nat, NEW S, 0 \in S,
           \A n \in 0 .. N : n < N /\ n \in S => n + 1 \in S
    PROVE  \A n \in 0 .. N : n \in S
  <1> SUFFICES ASSUME NEW n \in 0 .. N, n \notin S
               PROVE  FALSE
    OBVIOUS
  <1> DEFINE T == {k \in 0 .. N : k \notin S}
  <1>1. PICK m \in T : \A k \in T : m <= k
    <2>1. T \in SUBSET Nat /\ T # {}
      OBVIOUS
    <2> HIDE DEF T
    <2> QED BY <2>1, Least
  <1>2. m # 0 /\ m - 1 \in 0 .. N /\ m - 1 < N /\ m - 1 \notin T
    BY <1>1
  <1>3. (m - 1) + 1 \in S
    BY <1>2
  <1> QED BY <1>1, <1>3

\* f is computed from base by a step for each number up to N.
Computed(f, N, base, step) == f[0] = base /\ \A i \in 1 .. N : f[i] = step[<<i, f[i - 1]>>]

\* A recursion over the numbers up to N defines a function.
LEMMA Recursion ==
    ASSUME NEW N \in Nat, NEW V, NEW base \in V, NEW step \in [(1 .. N) \X V -> V]
    PROVE  \E f \in [0 .. N -> V] : Computed(f, N, base, step)
  <1> DEFINE Good(n, f) == f[0] = base /\ \A i \in 1 .. n : f[i] = step[<<i, f[i - 1]>>]
             S == {n \in 0 .. N : \E f \in [0 .. n -> V] : Good(n, f)}
  <1>1. 0 \in S
    <2> DEFINE g == [i \in 0 .. 0 |-> base]
    <2>1. g \in [0 .. 0 -> V] /\ g[0] = base /\ 1 .. 0 = {} /\ 0 \in 0 .. N
      OBVIOUS
    <2>2. Good(0, g)
      BY <2>1
    <2> HIDE DEF g
    <2> QED BY <2>1, <2>2
  <1>2. ASSUME NEW n \in 0 .. N, n < N, n \in S
        PROVE  n + 1 \in S
    <2>1. PICK f \in [0 .. n -> V] : Good(n, f)
      BY <1>2
    <2> DEFINE g == [i \in 0 .. (n + 1) |-> IF i = n + 1 THEN step[<<n + 1, f[n]>>] ELSE f[i]]
    <2>2. n + 1 \in 1 .. N /\ n \in 0 .. n /\ f[n] \in V
      BY <1>2
    <2>t. step[<<n + 1, f[n]>>] \in V
      BY <2>2
    <2>3. g \in [0 .. (n + 1) -> V]
      BY <2>t
    <2>4. Good(n + 1, g)
      <3>1. g[0] = base
        BY <2>1
      <3>2. ASSUME NEW i \in 1 .. (n + 1)
            PROVE  g[i] = step[<<i, g[i - 1]>>]
        <4>1. CASE i = n + 1
          <5>1. i - 1 = n /\ n # n + 1 /\ n \in 0 .. (n + 1) /\ i \in 0 .. (n + 1)
            BY <4>1
          <5>2. g[i] = step[<<n + 1, f[n]>>] /\ g[i - 1] = f[n]
            BY <4>1, <5>1
          <5> QED BY <4>1, <5>2
        <4>2. CASE i # n + 1
          <5>1. i \in 1 .. n /\ i \in 0 .. (n + 1) /\ i - 1 \in 0 .. (n + 1) /\ i - 1 # n + 1
            BY <4>2
          <5> QED BY <5>1, <4>2, <2>1
        <4> QED BY <4>1, <4>2
      <3> QED BY <3>1, <3>2
    <2>5. n + 1 \in 0 .. N
      BY <1>2
    <2> QED BY <2>3, <2>4, <2>5
  <1>3. N \in S
    <2> HIDE DEF S
    <2>1. \A n \in 0 .. N : n \in S
      BY <1>1, <1>2, Induction
    <2> QED BY <2>1
  <1> QED BY <1>3 DEF Computed

-----------------------------------------------------------------------------
(* The lists of directories.                                                *)

\* s holds each element of S once.
Lists(s, S) == IsInjective(s) /\ Range(s) = S

LEMMA AppendLists ==
    ASSUME NEW A, NEW s \in Seq(A), NEW S, Lists(s, S), NEW a \in A, a \notin S
    PROVE  Append(s, a) \in Seq(A) /\ Lists(Append(s, a), S \cup {a})
  <1> DEFINE t == Append(s, a)
  <1>1. /\ t \in Seq(A) /\ Len(t) = Len(s) + 1 /\ t[Len(s) + 1] = a
        /\ \A i \in 1 .. Len(s) : t[i] = s[i]
        /\ DOMAIN t = 1 .. Len(s) + 1 /\ DOMAIN s = 1 .. Len(s) /\ Len(s) \in Nat
    OBVIOUS
  <1> HIDE DEF t
  <1>2. \A i \in DOMAIN s : s[i] \in S /\ s[i] # a
    BY DEF Lists, Range
  <1>3. IsInjective(t)
    <2> SUFFICES ASSUME NEW i \in DOMAIN t, NEW j \in DOMAIN t, t[i] = t[j]
                 PROVE  i = j
      BY DEF IsInjective
    <2>1. CASE i \in DOMAIN s /\ j \in DOMAIN s
      BY <2>1, <1>1 DEF Lists, IsInjective
    <2>2. CASE ~(i \in DOMAIN s /\ j \in DOMAIN s)
      <3>1. i \in DOMAIN s \/ i = Len(s) + 1
        BY <1>1
      <3>2. j \in DOMAIN s \/ j = Len(s) + 1
        BY <1>1
      <3> QED BY <3>1, <3>2, <2>2, <1>1, <1>2
    <2> QED BY <2>1, <2>2
  <1>4. Range(t) = S \cup {a}
    <2>1. ASSUME NEW x \in Range(t)
          PROVE  x \in S \cup {a}
      <3>1. PICK i \in 1 .. Len(s) + 1 : x = t[i]
        BY <1>1 DEF Range
      <3>2. i \in 1 .. Len(s) \/ i = Len(s) + 1
        BY <3>1, <1>1
      <3> QED BY <3>1, <3>2, <1>1, <1>2
    <2>2. ASSUME NEW x \in S \cup {a}
          PROVE  x \in Range(t)
      <3>1. CASE x = a
        <4>1. Len(s) + 1 \in DOMAIN t
          BY <1>1
        <4> QED BY <4>1, <3>1, <1>1 DEF Range
      <3>2. CASE x \in S
        <4>1. PICK i \in DOMAIN s : x = s[i]
          BY <3>2 DEF Lists, Range
        <4>2. i \in DOMAIN t /\ t[i] = x
          BY <4>1, <1>1
        <4> QED BY <4>2 DEF Range
      <3> QED BY <3>1, <3>2
    <2> QED BY <2>1, <2>2
  <1> QED BY <1>1, <1>3, <1>4 DEF Lists, t

\* QDir lists each directory once.
LEMMA ListingIs ==
    ASSUME NEW S
    PROVE  Listing(S) \in Seq(Names) /\ Lists(Listing(S), S \cap Names)
  <1> DEFINE N == Len(NameOrder)
             V == Seq(Names)
             take(v, i) == IF NameOrder[i] \in S THEN Append(v, NameOrder[i]) ELSE v
             step == [x \in (1 .. N) \X V |-> take(x[2], x[1])]
             names == CHOOSE f : f = [i \in 0 .. N |->
                          IF i = 0 THEN <<>>
                          ELSE IF NameOrder[i] \in S THEN Append(f[i - 1], NameOrder[i])
                                                     ELSE f[i - 1]]
  <1>1. N \in Nat /\ DOMAIN NameOrder = 1 .. N /\ \A i \in 1 .. N : NameOrder[i] \in Names
    BY ThemingAssumption
  <1>2. step \in [(1 .. N) \X V -> V]
    BY <1>1
  <1>3. PICK f \in [0 .. N -> V] :
               f[0] = <<>> /\ \A i \in 1 .. N : f[i] = step[<<i, f[i - 1]>>]
    <2> DEFINE base == <<>>
    <2>1. base \in V
      OBVIOUS
    <2>2. N \in Nat
      BY <1>1
    <2> HIDE DEF step, N, V, base, names, take
    <2>3. \E f \in [0 .. N -> V] : Computed(f, N, base, step)
      BY <2>1, <2>2, <1>2, Recursion
    <2> QED BY <2>3 DEF base, Computed
  <1>4. f = [i \in 0 .. N |->
                IF i = 0 THEN <<>>
                ELSE IF NameOrder[i] \in S THEN Append(f[i - 1], NameOrder[i]) ELSE f[i - 1]]
    <2>1. ASSUME NEW i \in 0 .. N, i # 0
          PROVE  step[<<i, f[i - 1]>>] = take(f[i - 1], i)
      <3>1. i \in 1 .. N /\ i - 1 \in 0 .. N
        BY <2>1, <1>1
      <3>2. <<i, f[i - 1]>> \in (1 .. N) \X V
        BY <3>1
      <3> QED BY <3>2
    <2> HIDE DEF step
    <2>2. ASSUME NEW i \in 0 .. N
          PROVE  f[i] = IF i = 0 THEN <<>> ELSE take(f[i - 1], i)
      <3>1. CASE i = 0
        BY <3>1, <1>3
      <3>2. CASE i # 0
        <4>1. i \in 1 .. N
          BY <3>2, <1>1
        <4>2. f[i] = step[<<i, f[i - 1]>>]
          BY <4>1, <1>3
        <4> QED BY <4>2, <2>1, <3>2
      <3> QED BY <3>1, <3>2
    <2> QED BY <2>2, <1>3
  <1>5. names = [i \in 0 .. N |->
                   IF i = 0 THEN <<>>
                   ELSE IF NameOrder[i] \in S THEN Append(names[i - 1], NameOrder[i])
                                              ELSE names[i - 1]]
    BY <1>4, Zenon
  <1>6. Listing(S) = names[N]
    BY DEF Listing
  <1> HIDE DEF step, names
  <1> DEFINE Before(i) == {NameOrder[j] : j \in 1 .. i} \cap S
             Good(i) == names[i] \in V /\ Lists(names[i], Before(i))
             T == {i \in 0 .. N : Good(i)}
  <1>7. 0 \in T
    <2>1. names[0] = <<>> /\ 0 \in 0 .. N
      BY <1>5, <1>1
    <2>2. Before(0) = {}
      OBVIOUS
    <2>3. Lists(<<>>, {})
      BY DEF Lists, IsInjective, Range
    <2> QED BY <2>1, <2>2, <2>3
  <1>8. ASSUME NEW i \in 0 .. N, i < N, i \in T
        PROVE  i + 1 \in T
    <2> DEFINE n == NameOrder[i + 1]
    <2>1. i + 1 \in 1 .. N /\ i + 1 \in 0 .. N /\ n \in Names /\ (i + 1) - 1 = i /\ i + 1 # 0
      BY <1>1, <1>8
    <2>2. names[i + 1] = IF n \in S THEN Append(names[i], n) ELSE names[i]
      BY <1>5, <2>1
    <2>3. {NameOrder[j] : j \in 1 .. i + 1} = {NameOrder[j] : j \in 1 .. i} \cup {n}
      <3>1. 1 .. i + 1 = (1 .. i) \cup {i + 1}
        BY <1>8
      <3> QED BY <3>1
    <2>4. n \notin {NameOrder[j] : j \in 1 .. i}
      <3>1. \A j \in 1 .. i : j \in 1 .. N /\ j # i + 1
        BY <1>1, <1>8
      <3> QED BY <3>1, <2>1, <1>1, ThemingAssumption DEF IsInjective
    <2> HIDE DEF n
    <2>5. CASE n \in S
      <3>1. Before(i + 1) = Before(i) \cup {n} /\ n \notin Before(i)
        BY <2>3, <2>4, <2>5
      <3> HIDE DEF Before
      <3>2. Good(i + 1)
        BY <3>1, <2>1, <2>2, <2>5, <1>8, AppendLists
      <3> QED BY <3>2, <2>1
    <2>6. CASE n \notin S
      <3>1. Before(i + 1) = Before(i)
        BY <2>3, <2>6
      <3> HIDE DEF Before
      <3> QED BY <3>1, <2>1, <2>2, <2>6, <1>8
    <2> QED BY <2>5, <2>6
  <1>9. Good(N)
    <2> HIDE DEF T, N
    <2>1. \A i \in 0 .. N : i \in T
      BY <1>1, <1>7, <1>8, Induction
    <2>2. N \in T
      BY <2>1, <1>1
    <2> QED BY <2>2 DEF T
  <1>10. {NameOrder[j] : j \in 1 .. N} = Names
    BY <1>1 DEF Names, Range
  <1>11. Before(N) = S \cap Names
    BY <1>10
  <1> QED BY <1>6, <1>9, <1>11

LEMMA ConcatLists ==
    ASSUME NEW A, NEW s \in Seq(A), NEW t \in Seq(A), NEW S, NEW T,
           Lists(s, S), Lists(t, T), S \cap T = {}
    PROVE  s \o t \in Seq(A) /\ Lists(s \o t, S \cup T)
  <1> DEFINE u == s \o t
  <1>1. /\ u \in Seq(A) /\ Len(s) \in Nat /\ Len(t) \in Nat
        /\ DOMAIN u = 1 .. Len(s) + Len(t) /\ DOMAIN s = 1 .. Len(s) /\ DOMAIN t = 1 .. Len(t)
        /\ \A i \in 1 .. Len(s) : u[i] = s[i]
        /\ \A i \in 1 .. Len(t) : u[Len(s) + i] = t[i]
    OBVIOUS
  <1>2. \A i \in DOMAIN u : \/ i \in DOMAIN s /\ u[i] = s[i]
                            \/ i - Len(s) \in DOMAIN t /\ u[i] = t[i - Len(s)]
    <2> SUFFICES ASSUME NEW i \in 1 .. Len(s) + Len(t), i \notin DOMAIN s
                 PROVE  i - Len(s) \in DOMAIN t /\ u[i] = t[i - Len(s)]
      BY <1>1
    <2>1. i - Len(s) \in 1 .. Len(t) /\ Len(s) + (i - Len(s)) = i
      BY <1>1
    <2> QED BY <2>1, <1>1
  <1>3. /\ \A i \in DOMAIN s : i \in DOMAIN u /\ u[i] = s[i]
        /\ \A i \in DOMAIN t : Len(s) + i \in DOMAIN u /\ u[Len(s) + i] = t[i]
    BY <1>1
  <1> HIDE DEF u
  <1>4. /\ \A i \in DOMAIN s : s[i] \in S
        /\ \A i \in DOMAIN t : t[i] \in T
    BY DEF Lists, Range
  <1>5. IsInjective(u)
    <2> SUFFICES ASSUME NEW i \in DOMAIN u, NEW j \in DOMAIN u, u[i] = u[j]
                 PROVE  i = j
      BY DEF IsInjective
    <2>1. CASE i \in DOMAIN s /\ u[i] = s[i]
      <3>1. CASE j \in DOMAIN s /\ u[j] = s[j]
        BY <2>1, <3>1 DEF Lists, IsInjective
      <3>2. CASE j - Len(s) \in DOMAIN t /\ u[j] = t[j - Len(s)]
        BY <2>1, <3>2, <1>4
      <3> QED BY <3>1, <3>2, <1>2
    <2>2. CASE i - Len(s) \in DOMAIN t /\ u[i] = t[i - Len(s)]
      <3>1. CASE j \in DOMAIN s /\ u[j] = s[j]
        BY <2>2, <3>1, <1>4
      <3>2. CASE j - Len(s) \in DOMAIN t /\ u[j] = t[j - Len(s)]
        <4>1. i - Len(s) = j - Len(s)
          BY <2>2, <3>2 DEF Lists, IsInjective
        <4> QED BY <4>1, <1>1
      <3> QED BY <3>1, <3>2, <1>2
    <2> QED BY <2>1, <2>2, <1>2
  <1>6. Range(u) = S \cup T
    <2>1. ASSUME NEW x \in Range(u) PROVE x \in S \cup T
      <3>1. PICK i \in DOMAIN u : x = u[i]
        BY DEF Range
      <3> QED BY <3>1, <1>2, <1>4
    <2>2. ASSUME NEW x \in S PROVE x \in Range(u)
      <3>1. PICK i \in DOMAIN s : x = s[i]
        BY DEF Lists, Range
      <3>2. i \in DOMAIN u /\ x = u[i]
        BY <3>1, <1>3
      <3> QED BY <3>2 DEF Range
    <2>3. ASSUME NEW x \in T PROVE x \in Range(u)
      <3>1. PICK i \in DOMAIN t : x = t[i]
        BY DEF Lists, Range
      <3>2. Len(s) + i \in DOMAIN u /\ x = u[Len(s) + i]
        BY <3>1, <1>3
      <3> QED BY <3>2 DEF Range
    <2> QED BY <2>1, <2>2, <2>3
  <1> QED BY <1>1, <1>5, <1>6 DEF Lists, u

Kinds == {"common", "app"}
DirsOf(theme, kind, S) == {<<theme, kind, n>> : n \in S}

LEMMA PathDirs ==
    ASSUME NEW S \in SUBSET Names, NEW theme \in Themes, NEW kind \in Kinds
    PROVE  /\ getFeedbackDirsFromPath(S, theme, kind) \in Seq(Dirs)
           /\ Lists(getFeedbackDirsFromPath(S, theme, kind), DirsOf(theme, kind, S \ IllFormed))
  <1> DEFINE names == Listing(S \ IllFormed)
             s == [i \in DOMAIN names |-> <<theme, kind, names[i]>>]
  <1>1. getFeedbackDirsFromPath(S, theme, kind) = s
    BY DEF getFeedbackDirsFromPath
  <1>2. names \in Seq(Names) /\ Lists(names, S \ IllFormed)
    <2>1. (S \ IllFormed) \cap Names = S \ IllFormed
      OBVIOUS
    <2> QED BY <2>1, ListingIs
  <1> HIDE DEF names
  <1>3. DOMAIN names = 1 .. Len(names) /\ Len(names) \in Nat
    BY <1>2
  <1>4. \A i \in DOMAIN names : names[i] \in S \ IllFormed
    BY <1>2 DEF Lists, Range
  <1>5. \A i \in DOMAIN s : s[i] = <<theme, kind, names[i]>> /\ s[i] \in Dirs
    BY <1>4 DEF Dirs, Kinds
  <1>6. DOMAIN s = DOMAIN names
    OBVIOUS
  <1> HIDE DEF s
  <1>7. s \in Seq(Dirs)
    BY <1>3, <1>5, <1>6, SeqDef DEF s
  <1>8. IsInjective(s)
    BY <1>2, <1>5, <1>6 DEF Lists, IsInjective
  <1>9. Range(s) = DirsOf(theme, kind, S \ IllFormed)
    <2>1. S \ IllFormed = {names[i] : i \in DOMAIN names}
      BY <1>2 DEF Lists, Range
    <2>2. Range(s) = {<<theme, kind, names[i]>> : i \in DOMAIN names}
      BY <1>5, <1>6 DEF Range
    <2> QED BY <2>1, <2>2 DEF DirsOf
  <1> QED BY <1>1, <1>7, <1>8, <1>9 DEF Lists

LEMMA TreeFacts ==
    ASSUME NEW tr \in TreeType
    PROVE  /\ tr.installed \in SUBSET Themes
           /\ \A t \in Themes : /\ tr.inherits[t] \in Themes \cup {NoTheme}
                                /\ tr.common[t] \in SUBSET Names
                                /\ tr.app[t] \in SUBSET Names
  BY DEF TreeType

\* The well-formed feedbacks of a theme.
CommonDirs(tr, t) == DirsOf(t, "common", tr.common[t] \ IllFormed)
AppDirs(tr, t) == DirsOf(t, "app", tr.app[t] \ IllFormed)

\* A theme that is not the base theme: its common directories, then the application's.
LEMMA DirsOfATheme ==
    ASSUME NEW tr \in TreeType, NEW t \in Themes, t # Base
    PROVE  LET s == getFeedbackDirsOfATheme(tr, t)
           IN /\ s \in Seq(Dirs)
              /\ Lists(s, CommonDirs(tr, t) \cup AppDirs(tr, t))
              /\ \A i, j \in DOMAIN s : i < j /\ s[i][2] = "app" => s[j][2] = "app"
  <1> DEFINE c == getFeedbackDirsFromPath(tr.common[t], t, "common")
             a == getFeedbackDirsFromPath(tr.app[t], t, "app")
  <1>1. getFeedbackDirsOfATheme(tr, t) = c \o a
    BY DEF getFeedbackDirsOfATheme
  <1>2. c \in Seq(Dirs) /\ Lists(c, CommonDirs(tr, t))
    BY TreeFacts, PathDirs DEF CommonDirs, Kinds
  <1>3. a \in Seq(Dirs) /\ Lists(a, AppDirs(tr, t))
    BY TreeFacts, PathDirs DEF AppDirs, Kinds
  <1> HIDE DEF c, a
  <1>4. CommonDirs(tr, t) \cap AppDirs(tr, t) = {}
    BY DEF CommonDirs, AppDirs, DirsOf
  <1>5. c \o a \in Seq(Dirs) /\ Lists(c \o a, CommonDirs(tr, t) \cup AppDirs(tr, t))
    BY <1>2, <1>3, <1>4, ConcatLists
  <1>6. /\ \A i \in DOMAIN c : c[i][2] = "common"
        /\ \A i \in DOMAIN a : a[i][2] = "app"
    BY <1>2, <1>3 DEF Lists, Range, CommonDirs, AppDirs, DirsOf
  <1>7. ASSUME NEW i \in DOMAIN (c \o a), NEW j \in DOMAIN (c \o a), i < j, (c \o a)[i][2] = "app"
        PROVE  (c \o a)[j][2] = "app"
    <2>1. /\ Len(c) \in Nat /\ Len(a) \in Nat /\ DOMAIN (c \o a) = 1 .. Len(c) + Len(a)
          /\ DOMAIN c = 1 .. Len(c) /\ DOMAIN a = 1 .. Len(a)
          /\ \A k \in 1 .. Len(c) + Len(a) :
                (c \o a)[k] = IF k <= Len(c) THEN c[k] ELSE a[k - Len(c)]
      BY <1>2, <1>3, ConcatProperties
    <2>2. i \in 1 .. Len(c) + Len(a) /\ j \in 1 .. Len(c) + Len(a)
      BY <2>1
    <2>3. ~(i <= Len(c))
      <3> SUFFICES ASSUME i <= Len(c) PROVE FALSE
        OBVIOUS
      <3>1. i \in DOMAIN c /\ (c \o a)[i] = c[i]
        BY <2>1, <2>2
      <3> QED BY <3>1, <1>6, <1>7
    <2>4. ~(j <= Len(c)) /\ j - Len(c) \in DOMAIN a
      BY <2>1, <2>2, <2>3, <1>7
    <2>5. (c \o a)[j] = a[j - Len(c)]
      BY <2>1, <2>2, <2>4
    <2> QED BY <2>4, <2>5, <1>6
  <1> QED BY <1>1, <1>5, <1>7

\* The base theme's own: by name, in the order of its common directories, then what only
\* the application has.
LEMMA DirsOfBase ==
    ASSUME NEW tr \in TreeType
    PROVE  LET d == getFeedbackDirsFromPath(tr.common[Base], Base, "common")
               f == getFeedbackDirsOfATheme(tr, Base)
           IN /\ f \in Seq(Dirs) /\ d \in Seq(Dirs) /\ Len(d) <= Len(f)
              /\ \A i \in 1 .. Len(f) :
                   f[i] = <<Base, IF f[i][3] \in tr.app[Base] THEN "app" ELSE "common", f[i][3]>>
              /\ \A i \in 1 .. Len(d) :
                   d[i] = <<Base, "common", f[i][3]>> /\ f[i][3] \in tr.common[Base]
              /\ \A i \in 1 .. Len(f) : i > Len(d) => f[i][3] \notin tr.common[Base]
              /\ IsInjective([i \in DOMAIN f |-> f[i][3]])
              /\ Range([i \in DOMAIN f |-> f[i][3]]) = FeedbackNames(tr)
  <1> DEFINE d == getFeedbackDirsFromPath(tr.common[Base], Base, "common")
             m == getFeedbackDirsFromPath(tr.app[Base] \ tr.common[Base], Base, "app")
             o == [i \in DOMAIN d |->
                     IF NameOf(d[i]) \in tr.app[Base] THEN <<Base, "app", NameOf(d[i])>> ELSE d[i]]
             f == o \o m
  <1>1. getFeedbackDirsOfATheme(tr, Base) = f
    BY DEF getFeedbackDirsOfATheme
  <1>2. Base \in Themes /\ tr.common[Base] \in SUBSET Names /\ tr.app[Base] \in SUBSET Names
    BY TreeFacts, ThemingAssumption
  <1>3. d \in Seq(Dirs) /\ Lists(d, DirsOf(Base, "common", tr.common[Base] \ IllFormed))
    BY <1>2, PathDirs DEF Kinds
  <1>4. m \in Seq(Dirs)
        /\ Lists(m, DirsOf(Base, "app", (tr.app[Base] \ tr.common[Base]) \ IllFormed))
    BY <1>2, PathDirs DEF Kinds
  <1> HIDE DEF d, m
  <1>5. \A i \in DOMAIN d : /\ d[i] = <<Base, "common", d[i][3]>>
                            /\ d[i][3] \in tr.common[Base] \ IllFormed
    BY <1>3 DEF Lists, Range, DirsOf
  <1>6. \A i \in DOMAIN m : /\ m[i] = <<Base, "app", m[i][3]>>
                            /\ m[i][3] \in (tr.app[Base] \ tr.common[Base]) \ IllFormed
    BY <1>4 DEF Lists, Range, DirsOf
  <1>7. /\ Len(d) \in Nat /\ Len(m) \in Nat /\ DOMAIN d = 1 .. Len(d) /\ DOMAIN m = 1 .. Len(m)
    BY <1>3, <1>4
  <1>8. \A i \in DOMAIN d :
           o[i] = <<Base, IF d[i][3] \in tr.app[Base] THEN "app" ELSE "common", d[i][3]>>
    BY <1>5 DEF NameOf
  <1>9. o \in Seq(Dirs) /\ Len(o) = Len(d)
    <2>1. \A i \in 1 .. Len(d) : o[i] \in Dirs
      BY <1>8, <1>5, <1>7, <1>2 DEF Dirs
    <2>2. o \in [1 .. Len(d) -> Dirs]
      BY <2>1, <1>7
    <2> QED BY <2>2, <1>7
  <1> HIDE DEF o
  <1>10. /\ f \in Seq(Dirs) /\ Len(f) = Len(d) + Len(m) /\ DOMAIN f = 1 .. Len(d) + Len(m)
         /\ \A i \in 1 .. Len(d) + Len(m) : f[i] = IF i <= Len(d) THEN o[i] ELSE m[i - Len(d)]
    BY <1>4, <1>9, ConcatProperties
  <1> HIDE DEF f
  <1>11. \A i \in 1 .. Len(d) :
            /\ i \in DOMAIN f /\ f[i][3] = d[i][3]
            /\ f[i] = <<Base, IF f[i][3] \in tr.app[Base] THEN "app" ELSE "common", f[i][3]>>
    BY <1>7, <1>8, <1>10
  <1>12. \A i \in DOMAIN f : i > Len(d) =>
            /\ i - Len(d) \in DOMAIN m /\ f[i] = m[i - Len(d)]
    BY <1>7, <1>10
  <1>13. \A i \in DOMAIN f : i > Len(d) =>
            /\ f[i][3] \in (tr.app[Base] \ tr.common[Base]) \ IllFormed
            /\ f[i] = <<Base, IF f[i][3] \in tr.app[Base] THEN "app" ELSE "common", f[i][3]>>
    BY <1>6, <1>12
  <1>14. \A i \in DOMAIN f : i > Len(d) \/ i \in 1 .. Len(d)
    BY <1>7, <1>10
  <1> DEFINE names == [i \in DOMAIN f |-> f[i][3]]
  <1>15. IsInjective(names)
    <2> SUFFICES ASSUME NEW i \in DOMAIN f, NEW j \in DOMAIN f, f[i][3] = f[j][3]
                 PROVE  i = j
      BY DEF IsInjective
    <2>1. CASE i \in 1 .. Len(d) /\ j \in 1 .. Len(d)
      <3>1. d[i] = d[j]
        BY <2>1, <1>5, <1>7, <1>11
      <3> QED BY <3>1, <2>1, <1>3, <1>7 DEF Lists, IsInjective
    <2>2. CASE i > Len(d) /\ j > Len(d)
      <3>1. m[i - Len(d)] = m[j - Len(d)]
        BY <2>2, <1>6, <1>12
      <3>2. i - Len(d) = j - Len(d)
        BY <3>1, <2>2, <1>12, <1>4 DEF Lists, IsInjective
      <3> QED BY <3>2, <1>7, <1>10
    <2>3. ASSUME NEW k \in 1 .. Len(d), NEW l \in DOMAIN f, l > Len(d)
          PROVE  f[k][3] # f[l][3]
      BY <2>3, <1>5, <1>7, <1>11, <1>13
    <2> QED BY <2>1, <2>2, <2>3, <1>14
  <1>16. Range(names) = FeedbackNames(tr)
    <2>1. ASSUME NEW i \in DOMAIN f PROVE f[i][3] \in FeedbackNames(tr)
      BY <1>5, <1>7, <1>11, <1>13, <1>14 DEF FeedbackNames
    <2>2. ASSUME NEW n \in FeedbackNames(tr) PROVE \E i \in DOMAIN f : f[i][3] = n
      <3>1. CASE n \in tr.common[Base]
        <4>1. <<Base, "common", n>> \in Range(d)
          BY <3>1, <1>3 DEF Lists, DirsOf, FeedbackNames
        <4>2. PICK i \in DOMAIN d : d[i] = <<Base, "common", n>>
          BY <4>1 DEF Range
        <4> QED BY <4>2, <1>7, <1>11
      <3>2. CASE n \notin tr.common[Base]
        <4>1. <<Base, "app", n>> \in Range(m)
          BY <3>2, <1>4 DEF Lists, DirsOf, FeedbackNames
        <4>2. PICK i \in DOMAIN m : m[i] = <<Base, "app", n>>
          BY <4>1 DEF Range
        <4>3. i + Len(d) \in DOMAIN f /\ i + Len(d) > Len(d) /\ (i + Len(d)) - Len(d) = i
          BY <4>2, <1>7, <1>10
        <4> QED BY <4>2, <4>3, <1>12
      <3> QED BY <3>1, <3>2
    <2> QED BY <2>1, <2>2 DEF Range
  <1>17. \A i \in 1 .. Len(d) : d[i] = <<Base, "common", f[i][3]>> /\ f[i][3] \in tr.common[Base]
    BY <1>5, <1>7, <1>11
  <1>18. /\ \A i \in 1 .. Len(f) :
              f[i] = <<Base, IF f[i][3] \in tr.app[Base] THEN "app" ELSE "common", f[i][3]>>
         /\ \A i \in 1 .. Len(f) : i > Len(d) => f[i][3] \notin tr.common[Base]
    BY <1>7, <1>10, <1>11, <1>13, <1>14
  <1>19. Len(d) <= Len(f)
    BY <1>7, <1>10
  <1>20. /\ f \in Seq(Dirs) /\ d \in Seq(Dirs) /\ Len(d) <= Len(f)
         /\ \A i \in 1 .. Len(f) :
              f[i] = <<Base, IF f[i][3] \in tr.app[Base] THEN "app" ELSE "common", f[i][3]>>
         /\ \A i \in 1 .. Len(d) :
              d[i] = <<Base, "common", f[i][3]>> /\ f[i][3] \in tr.common[Base]
         /\ \A i \in 1 .. Len(f) : i > Len(d) => f[i][3] \notin tr.common[Base]
         /\ IsInjective([i \in DOMAIN f |-> f[i][3]])
         /\ Range([i \in DOMAIN f |-> f[i][3]]) = FeedbackNames(tr)
    BY <1>3, <1>10, <1>15, <1>16, <1>17, <1>18, <1>19
  <1> QED BY <1>1, <1>20 DEF d

-----------------------------------------------------------------------------
(* The inheritance chain.                                                   *)

Depth == Cardinality(Themes)
Parents == Themes \cup {NoTheme}

\* What the chain of a theme is, given the chains of a depth less.
Link(tr, n, up, t) ==
    IF t \notin tr.installed THEN <<>>
    ELSE IF t = Base THEN <<Base>>
    ELSE IF n = 0 THEN <<t>>
    ELSE IF up[tr.inherits[t]] = <<>> THEN <<>>
    ELSE Append(up[tr.inherits[t]], t)

\* The chains of all themes, cut at each depth.
Chains(tr, chain) ==
    /\ chain \in [0 .. Depth -> [Parents -> Seq(Themes)]]
    /\ \A t \in Parents : chain[0][t] = Link(tr, 0, chain[0], t)
    /\ \A n \in 1 .. Depth, t \in Parents : chain[n][t] = Link(tr, n, chain[n - 1], t)
    /\ \A t \in Parents : getThemeInheritanceChain(tr, t) = chain[Depth][t]

LEMMA DepthIsNat == Depth \in Nat /\ IsFiniteSet(Themes)
  BY FS_CardinalityType, ThemingAssumption DEF Depth

LEMMA LinkType ==
    ASSUME NEW tr \in TreeType, NEW n, NEW up \in [Parents -> Seq(Themes)], NEW t \in Parents
    PROVE  Link(tr, n, up, t) \in Seq(Themes)
  <1>1. t \in tr.installed => t \in Themes /\ up[tr.inherits[t]] \in Seq(Themes)
    BY TreeFacts DEF Parents
  <1>2. Base \in Themes
    BY ThemingAssumption
  <1> QED BY <1>1, <1>2 DEF Link

LEMMA ChainsExist ==
    ASSUME NEW tr \in TreeType
    PROVE  \E chain : Chains(tr, chain)
  <1> DEFINE V == [Parents -> Seq(Themes)]
             base == [t \in Parents |-> Link(tr, 0, <<>>, t)]
             step == [x \in (1 .. Depth) \X V |-> [t \in Parents |-> Link(tr, x[1], x[2], t)]]
             chain == CHOOSE f : f = [n \in 0 .. Depth |->
                        [theme \in Parents |->
                           CASE theme \notin tr.installed -> <<>>
                             [] theme \in tr.installed /\ theme = Base -> <<Base>>
                             [] OTHER -> IF n = 0 THEN <<theme>>
                                         ELSE IF f[n - 1][tr.inherits[theme]] = <<>> THEN <<>>
                                         ELSE Append(f[n - 1][tr.inherits[theme]], theme)]]
  <1>1. base \in V
    <2>1. ASSUME NEW t \in Parents PROVE Link(tr, 0, <<>>, t) \in Seq(Themes)
      BY TreeFacts, ThemingAssumption DEF Link
    <2> QED BY <2>1
  <1>2. step \in [(1 .. Depth) \X V -> V]
    <2>1. ASSUME NEW x \in (1 .. Depth) \X V
          PROVE  [t \in Parents |-> Link(tr, x[1], x[2], t)] \in V
      <3>1. x[2] \in V
        OBVIOUS
      <3> QED BY <3>1, LinkType
    <2> HIDE DEF V
    <2> QED BY <2>1
  <1>3. PICK f \in [0 .. Depth -> V] : Computed(f, Depth, base, step)
    <2> HIDE DEF V, base, step
    <2> QED BY <1>1, <1>2, DepthIsNat, Recursion
  <1>4. f[0] = base /\ \A n \in 1 .. Depth : f[n] = [t \in Parents |-> Link(tr, n, f[n - 1], t)]
    <2>1. f[0] = base /\ \A n \in 1 .. Depth : f[n] = step[<<n, f[n - 1]>>]
      BY <1>3 DEF Computed
    <2>2. ASSUME NEW n \in 1 .. Depth
          PROVE  step[<<n, f[n - 1]>>] = [t \in Parents |-> Link(tr, n, f[n - 1], t)]
      <3>1. n - 1 \in 0 .. Depth
        BY DepthIsNat
      <3>2. <<n, f[n - 1]>> \in (1 .. Depth) \X V
        BY <3>1
      <3> HIDE DEF V
      <3> QED BY <3>2
    <2> HIDE DEF step
    <2> QED BY <2>1, <2>2
  <1> DEFINE Body(g, n, theme) ==
               CASE theme \notin tr.installed -> <<>>
                 [] theme \in tr.installed /\ theme = Base -> <<Base>>
                 [] OTHER -> IF n = 0 THEN <<theme>>
                             ELSE IF g[n - 1][tr.inherits[theme]] = <<>> THEN <<>>
                             ELSE Append(g[n - 1][tr.inherits[theme]], theme)
  <1>5. \A g, n, theme : Body(g, n, theme) = Link(tr, n, g[n - 1], theme)
    BY DEF Link
  <1>6. \A n, u, v, theme : n = 0 => Link(tr, n, u, theme) = Link(tr, 0, v, theme)
    BY DEF Link
  <1> HIDE DEF Body
  <1>7. f = [n \in 0 .. Depth |-> [theme \in Parents |-> Body(f, n, theme)]]
    <2>1. ASSUME NEW n \in 0 .. Depth
          PROVE  f[n] = [theme \in Parents |-> Body(f, n, theme)]
      <3>1. CASE n = 0
        <4>1. f[n] = [t \in Parents |-> Link(tr, 0, <<>>, t)]
          BY <3>1, <1>4
        <4>2. \A t \in Parents : Link(tr, 0, <<>>, t) = Body(f, n, t)
          BY <3>1, <1>5, <1>6
        <4> QED BY <4>1, <4>2
      <3>2. CASE n # 0
        <4>1. n \in 1 .. Depth
          BY <3>2, DepthIsNat
        <4>2. f[n] = [t \in Parents |-> Link(tr, n, f[n - 1], t)]
          BY <4>1, <1>4
        <4> QED BY <4>2, <1>5
      <3> QED BY <3>1, <3>2
    <2>2. DOMAIN f = 0 .. Depth
      BY <1>3
    <2>3. f \in [0 .. Depth -> V]
      BY <1>3
    <2> HIDE DEF V
    <2> QED BY <2>1, <2>3
  <1>8. chain = [n \in 0 .. Depth |-> [theme \in Parents |-> Body(chain, n, theme)]]
    BY <1>7, Zenon DEF Body
  <1>9. \A t : getThemeInheritanceChain(tr, t) = chain[Depth][t]
    BY DEF getThemeInheritanceChain, Depth, Parents
  <1> HIDE DEF chain
  <1>10. \A n \in 0 .. Depth : chain[n] = [t \in Parents |-> Link(tr, n, chain[n - 1], t)]
    BY <1>8, <1>5
  <1>11. \A n \in 0 .. Depth : chain[n] \in V
    <2> DEFINE S == {n \in 0 .. Depth : chain[n] \in V}
    <2>1. 0 \in S
      <3>1. 0 \in 0 .. Depth
        BY DepthIsNat
      <3>2. chain[0] = [t \in Parents |-> Link(tr, 0, chain[0 - 1], t)]
        BY <3>1, <1>10
      <3>3. \A t \in Parents : Link(tr, 0, chain[0 - 1], t) = Link(tr, 0, <<>>, t)
        BY <1>6
      <3>4. chain[0] = base
        BY <3>2, <3>3
      <3> HIDE DEF base, V
      <3> QED BY <3>1, <3>4, <1>1
    <2>2. ASSUME NEW n \in 0 .. Depth, n < Depth, n \in S
          PROVE  n + 1 \in S
      <3>1. n + 1 \in 0 .. Depth /\ (n + 1) - 1 = n
        BY <2>2, DepthIsNat
      <3>2. chain[n + 1] = [t \in Parents |-> Link(tr, n + 1, chain[n], t)]
        BY <3>1, <1>10
      <3>3. \A t \in Parents : Link(tr, n + 1, chain[n], t) \in Seq(Themes)
        BY <2>2, LinkType
      <3>4. chain[n + 1] \in V
        BY <3>2, <3>3
      <3> HIDE DEF V
      <3> QED BY <3>1, <3>4
    <2> HIDE DEF S, V
    <2>3. \A n \in 0 .. Depth : n \in S
      BY <2>1, <2>2, DepthIsNat, Induction
    <2> QED BY <2>3 DEF S
  <1>12. chain \in [0 .. Depth -> V]
    <2>1. chain = [n \in 0 .. Depth |-> chain[n]]
      BY <1>8
    <2> HIDE DEF V
    <2> QED BY <2>1, <1>11
  <1>13. \A t \in Parents : chain[0][t] = Link(tr, 0, chain[0], t)
    <2>1. 0 \in 0 .. Depth
      BY DepthIsNat
    <2>2. \A t \in Parents : chain[0][t] = Link(tr, 0, chain[0 - 1], t)
      BY <2>1, <1>10
    <2> QED BY <2>2, <1>6
  <1>14. \A n \in 1 .. Depth, t \in Parents : chain[n][t] = Link(tr, n, chain[n - 1], t)
    <2>1. \A n \in 1 .. Depth : n \in 0 .. Depth
      BY DepthIsNat
    <2> QED BY <2>1, <1>10
  <1>15. Chains(tr, chain)
    BY <1>9, <1>12, <1>13, <1>14 DEF Chains
  <1> QED BY <1>15

\* Each theme of s inherits the one before it, and only the first is the base theme.
Descends(tr, s) == \A i \in 2 .. Len(s) : s[i] # Base /\ tr.inherits[s[i]] = s[i - 1]

\* A chain that is not empty leads to its theme, from the base theme or from as far as it
\* was followed.
Shape(tr, n, t, s) ==
    s # <<>> => /\ s \in Seq(tr.installed) /\ s[Len(s)] = t
                /\ Descends(tr, s)
                /\ s[1] = Base \/ Len(s) = n + 1

LEMMA OneElement ==
    ASSUME NEW S, NEW x \in S
    PROVE  <<x>> \in Seq(S) /\ Len(<<x>>) = 1 /\ <<x>>[1] = x
  OBVIOUS

LEMMA TwoElements ==
    ASSUME NEW S, NEW x \in S, NEW y \in S
    PROVE  <<x>> \o <<y>> = <<x, y>>
  <1> DEFINE t == <<x>> \o <<y>>
  <1>1. /\ t \in Seq(S) /\ Len(t) = 2 /\ t[1] = x /\ t[2] = y
    BY OneElement, ConcatProperties
  <1>2. <<x, y>> \in Seq(S) /\ Len(<<x, y>>) = 2 /\ <<x, y>>[1] = x /\ <<x, y>>[2] = y
    OBVIOUS
  <1> HIDE DEF t
  <1>3. \A i \in 1 .. Len(t) : t[i] = <<x, y>>[i]
    BY <1>1, <1>2
  <1>4. t = <<x, y>>
    BY <1>1, <1>2, <1>3, SeqEqual
  <1> QED BY <1>4 DEF t

LEMMA FirstElement ==
    ASSUME NEW S, NEW s \in Seq(S), Len(s) >= 1
    PROVE  SubSeq(s, 1, 1) = <<s[1]>>
  <1>1. 1 \in 1 .. Len(s) /\ 1 \in 1 .. Len(s) /\ 1 + 1 = 2
    OBVIOUS
  <1>2. SubSeq(s, 1, 1) = <<s[1]>> \o SubSeq(s, 1 + 1, 1)
    BY <1>1, SubSeqRecursiveFirst
  <1>3. SubSeq(s, 2, 1) = <<>>
    BY SubSeqEmpty
  <1>4. <<s[1]>> \in Seq(S)
    BY <1>1
  <1>5. <<s[1]>> \o <<>> = <<s[1]>>
    BY <1>4, ConcatEmptySeq
  <1> QED BY <1>1, <1>2, <1>3, <1>5

LEMMA ShapeOfOne ==
    ASSUME NEW tr, NEW t \in tr.installed, NEW n, n = 0 \/ t = Base
    PROVE  Shape(tr, n, t, <<t>>)
  <1>1. <<t>> \in Seq(tr.installed) /\ Len(<<t>>) = 1 /\ <<t>>[1] = t
    BY OneElement
  <1>2. Descends(tr, <<t>>)
    BY <1>1 DEF Descends
  <1> QED BY <1>1, <1>2 DEF Shape

LEMMA ChainShape ==
    ASSUME NEW tr \in TreeType, NEW chain, Chains(tr, chain)
    PROVE  \A n \in 0 .. Depth, t \in Parents : Shape(tr, n, t, chain[n][t])
  <1> DEFINE S == {n \in 0 .. Depth : \A t \in Parents : Shape(tr, n, t, chain[n][t])}
  <1>1. 0 \in S
    <2>1. ASSUME NEW t \in Parents, chain[0][t] # <<>>
          PROVE  t \in tr.installed /\ chain[0][t] = <<t>>
      <3>1. chain[0][t] = Link(tr, 0, chain[0], t)
        BY DEF Chains
      <3> QED BY <2>1, <3>1 DEF Link
    <2>2. \A t : t \in tr.installed => Shape(tr, 0, t, <<t>>)
      BY ShapeOfOne
    <2>3. \A t \in Parents : Shape(tr, 0, t, chain[0][t])
      <3> SUFFICES ASSUME NEW t \in Parents PROVE Shape(tr, 0, t, chain[0][t])
        OBVIOUS
      <3>1. CASE chain[0][t] = <<>>
        BY <3>1 DEF Shape
      <3>2. CASE chain[0][t] # <<>>
        BY <3>2, <2>1, <2>2
      <3> QED BY <3>1, <3>2
    <2> QED BY <2>3, DepthIsNat
  <1>2. ASSUME NEW n \in 0 .. Depth, n < Depth, n \in S
        PROVE  n + 1 \in S
    <2>1. n + 1 \in 1 .. Depth /\ n + 1 \in 0 .. Depth /\ (n + 1) - 1 = n /\ n + 1 # 0
      BY <1>2, DepthIsNat
    <2>2. ASSUME NEW t \in Parents
          PROVE  Shape(tr, n + 1, t, chain[n + 1][t])
      <3> DEFINE up == chain[n][tr.inherits[t]]
      <3>1. chain[n + 1][t] = Link(tr, n + 1, chain[n], t)
        BY <2>1 DEF Chains
      <3>2. CASE t \notin tr.installed \/ (t # Base /\ up = <<>>)
        <4>1. chain[n + 1][t] = <<>>
          BY <3>1, <3>2, <2>1 DEF Link
        <4> QED BY <4>1 DEF Shape
      <3>3. CASE t \in tr.installed /\ t = Base
        <4>1. chain[n + 1][t] = <<Base>>
          BY <3>1, <3>3 DEF Link
        <4> QED BY <4>1, <3>3, ShapeOfOne
      <3>4. CASE t \in tr.installed /\ t # Base /\ up # <<>>
        <4>1. chain[n + 1][t] = Append(up, t)
          BY <3>1, <3>4, <2>1 DEF Link
        <4>2. tr.inherits[t] \in Parents
          BY <3>4, TreeFacts DEF Parents
        <4>3. Shape(tr, n, tr.inherits[t], up)
          BY <4>2, <1>2
        <4>4. /\ up \in Seq(tr.installed) /\ up[Len(up)] = tr.inherits[t]
              /\ Descends(tr, up)
              /\ up[1] = Base \/ Len(up) = n + 1
          BY <4>3, <3>4 DEF Shape
        <4> HIDE DEF up
        <4> DEFINE s == Append(up, t)
        <4>5. /\ s \in Seq(tr.installed) /\ Len(s) = Len(up) + 1 /\ s[Len(up) + 1] = t
              /\ \A i \in 1 .. Len(up) : s[i] = up[i]
              /\ Len(up) \in Nat \ {0}
          BY <4>4, <3>4, AppendProperties
        <4> HIDE DEF s
        <4>6. Descends(tr, s)
          <5> SUFFICES ASSUME NEW i \in 2 .. Len(up) + 1
                       PROVE  s[i] # Base /\ tr.inherits[s[i]] = s[i - 1]
            BY <4>5 DEF Descends
          <5>1. CASE i = Len(up) + 1
            <6>1. s[i] = t /\ i - 1 \in 1 .. Len(up) /\ i - 1 = Len(up)
              BY <5>1, <4>5
            <6> QED BY <6>1, <4>4, <4>5, <3>4
          <5>2. CASE i # Len(up) + 1
            <6>1. i \in 2 .. Len(up) /\ i \in 1 .. Len(up) /\ i - 1 \in 1 .. Len(up)
              BY <5>2, <4>5
            <6> QED BY <6>1, <4>4, <4>5 DEF Descends
          <5> QED BY <5>1, <5>2
        <4>7. s[1] = Base \/ Len(s) = (n + 1) + 1
          BY <4>4, <4>5
        <4>8. Shape(tr, n + 1, t, s)
          BY <4>5, <4>6, <4>7 DEF Shape
        <4> QED BY <4>1, <4>8 DEF s
      <3> QED BY <3>2, <3>3, <3>4
    <2> QED BY <2>1, <2>2
  <1> HIDE DEF S
  <1>3. \A n \in 0 .. Depth : n \in S
    BY <1>1, <1>2, DepthIsNat, Induction
  <1> QED BY <1>3 DEF S

\* A chain with an end is a way from the base theme.
LEMMA ChainIsLineage ==
    ASSUME NEW tr \in TreeType, NEW t \in Themes,
           getThemeInheritanceChain(tr, t) # <<>>, ~Endless(getThemeInheritanceChain(tr, t))
    PROVE  getThemeInheritanceChain(tr, t) \in Lineages(tr, t)
  <1> DEFINE s == getThemeInheritanceChain(tr, t)
  <1>1. PICK chain : Chains(tr, chain)
    BY ChainsExist
  <1>2. Depth \in Nat /\ t \in Parents
    BY DepthIsNat DEF Parents
  <1>3. s = chain[Depth][t]
    BY <1>1, <1>2 DEF Chains
  <1>4. Shape(tr, Depth, t, chain[Depth][t])
    BY <1>1, <1>2, ChainShape
  <1>5. s # <<>> /\ ~(Len(s) > Depth)
    BY DEF Endless, Depth
  <1>6. Shape(tr, Depth, t, s)
    BY <1>3, <1>4
  <1> HIDE DEF s
  <1>7. s \in Seq(tr.installed) /\ s[Len(s)] = t /\ Descends(tr, s) /\ s[1] = Base
    BY <1>2, <1>5, <1>6 DEF Shape
  <1>8. Len(s) \in 1 .. Depth /\ s \in [1 .. Len(s) -> tr.installed]
    BY <1>2, <1>5, <1>7
  <1>9. s \in UNION {[1 .. n -> tr.installed] : n \in 1 .. Depth}
    BY <1>8
  <1>10. s \in Lineages(tr, t)
    BY <1>7, <1>9 DEF Lineages, Descends, Depth
  <1> QED BY <1>10 DEF s

LEMMA LineageFacts ==
    ASSUME NEW tr \in TreeType, NEW t, NEW s \in Lineages(tr, t)
    PROVE  /\ s \in Seq(tr.installed) /\ Len(s) \in 1 .. Depth /\ DOMAIN s = 1 .. Len(s)
           /\ s[1] = Base /\ s[Len(s)] = t /\ Descends(tr, s)
  <1>1. PICK n \in 1 .. Depth : s \in [1 .. n -> tr.installed]
    BY DEF Lineages, Depth
  <1>2. n \in Nat /\ n \in 1 .. Depth
    BY <1>1, DepthIsNat
  <1>3. s \in Seq(tr.installed) /\ Len(s) = n
    BY <1>1, <1>2
  <1> QED BY <1>1, <1>2, <1>3 DEF Lineages, Descends

\* There is one way from the base theme to a theme, and it is the chain.
LEMMA LineageIsChain ==
    ASSUME NEW tr \in TreeType, NEW t \in Themes, NEW s \in Lineages(tr, t)
    PROVE  getThemeInheritanceChain(tr, t) = s
  <1>1. PICK chain : Chains(tr, chain)
    BY ChainsExist
  <1>2. /\ s \in Seq(tr.installed) /\ Len(s) \in 1 .. Depth /\ DOMAIN s = 1 .. Len(s)
        /\ s[1] = Base /\ s[Len(s)] = t /\ Descends(tr, s)
    BY LineageFacts
  <1>3. Depth \in Nat /\ Len(s) \in Nat /\ \A i \in 1 .. Len(s) : s[i] \in tr.installed /\ s[i] \in Parents
    BY <1>2, DepthIsNat, TreeFacts DEF Parents
  <1> DEFINE Begin(i) == SubSeq(s, 1, i)
             Good(i) == \A n \in 0 .. Depth : i - 1 <= n => chain[n][s[i]] = Begin(i)
             S == {i \in 0 .. Len(s) : i # 0 => Good(i)}
  <1>4. 0 \in S
    BY <1>3
  <1>5. ASSUME NEW i \in 0 .. Len(s), i < Len(s), i \in S
        PROVE  i + 1 \in S
    <2>1. i + 1 \in 1 .. Len(s) /\ i + 1 \in 0 .. Len(s)
      BY <1>3, <1>5
    <2>2. ASSUME NEW n \in 0 .. Depth, (i + 1) - 1 <= n
          PROVE  chain[n][s[i + 1]] = Begin(i + 1)
      <3> DEFINE u == s[i + 1]
      <3>1. u \in tr.installed /\ u \in Parents
        BY <2>1, <1>3
      <3>2. PICK m, up : chain[n][u] = Link(tr, m, up, u) /\ m = n /\ (n # 0 => up = chain[n - 1])
        <4>1. CASE n = 0
          BY <4>1, <3>1, <1>1 DEF Chains
        <4>2. CASE n # 0
          <5>1. n \in 1 .. Depth
            BY <4>2, <1>3
          <5> QED BY <5>1, <3>1, <1>1 DEF Chains
        <4> QED BY <4>1, <4>2
      <3>3. CASE i = 0
        <4>1. u = Base
          BY <3>3, <1>2
        <4>2. chain[n][u] = <<Base>>
          BY <4>1, <3>1, <3>2 DEF Link
        <4>3. Begin(i + 1) = <<Base>>
          <5>1. i + 1 = 1 /\ 1 \in 1 .. Len(s)
            BY <3>3, <1>2, <1>3
          <5>2. SubSeq(s, 1, 1) = <<s[1]>>
            BY <5>1, <1>2, FirstElement
          <5> QED BY <5>1, <5>2, <1>2
        <4> QED BY <4>2, <4>3
      <3>4. CASE i # 0
        <4>1. /\ i + 1 \in 2 .. Len(s) /\ (i + 1) - 1 = i /\ n # 0 /\ n - 1 \in 0 .. Depth
              /\ i - 1 <= n - 1 /\ i \in 1 .. Len(s)
          BY <3>4, <2>1, <2>2, <1>3, <1>5
        <4>2. u # Base /\ tr.inherits[u] = s[i]
          BY <4>1, <1>2 DEF Descends
        <4>3. Good(i)
          BY <1>5, <3>4
        <4>4. chain[n - 1][s[i]] = Begin(i)
          BY <4>1, <4>3
        <4>5. Begin(i) # <<>> /\ Append(Begin(i), u) = Begin(i + 1)
          BY <4>1, <1>2, <1>3, SubSeqProperties, SubSeqRecursiveSecond
        <4> HIDE DEF u, Begin
        <4>6. m = n /\ up = chain[n - 1]
          BY <4>1, <3>2
        <4>7. chain[n][u] = Append(Begin(i), u)
          BY <4>1, <4>2, <4>4, <4>5, <4>6, <3>1, <3>2 DEF Link
        <4>8. chain[n][u] = Begin(i + 1)
          BY <4>5, <4>7
        <4> QED BY <4>8 DEF u
      <3> QED BY <3>3, <3>4
    <2> HIDE DEF Begin
    <2> QED BY <2>1, <2>2
  <1>6. Len(s) \in S
    <2> HIDE DEF S
    <2>1. \A i \in 0 .. Len(s) : i \in S
      BY <1>3, <1>4, <1>5, Induction
    <2> QED BY <2>1, <1>3
  <1>7. Good(Len(s)) /\ Depth \in 0 .. Depth /\ Len(s) - 1 <= Depth
    BY <1>2, <1>3, <1>6
  <1>8. chain[Depth][t] = Begin(Len(s))
    BY <1>2, <1>7
  <1>9. Begin(Len(s)) = s
    BY <1>2, SubSeqFull
  <1>10. t \in Parents
    BY DEF Parents
  <1> HIDE DEF Begin
  <1> QED BY <1>1, <1>8, <1>9, <1>10 DEF Chains

\* A way from the base theme passes no theme twice.
LEMMA LineageIsInjective ==
    ASSUME NEW tr \in TreeType, NEW t, NEW s \in Lineages(tr, t)
    PROVE  IsInjective(s)
  <1>1. /\ DOMAIN s = 1 .. Len(s) /\ Len(s) \in Nat
        /\ s[1] = Base /\ \A i \in 2 .. Len(s) : s[i] # Base /\ tr.inherits[s[i]] = s[i - 1]
    BY LineageFacts, DepthIsNat DEF Descends
  <1> SUFFICES ASSUME NEW a \in DOMAIN s, NEW b \in DOMAIN s, s[a] = s[b], a # b
               PROVE  FALSE
    BY DEF IsInjective
  <1> DEFINE T == {k \in Nat : k \in DOMAIN s /\ \E l \in DOMAIN s : k < l /\ s[k] = s[l]}
  <1>2. T # {} /\ T \in SUBSET Nat
    BY <1>1
  <1> HIDE DEF T
  <1>3. PICK k \in T : \A l \in T : k <= l
    BY <1>2, Least
  <1>4. PICK l \in DOMAIN s : k \in DOMAIN s /\ k < l /\ s[k] = s[l]
    BY <1>3 DEF T
  <1>5. k # 1
    BY <1>1, <1>4
  <1>6. k \in 2 .. Len(s) /\ l \in 2 .. Len(s)
    BY <1>1, <1>4, <1>5
  <1>7. s[k - 1] = s[l - 1]
    BY <1>1, <1>4, <1>6
  <1>8. k - 1 \in T
    BY <1>1, <1>4, <1>6, <1>7 DEF T
  <1> QED BY <1>1, <1>3, <1>4, <1>8

LEMMA BaseChain ==
    ASSUME NEW tr \in TreeType
    PROVE  getThemeInheritanceChain(tr, Base) = IF Base \in tr.installed THEN <<Base>> ELSE <<>>
  <1>1. PICK chain : Chains(tr, chain)
    BY ChainsExist
  <1>2. Depth \in Nat /\ Base \in Parents
    BY DepthIsNat, ThemingAssumption DEF Parents
  <1>3. PICK n, up : chain[Depth][Base] = Link(tr, n, up, Base)
    <2>1. CASE Depth = 0
      BY <2>1, <1>1, <1>2 DEF Chains
    <2>2. CASE Depth # 0
      <3>1. Depth \in 1 .. Depth
        BY <2>2, <1>2
      <3> QED BY <3>1, <1>1, <1>2 DEF Chains
    <2> QED BY <2>1, <2>2
  <1> QED BY <1>1, <1>2, <1>3 DEF Chains, Link

\* The themes whose directories are searched are those of the lineage.
LEMMA ThemeDirsAre ==
    ASSUME NEW tr \in TreeType, NEW t \in Themes,
           ThemeDirs(tr, t) # <<>>, ~Endless(ThemeDirs(tr, t))
    PROVE  LET s == ThemeDirs(tr, t)
           IN /\ s = Lineage(tr, t)
              /\ s \in Seq(tr.installed) /\ Len(s) \in Nat \ {0} /\ DOMAIN s = 1 .. Len(s)
              /\ s[1] = Base /\ IsInjective(s)
  <1> DEFINE own == getThemeInheritanceChain(tr, t)
             s == ThemeDirs(tr, t)
  <1>1. CASE own = <<>>
    <2>1. s = <<Base>> /\ Base \in tr.installed
      BY <1>1, BaseChain DEF ThemeDirs
    <2>2. Lineages(tr, t) = {}
      <3> SUFFICES ASSUME NEW l \in Lineages(tr, t) PROVE FALSE
        OBVIOUS
      <3>1. l = <<>>
        BY <1>1, LineageIsChain
      <3>2. Len(l) \in 1 .. Depth
        BY LineageFacts
      <3> QED BY <3>1, <3>2, DepthIsNat
    <2>3. Lineage(tr, t) = <<Base>>
      BY <2>2 DEF Lineage
    <2>4. <<Base>> \in Seq(tr.installed) /\ Len(<<Base>>) = 1 /\ <<Base>>[1] = Base
      BY <2>1, OneElement
    <2>5. IsInjective(<<Base>>) /\ DOMAIN <<Base>> = 1 .. 1
      BY <2>4 DEF IsInjective
    <2> QED BY <2>1, <2>3, <2>4, <2>5
  <1>2. CASE own # <<>>
    <2>1. s = own
      BY <1>2 DEF ThemeDirs
    <2>2. own \in Lineages(tr, t)
      BY <1>2, <2>1, ChainIsLineage
    <2>3. \A l \in Lineages(tr, t) : l = own
      BY LineageIsChain
    <2>4. Lineage(tr, t) = own
      <3> HIDE DEF own
      <3> QED BY <2>2, <2>3 DEF Lineage
    <2>5. /\ own \in Seq(tr.installed) /\ Len(own) \in 1 .. Depth /\ DOMAIN own = 1 .. Len(own)
          /\ own[1] = Base /\ IsInjective(own)
      BY <2>2, LineageFacts, LineageIsInjective
    <2>6. Len(own) \in Nat \ {0}
      BY <2>5, DepthIsNat
    <2> HIDE DEF own, s
    <2> QED BY <2>1, <2>4, <2>5, <2>6 DEF s
  <1> QED BY <1>1, <1>2

\* Without a theme directory there is no base theme.
LEMMA NoThemeDirs ==
    ASSUME NEW tr \in TreeType, NEW t \in Themes, ThemeDirs(tr, t) = <<>>
    PROVE  Base \notin tr.installed
  <1>1. getThemeInheritanceChain(tr, Base) = <<>>
    BY DEF ThemeDirs
  <1>2. <<Base>> # <<>>
    OBVIOUS
  <1> QED BY <1>1, <1>2, BaseChain

Circles(tr) == {s \in SUBSET (tr.installed \ {Base}) :
                   s # {} /\ \A u \in s : tr.inherits[u] \in s}

\* A chain without an end goes round a circle.
LEMMA EndlessIsCircle ==
    ASSUME NEW tr \in TreeType, NEW t \in Themes, Endless(ThemeDirs(tr, t))
    PROVE  Circles(tr) # {}
  <1> DEFINE s == getThemeInheritanceChain(tr, t)
  <1>1. PICK chain : Chains(tr, chain)
    BY ChainsExist
  <1>2. Depth \in Nat /\ Depth # 0 /\ t \in Parents /\ IsFiniteSet(Themes)
    <2>1. Depth # 0
      BY DepthIsNat, ThemingAssumption, FS_EmptySet DEF Depth
    <2> QED BY <2>1, DepthIsNat DEF Parents
  <1>3. s # <<>> /\ Len(s) > Depth
    <2>1. Len(<<Base>>) = 1 /\ Len(<<>>) = 0
      BY OneElement
    <2>2. ~(1 > Depth) /\ ~(0 > Depth)
      BY <1>2
    <2> QED BY <2>1, <2>2, BaseChain DEF ThemeDirs, Endless, Depth
  <1>4. Shape(tr, Depth, t, s)
    <2>1. s = chain[Depth][t]
      BY <1>1, <1>2 DEF Chains
    <2>2. Shape(tr, Depth, t, chain[Depth][t])
      BY <1>1, <1>2, ChainShape
    <2> QED BY <2>1, <2>2
  <1> HIDE DEF s
  <1>5. s \in Seq(tr.installed) /\ Descends(tr, s) /\ tr.installed \subseteq Themes
    BY <1>3, <1>4, TreeFacts DEF Shape
  <1>6. Len(s) \in Nat /\ DOMAIN s = 1 .. Len(s) /\ s \in [1 .. Len(s) -> Themes]
    BY <1>5
  <1>7. \E a, b \in 1 .. Len(s) : a # b /\ s[a] = s[b]
    <2>1. IsFiniteSet(1 .. Len(s)) /\ Cardinality(1 .. Len(s)) = Len(s)
      BY <1>2, <1>3, <1>6, FS_Interval
    <2>2. Cardinality(Themes) < Cardinality(1 .. Len(s))
      BY <2>1, <1>2, <1>3, <1>6 DEF Depth
    <2> QED BY <2>1, <2>2, <1>2, <1>6, FS_PigeonHole
  <1>8. PICK a \in 1 .. Len(s), b \in 1 .. Len(s) : a < b /\ s[a] = s[b]
    BY <1>6, <1>7
  <1> DEFINE circle == {s[i] : i \in a + 1 .. b}
  <1>9. \A i \in a + 1 .. b : i \in 2 .. Len(s) /\ i \in 1 .. Len(s) /\ s[i] \in tr.installed
                             /\ s[i] # Base /\ tr.inherits[s[i]] = s[i - 1]
    BY <1>5, <1>6 DEF Descends
  <1>10. \A i \in a + 1 .. b : tr.inherits[s[i]] \in circle
    <2> SUFFICES ASSUME NEW i \in a + 1 .. b PROVE s[i - 1] \in circle
      BY <1>9
    <2>1. CASE i = a + 1
      <3>1. s[i - 1] = s[b] /\ b \in a + 1 .. b
        BY <2>1, <1>6, <1>8
      <3> QED BY <3>1
    <2>2. CASE i # a + 1
      <3>1. i - 1 \in a + 1 .. b
        BY <2>2, <1>6
      <3> QED BY <3>1
    <2> QED BY <2>1, <2>2
  <1>11. circle # {} /\ circle \subseteq tr.installed \ {Base}
    <2>1. b \in a + 1 .. b
      BY <1>6, <1>8
    <2> QED BY <2>1, <1>9
  <1>12. \A u \in circle : tr.inherits[u] \in circle
    <2> SUFFICES ASSUME NEW u \in circle PROVE tr.inherits[u] \in circle
      OBVIOUS
    <2>1. PICK i \in a + 1 .. b : u = s[i]
      OBVIOUS
    <2> HIDE DEF circle
    <2> QED BY <2>1, <1>10
  <1> HIDE DEF circle
  <1>13. circle \in Circles(tr)
    BY <1>11, <1>12 DEF Circles
  <1> QED BY <1>13

-----------------------------------------------------------------------------
(* Lists in the order of nearness.                                          *)

\* A way through the themes: no theme twice.
IsLine(line) == line \in Seq(Themes) /\ IsInjective(line)

\* s lists the directories D, the nearest first.
Ordered(line, s, D) ==
    /\ s \in Seq(Dirs) /\ Range(s) = D
    /\ \A i, j \in DOMAIN s : i < j => Rank(line, s[i]) > Rank(line, s[j])

\* The rank of a directory whose theme is the i-th of the line.
LEMMA RankIs ==
    ASSUME NEW line, IsLine(line), NEW i \in DOMAIN line, NEW kind, NEW n
    PROVE  Rank(line, <<line[i], kind, n>>) = 2 * i + IF kind = "app" THEN 1 ELSE 0
  <1>1. (CHOOSE j \in DOMAIN line : line[j] = line[i]) = i
    BY DEF IsLine, IsInjective
  <1> QED BY <1>1 DEF Rank

\* A directory nearer than all of a list goes before them.
LEMMA PrependOrdered ==
    ASSUME NEW line, NEW s, NEW D, Ordered(line, s, D), NEW d \in Dirs,
           \A e \in D : Rank(line, d) > Rank(line, e)
    PROVE  Ordered(line, <<d>> \o s, {d} \cup D)
  <1> DEFINE t == <<d>> \o s
  <1>1. /\ t \in Seq(Dirs) /\ Len(s) \in Nat /\ DOMAIN s = 1 .. Len(s)
        /\ DOMAIN t = 1 .. Len(s) + 1 /\ t[1] = d
        /\ \A i \in 2 .. Len(s) + 1 : t[i] = s[i - 1]
    BY DEF Ordered
  <1> HIDE DEF t
  <1>2. \A i \in DOMAIN s : s[i] \in D
    BY DEF Ordered, Range
  <1>3. \A i \in DOMAIN t : i = 1 \/ (i \in 2 .. Len(s) + 1 /\ i - 1 \in DOMAIN s)
    BY <1>1
  <1>4. Range(t) = {d} \cup D
    <2>1. ASSUME NEW x \in Range(t) PROVE x \in {d} \cup D
      <3>1. PICK i \in DOMAIN t : x = t[i]
        BY DEF Range
      <3> QED BY <3>1, <1>1, <1>2, <1>3
    <2>2. d \in Range(t)
      <3>1. 1 \in DOMAIN t
        BY <1>1
      <3> QED BY <3>1, <1>1 DEF Range
    <2>3. ASSUME NEW x \in D PROVE x \in Range(t)
      <3>1. PICK i \in DOMAIN s : x = s[i]
        BY DEF Ordered, Range
      <3>2. i + 1 \in 2 .. Len(s) + 1 /\ i + 1 \in DOMAIN t /\ (i + 1) - 1 = i
        BY <1>1
      <3>3. t[i + 1] = x
        BY <3>1, <3>2, <1>1
      <3> QED BY <3>2, <3>3 DEF Range
    <2> QED BY <2>1, <2>2, <2>3
  <1>5. ASSUME NEW i \in DOMAIN t, NEW j \in DOMAIN t, i < j
        PROVE  Rank(line, t[i]) > Rank(line, t[j])
    <2>1. j \in 2 .. Len(s) + 1 /\ j - 1 \in DOMAIN s /\ t[j] = s[j - 1]
      BY <1>1, <1>5
    <2>2. CASE i = 1
      BY <2>1, <2>2, <1>1, <1>2
    <2>3. CASE i # 1
      <3>1. i - 1 \in DOMAIN s /\ t[i] = s[i - 1] /\ i - 1 < j - 1
        BY <2>3, <1>1, <1>5
      <3> QED BY <3>1, <2>1 DEF Ordered
    <2> QED BY <2>2, <2>3
  <1> QED BY <1>1, <1>4, <1>5 DEF Ordered, t

\* Those of D that are at least as near as d.
AsNearAs(line, D, d) == {e \in D : Rank(line, e) >= Rank(line, d)}

NearestFirst(line, D) ==
    [k \in 1 .. Cardinality(D) |-> CHOOSE d \in D : Cardinality(AsNearAs(line, D, d)) = k]

LEMMA NearestIs ==
    ASSUME NEW tr, NEW theme, NEW n
    PROVE  Nearest(tr, theme, n)
             = NearestFirst(Lineage(tr, theme), DirsAlong(tr, Lineage(tr, theme), n))
  BY Zenon DEF Nearest, NearestFirst, AsNearAs

\* There is one list of D, nearest first: the k-th has k that are at least as near.
LEMMA OrderedIsNearest ==
    ASSUME NEW line, NEW s, NEW D, Ordered(line, s, D), \A d \in D : Rank(line, d) \in Int
    PROVE  s = NearestFirst(line, D)
  <1>1. /\ s \in Seq(Dirs) /\ Len(s) \in Nat /\ DOMAIN s = 1 .. Len(s)
        /\ \A i \in 1 .. Len(s) : s[i] \in D /\ Rank(line, s[i]) \in Int
    BY DEF Ordered, Range
  <1>2. \A i, j \in 1 .. Len(s) : i < j => Rank(line, s[i]) > Rank(line, s[j])
    BY <1>1 DEF Ordered
  <1>3. ASSUME NEW k \in 0 .. Len(s)
        PROVE  Cardinality({s[i] : i \in 1 .. k}) = k
    <2> DEFINE S == {s[i] : i \in 1 .. k}
               f == [i \in 1 .. k |-> s[i]]
    <2>1. k \in Nat /\ \A i \in 1 .. k : i \in 1 .. Len(s)
      BY <1>1
    <2>2. f \in Surjection(1 .. k, S)
      BY DEF Surjection
    <2>3. f \in Injection(1 .. k, S)
      <3>1. ASSUME NEW i \in 1 .. k, NEW j \in 1 .. k, s[i] = s[j]
            PROVE  i = j
        <4>1. ~(i < j) /\ ~(j < i)
          BY <3>1, <2>1, <1>1, <1>2
        <4> QED BY <4>1
      <3> QED BY <3>1 DEF Injection, IsInjective
    <2>4. IsFiniteSet(1 .. k) /\ Cardinality(1 .. k) = k
      BY <2>1, FS_Interval
    <2> HIDE DEF f, S
    <2>5. Cardinality(S) = Cardinality(1 .. k)
      BY <2>2, <2>3, <2>4, FS_Surjection
    <2> QED BY <2>4, <2>5 DEF S
  <1>4. D = {s[i] : i \in 1 .. Len(s)}
    BY <1>1 DEF Ordered, Range
  <1>5. Cardinality(D) = Len(s)
    <2>1. Len(s) \in 0 .. Len(s)
      BY <1>1
    <2> QED BY <2>1, <1>3, <1>4
  <1>6. ASSUME NEW k \in 1 .. Len(s)
        PROVE  Cardinality(AsNearAs(line, D, s[k])) = k
    <2>1. ASSUME NEW i \in 1 .. Len(s)
          PROVE  Rank(line, s[i]) >= Rank(line, s[k]) <=> i <= k
      <3>1. i < k \/ i = k \/ i > k
        BY <1>1
      <3> QED BY <3>1, <1>1, <1>2
    <2>2. AsNearAs(line, D, s[k]) = {s[i] : i \in 1 .. k}
      <3>1. ASSUME NEW e \in AsNearAs(line, D, s[k]) PROVE e \in {s[i] : i \in 1 .. k}
        <4>1. PICK i \in 1 .. Len(s) : e = s[i]
          BY <1>4 DEF AsNearAs
        <4>2. i \in 1 .. k
          BY <4>1, <2>1, <1>1 DEF AsNearAs
        <4> QED BY <4>1, <4>2
      <3>2. ASSUME NEW i \in 1 .. k PROVE s[i] \in AsNearAs(line, D, s[k])
        <4>1. i \in 1 .. Len(s) /\ i <= k
          BY <1>1
        <4> QED BY <4>1, <2>1, <1>1 DEF AsNearAs
      <3> QED BY <3>1, <3>2
    <2>3. k \in 0 .. Len(s)
      BY <1>1
    <2> QED BY <2>2, <2>3, <1>3
  <1>7. ASSUME NEW k \in 1 .. Len(s)
        PROVE  s[k] = CHOOSE d \in D : Cardinality(AsNearAs(line, D, d)) = k
    <2>1. s[k] \in D /\ Cardinality(AsNearAs(line, D, s[k])) = k
      BY <1>1, <1>6
    <2>2. ASSUME NEW d \in D, Cardinality(AsNearAs(line, D, d)) = k
          PROVE  d = s[k]
      <3>1. PICK m \in 1 .. Len(s) : d = s[m]
        BY <1>4
      <3>2. m = k
        BY <3>1, <2>2, <1>6
      <3> QED BY <3>1, <3>2
    <2> QED BY <2>1, <2>2
  <1>8. s = [k \in 1 .. Len(s) |-> s[k]]
    BY <1>1
  <1> QED BY <1>5, <1>7, <1>8 DEF NearestFirst

-----------------------------------------------------------------------------
(* Merging the themes' directories.                                         *)

\* What theme u has for name n.
KindsOf(tr, u, n) ==
    {kind \in Kinds : IF kind = "app" THEN n \in tr.app[u]
                                      ELSE n \in tr.common[u] \cap tr.common[Base]}

Own(tr, u, n) == {<<u, kind, n>> : kind \in KindsOf(tr, u, n)}

\* What the first k themes of a line have for it.
DirsUpTo(tr, line, k, n) == UNION {Own(tr, line[i], n) : i \in 1 .. k}

LEMMA DirsAlongAre ==
    ASSUME NEW tr, NEW line \in Seq(Themes), NEW n
    PROVE  DirsAlong(tr, line, n) = DirsUpTo(tr, line, Len(line), n)
  <1>1. Range(line) = {line[i] : i \in 1 .. Len(line)}
    BY DEF Range
  <1>2. ASSUME NEW d \in DirsAlong(tr, line, n)
        PROVE  d \in DirsUpTo(tr, line, Len(line), n)
    <2>1. PICK u \in Range(line), kind \in Kinds : d = <<u, kind, n>> /\ kind \in KindsOf(tr, u, n)
      BY DEF DirsAlong, KindsOf, Kinds
    <2>2. PICK i \in 1 .. Len(line) : u = line[i]
      BY <1>1
    <2> QED BY <2>1, <2>2 DEF DirsUpTo, Own
  <1>3. ASSUME NEW d \in DirsUpTo(tr, line, Len(line), n)
        PROVE  d \in DirsAlong(tr, line, n)
    <2>1. PICK i \in 1 .. Len(line) : d \in Own(tr, line[i], n)
      BY DEF DirsUpTo
    <2>2. PICK u \in Range(line) : d \in Own(tr, u, n)
      BY <1>1, <2>1
    <2>3. PICK kind \in KindsOf(tr, u, n) : d = <<u, kind, n>>
      BY <2>2 DEF Own
    <2> QED BY <2>3 DEF DirsAlong, KindsOf, Kinds
  <1> QED BY <1>2, <1>3

\* The ranks along a line are numbers, and grow with the line.
LEMMA RankUpTo ==
    ASSUME NEW tr, NEW line, IsLine(line), NEW k \in 0 .. Len(line), NEW n,
           NEW d \in DirsUpTo(tr, line, k, n)
    PROVE  Rank(line, d) \in Int /\ Rank(line, d) < 2 * (k + 1) /\ d[3] = n
  <1>1. PICK i \in 1 .. k : d \in Own(tr, line[i], n)
    BY DEF DirsUpTo
  <1>2. PICK kind \in Kinds : d = <<line[i], kind, n>>
    BY <1>1 DEF Own, KindsOf
  <1>3. i \in DOMAIN line /\ i \in Nat /\ i <= k /\ k \in Nat
    BY DEF IsLine
  <1>4. Rank(line, d) = 2 * i + IF kind = "app" THEN 1 ELSE 0
    BY <1>2, <1>3, RankIs
  <1>5. d[3] = n
    BY <1>2
  <1> QED BY <1>3, <1>4, <1>5

LEMMA DirsUpToNext ==
    ASSUME NEW tr, NEW line, NEW k \in Nat, NEW n
    PROVE  DirsUpTo(tr, line, k + 1, n) = DirsUpTo(tr, line, k, n) \cup Own(tr, line[k + 1], n)
  <1>1. 1 .. k + 1 = (1 .. k) \cup {k + 1}
    OBVIOUS
  <1> QED BY <1>1 DEF DirsUpTo

\* A list for each of names, of the first k themes' directories.
OrderedUpTo(tr, line, names, k, lists) ==
    /\ lists \in [DOMAIN names -> Seq(Dirs)]
    /\ \A i \in DOMAIN names : Ordered(line, lists[i], DirsUpTo(tr, line, k, names[i]))

\* The lists after each of dirs.
Adds(tr, names, lists, dirs, added) ==
    /\ added \in [0 .. Len(dirs) -> [DOMAIN names -> Seq(Dirs)]]
    /\ added[0] = lists
    /\ \A k \in 1 .. Len(dirs), i \in DOMAIN names :
         added[k][i] =
           IF NameOf(dirs[k]) = names[i]
                /\ (dirs[k][2] = "common" => names[i] \in tr.common[Base] \ IllFormed)
             THEN <<dirs[k]>> \o added[k - 1][i] ELSE added[k - 1][i]
    /\ AddDirs(tr.common[Base] \ IllFormed, names, lists, dirs) = added[Len(dirs)]

LEMMA AddsExist ==
    ASSUME NEW tr, NEW names, NEW lists \in [DOMAIN names -> Seq(Dirs)], NEW dirs \in Seq(Dirs)
    PROVE  \E added : Adds(tr, names, lists, dirs, added)
  <1> DEFINE N == Len(dirs)
             V == [DOMAIN names -> Seq(Dirs)]
             defaultNames == tr.common[Base] \ IllFormed
             OwnDir(i, dir) == NameOf(dir) = names[i] /\ (dir[2] = "common" => names[i] \in defaultNames)
             After(k, v) == [i \in DOMAIN lists |->
                               IF OwnDir(i, dirs[k]) THEN <<dirs[k]>> \o v[i] ELSE v[i]]
             step == [x \in (1 .. N) \X V |-> After(x[1], x[2])]
             added == CHOOSE f : f = [k \in 0 .. N |->
                         IF k = 0 THEN lists
                         ELSE [i \in DOMAIN lists |->
                                 IF OwnDir(i, dirs[k]) THEN <<dirs[k]>> \o f[k - 1][i]
                                                       ELSE f[k - 1][i]]]
  <1>1. N \in Nat /\ DOMAIN lists = DOMAIN names /\ \A k \in 1 .. N : dirs[k] \in Dirs
    OBVIOUS
  <1>2. \A k \in 1 .. N, v \in V : After(k, v) \in V
    <2> SUFFICES ASSUME NEW k \in 1 .. N, NEW v \in V PROVE After(k, v) \in V
      OBVIOUS
    <2>1. dirs[k] \in Dirs
      BY <1>1
    <2>2. ASSUME NEW i \in DOMAIN names
          PROVE  (IF OwnDir(i, dirs[k]) THEN <<dirs[k]>> \o v[i] ELSE v[i]) \in Seq(Dirs)
      <3>1. v[i] \in Seq(Dirs) /\ <<dirs[k]>> \in Seq(Dirs)
        BY <2>1
      <3>2. <<dirs[k]>> \o v[i] \in Seq(Dirs)
        BY <3>1, ConcatProperties
      <3> QED BY <3>1, <3>2
    <2> HIDE DEF OwnDir
    <2> QED BY <2>2, <1>1
  <1> HIDE DEF OwnDir
  <1>3. step \in [(1 .. N) \X V -> V]
    <2> HIDE DEF After, V
    <2> QED BY <1>2
  <1>4. PICK f \in [0 .. N -> V] : Computed(f, N, lists, step)
    <2>1. lists \in V
      OBVIOUS
    <2> HIDE DEF V, step, N
    <2> QED BY <2>1, <1>1, <1>3, Recursion
  <1>5. \A k \in 0 .. N : f[k] = IF k = 0 THEN lists ELSE After(k, f[k - 1])
    <2> SUFFICES ASSUME NEW k \in 0 .. N, k # 0
                 PROVE  f[k] = After(k, f[k - 1])
      BY <1>4 DEF Computed
    <2>1. k \in 1 .. N /\ k - 1 \in 0 .. N
      BY <1>1
    <2>2. f[k] = step[<<k, f[k - 1]>>]
      BY <2>1, <1>4 DEF Computed
    <2>3. <<k, f[k - 1]>> \in (1 .. N) \X V
      BY <2>1
    <2> HIDE DEF V, After
    <2> QED BY <2>2, <2>3
  <1>6. f = [k \in 0 .. N |-> IF k = 0 THEN lists ELSE After(k, f[k - 1])]
    <2> HIDE DEF V, After
    <2> QED BY <1>4, <1>5
  <1>7. added = [k \in 0 .. N |-> IF k = 0 THEN lists ELSE After(k, added[k - 1])]
    BY <1>6, Zenon
  <1>8. AddDirs(defaultNames, names, lists, dirs) = added[N]
    BY DEF AddDirs, OwnDir
  <1> HIDE DEF added, After
  <1>9. added[0] = lists /\ \A k \in 1 .. N : added[k] = After(k, added[k - 1])
    <2>1. 0 \in 0 .. N /\ \A k \in 1 .. N : k \in 0 .. N /\ k # 0
      BY <1>1
    <2> QED BY <2>1, <1>7
  <1>10. \A k \in 0 .. N : added[k] \in V
    <2> DEFINE S == {k \in 0 .. N : added[k] \in V}
    <2>1. 0 \in S
      BY <1>1, <1>9
    <2>2. ASSUME NEW k \in 0 .. N, k < N, k \in S PROVE k + 1 \in S
      <3>1. k + 1 \in 1 .. N /\ k + 1 \in 0 .. N /\ (k + 1) - 1 = k
        BY <1>1, <2>2
      <3>2. added[k + 1] = After(k + 1, added[k])
        BY <3>1, <1>9
      <3> HIDE DEF V
      <3> QED BY <3>1, <3>2, <2>2, <1>2
    <2> HIDE DEF S, N, V
    <2>3. \A k \in 0 .. N : k \in S
      BY <2>1, <2>2, <1>1, Induction
    <2> QED BY <2>3 DEF S
  <1>11. added \in [0 .. N -> V]
    <2>1. added = [k \in 0 .. N |-> added[k]]
      BY <1>7
    <2> HIDE DEF V
    <2> QED BY <2>1, <1>10
  <1>12. \A k \in 1 .. N, i \in DOMAIN names :
            added[k][i] = IF OwnDir(i, dirs[k]) THEN <<dirs[k]>> \o added[k - 1][i]
                                                ELSE added[k - 1][i]
    BY <1>1, <1>9 DEF After
  <1>13. Adds(tr, names, lists, dirs, added)
    BY <1>8, <1>9, <1>11, <1>12 DEF Adds, OwnDir
  <1> QED BY <1>13

\* Adding the next theme of a line to the lists of those before it.
LEMMA AddDirsMerges ==
    ASSUME NEW tr \in TreeType, NEW line, IsLine(line), NEW k \in Nat \ {0}, k + 1 \in DOMAIN line,
           line[k + 1] # Base,
           NEW names, \A i \in DOMAIN names : names[i] \in Names \ IllFormed,
           NEW lists, OrderedUpTo(tr, line, names, k, lists)
    PROVE  OrderedUpTo(tr, line, names, k + 1,
                       AddDirs(tr.common[Base] \ IllFormed, names, lists,
                               getFeedbackDirsOfATheme(tr, line[k + 1])))
  <1> DEFINE u == line[k + 1]
             dirs == getFeedbackDirsOfATheme(tr, u)
             U == CommonDirs(tr, u) \cup AppDirs(tr, u)
  <1>1. u \in Themes /\ u # Base /\ k \in 0 .. Len(line)
    BY DEF IsLine
  <1>2. /\ dirs \in Seq(Dirs) /\ Lists(dirs, U)
        /\ \A i, j \in DOMAIN dirs : i < j /\ dirs[i][2] = "app" => dirs[j][2] = "app"
    BY <1>1, DirsOfATheme
  <1>3. lists \in [DOMAIN names -> Seq(Dirs)]
    BY DEF OrderedUpTo
  <1> HIDE DEF dirs
  <1>4. PICK added : Adds(tr, names, lists, dirs, added)
    BY <1>2, <1>3, AddsExist
  <1>5. Len(dirs) \in Nat /\ DOMAIN dirs = 1 .. Len(dirs)
    BY <1>2
  \* The directories of a name among the first j.
  <1> DEFINE First(j, n) == {d \in Own(tr, u, n) : \E l \in 1 .. j : d = dirs[l]}
             Upto(j, n) == DirsUpTo(tr, line, k, n) \cup First(j, n)
             Good(j) == \A i \in DOMAIN names : Ordered(line, added[j][i], Upto(j, names[i]))
             S == {j \in 0 .. Len(dirs) : Good(j)}
  <1>6. \A i \in DOMAIN names, l \in DOMAIN dirs :
          (/\ NameOf(dirs[l]) = names[i]
           /\ dirs[l][2] = "common" => names[i] \in tr.common[Base] \ IllFormed)
          <=> dirs[l] \in Own(tr, u, names[i])
    <2> SUFFICES ASSUME NEW i \in DOMAIN names, NEW l \in DOMAIN dirs
                 PROVE  (/\ NameOf(dirs[l]) = names[i]
                         /\ dirs[l][2] = "common" => names[i] \in tr.common[Base] \ IllFormed)
                        <=> dirs[l] \in Own(tr, u, names[i])
      OBVIOUS
    <2>1. dirs[l] \in U /\ names[i] \notin IllFormed
      BY <1>2 DEF Lists, Range
    <2>2. PICK kind, n : /\ kind \in Kinds /\ dirs[l] = <<u, kind, n>>
                         /\ kind = "common" => n \in tr.common[u]
                         /\ kind = "app" => n \in tr.app[u]
      BY <2>1 DEF CommonDirs, AppDirs, DirsOf, Kinds
    <2>3. NameOf(dirs[l]) = n /\ dirs[l][2] = kind
      BY <2>2 DEF NameOf
    <2>4. dirs[l] \in Own(tr, u, names[i]) <=> n = names[i] /\ kind \in KindsOf(tr, u, n)
      BY <2>2 DEF Own, KindsOf
    <2>5. kind = "common" \/ kind = "app"
      BY <2>2 DEF Kinds
    <2> HIDE DEF u, U
    <2> QED BY <2>1, <2>2, <2>3, <2>4, <2>5 DEF KindsOf, Kinds
  <1>7. 0 \in S
    <2>1. \A n : First(0, n) = {}
      OBVIOUS
    <2>2. added[0] = lists
      BY <1>4 DEF Adds
    <2>3. Good(0)
      BY <2>1, <2>2 DEF OrderedUpTo
    <2> HIDE DEF Good
    <2> QED BY <2>3, <1>5
  <1>8. ASSUME NEW j \in 0 .. Len(dirs), j < Len(dirs), j \in S
        PROVE  j + 1 \in S
    <2>1. j + 1 \in 1 .. Len(dirs) /\ j + 1 \in 0 .. Len(dirs) /\ j + 1 \in DOMAIN dirs
          /\ (j + 1) - 1 = j
      BY <1>5, <1>8
    <2> DEFINE d == dirs[j + 1]
    <2>2. d \in U /\ d \in Dirs
      BY <2>1, <1>2, <1>5 DEF Lists, Range
    <2>3. ASSUME NEW i \in DOMAIN names
          PROVE  Ordered(line, added[j + 1][i], Upto(j + 1, names[i]))
      <3> DEFINE n == names[i]
      <3>1. added[j + 1][i] = IF d \in Own(tr, u, n) THEN <<d>> \o added[j][i] ELSE added[j][i]
        BY <2>1, <1>4, <1>6 DEF Adds
      <3>2. Ordered(line, added[j][i], Upto(j, n))
        BY <1>8
      <3>3. 1 .. j + 1 = (1 .. j) \cup {j + 1}
        BY <1>8
      <3>4. First(j + 1, n) = First(j, n) \cup {e \in Own(tr, u, n) : e = d}
        BY <3>3
      <3>5. CASE d \notin Own(tr, u, n)
        <4>1. Upto(j + 1, n) = Upto(j, n)
          BY <3>4, <3>5
        <4> HIDE DEF Upto, d
        <4> QED BY <3>1, <3>2, <3>5, <4>1
      <3>6. CASE d \in Own(tr, u, n)
        <4>1. Upto(j + 1, n) = {d} \cup Upto(j, n)
          BY <3>4, <3>6
        <4>2. PICK kind \in Kinds : d = <<u, kind, n>>
          BY <3>6 DEF Own, KindsOf
        <4>3. Rank(line, d) = 2 * (k + 1) + IF kind = "app" THEN 1 ELSE 0
          <5>1. Rank(line, <<line[k + 1], kind, n>>) = 2 * (k + 1) + IF kind = "app" THEN 1 ELSE 0
            BY RankIs
          <5> QED BY <5>1, <4>2
        <4>4. ASSUME NEW e \in DirsUpTo(tr, line, k, n)
              PROVE  Rank(line, d) > Rank(line, e)
          <5>1. Rank(line, e) \in Int /\ Rank(line, e) < 2 * (k + 1)
            BY <4>4, <1>1, RankUpTo
          <5> HIDE DEF d
          <5> QED BY <5>1, <4>3
        <4>5. ASSUME NEW e \in First(j, n)
              PROVE  Rank(line, d) > Rank(line, e)
          <5>1. PICK l \in 1 .. j : e = dirs[l]
            OBVIOUS
          <5>2. l \in DOMAIN dirs /\ l < j + 1
            BY <1>5, <1>8
          <5>3. PICK other \in Kinds : e = <<u, other, n>>
            BY DEF Own, KindsOf
          <5>4. e # d
            BY <5>1, <5>2, <2>1, <1>2 DEF Lists, IsInjective
          <5>5. other = "app" => kind = "app"
            <6>1. e[2] = other /\ d[2] = kind
              BY <4>2, <5>3
            <6> QED BY <6>1, <5>1, <5>2, <2>1, <1>2
          <5>6. other = "common" /\ kind = "app"
            BY <5>3, <5>4, <5>5, <4>2 DEF Kinds
          <5>7. Rank(line, <<line[k + 1], other, n>>) = 2 * (k + 1) + IF other = "app" THEN 1 ELSE 0
            BY RankIs
          <5>8. Rank(line, e) = 2 * (k + 1) /\ Rank(line, d) = 2 * (k + 1) + 1
            BY <4>3, <5>3, <5>6, <5>7
          <5> HIDE DEF d
          <5> QED BY <5>8
        <4>6. \A e \in Upto(j, n) : Rank(line, d) > Rank(line, e)
          BY <4>4, <4>5
        <4> HIDE DEF Upto, d
        <4>7. Ordered(line, <<d>> \o added[j][i], {d} \cup Upto(j, n))
          BY <3>2, <4>6, <2>2, PrependOrdered
        <4> QED BY <3>1, <3>6, <4>1, <4>7
      <3> QED BY <3>5, <3>6
    <2> HIDE DEF Upto
    <2> QED BY <2>1, <2>3
  <1>9. Good(Len(dirs))
    <2> HIDE DEF S
    <2>1. \A j \in 0 .. Len(dirs) : j \in S
      BY <1>5, <1>7, <1>8, Induction
    <2>2. Len(dirs) \in S
      BY <2>1, <1>5
    <2> QED BY <2>2 DEF S
  <1>10. ASSUME NEW i \in DOMAIN names
         PROVE  Upto(Len(dirs), names[i]) = DirsUpTo(tr, line, k + 1, names[i])
    <2>1. Own(tr, u, names[i]) \subseteq U
      <3>1. names[i] \notin IllFormed
        OBVIOUS
      <3> QED BY <3>1 DEF Own, KindsOf, Kinds, CommonDirs, AppDirs, DirsOf
    <2>2. \A d \in U : \E l \in 1 .. Len(dirs) : d = dirs[l]
      BY <1>2, <1>5 DEF Lists, Range
    <2>3. First(Len(dirs), names[i]) = Own(tr, u, names[i])
      <3> HIDE DEF U, u
      <3> QED BY <2>1, <2>2
    <2> QED BY <2>3, DirsUpToNext
  <1>11. AddDirs(tr.common[Base] \ IllFormed, names, lists, dirs) = added[Len(dirs)]
    BY <1>4 DEF Adds
  <1>12. added[Len(dirs)] \in [DOMAIN names -> Seq(Dirs)]
    <2>1. Len(dirs) \in 0 .. Len(dirs)
      BY <1>5
    <2> QED BY <2>1, <1>4 DEF Adds
  <1> HIDE DEF Upto
  <1>13. OrderedUpTo(tr, line, names, k + 1, added[Len(dirs)])
    BY <1>9, <1>10, <1>12 DEF OrderedUpTo
  <1> QED BY <1>11, <1>13 DEF dirs

\* The names told to clients.
LEMMA NamesAre ==
    ASSUME NEW tr \in TreeType
    PROVE  LET names == getFeedbackNames(tr)
           IN /\ names \in Seq(Names \ IllFormed)
              /\ IsInjective(names) /\ Range(names) = FeedbackNames(tr)
              /\ DOMAIN names = DOMAIN getFeedbackDirsOfATheme(tr, Base)
  <1> DEFINE f == getFeedbackDirsOfATheme(tr, Base)
             names == getFeedbackNames(tr)
  <1>1. names = [i \in DOMAIN f |-> f[i][3]]
    BY DEF getFeedbackNames, NameOf
  <1>2. f \in Seq(Dirs) /\ IsInjective(names) /\ Range(names) = FeedbackNames(tr)
    BY <1>1, DirsOfBase
  <1> HIDE DEF f, names
  <1>3. Len(f) \in Nat /\ DOMAIN f = 1 .. Len(f) /\ \A i \in 1 .. Len(f) : f[i] \in Dirs
    BY <1>2
  <1>4. \A i \in 1 .. Len(f) : f[i][3] \in Names \ IllFormed
    BY <1>3 DEF Dirs
  <1>5. names \in [1 .. Len(f) -> Names \ IllFormed]
    BY <1>1, <1>3, <1>4
  <1>6. names \in Seq(Names \ IllFormed)
    BY <1>3, <1>5
  <1> QED BY <1>1, <1>2, <1>6 DEF f, names

\* The base theme's own lists.
LEMMA BaseLists ==
    ASSUME NEW tr \in TreeType, NEW line, IsLine(line), line # <<>>, line[1] = Base
    PROVE  OrderedUpTo(tr, line, getFeedbackNames(tr), 1, BaseDirLists(tr))
  <1> DEFINE d == getFeedbackDirsFromPath(tr.common[Base], Base, "common")
             f == getFeedbackDirsOfATheme(tr, Base)
             names == getFeedbackNames(tr)
             lists == BaseDirLists(tr)
  <1>1. /\ f \in Seq(Dirs) /\ d \in Seq(Dirs) /\ Len(d) <= Len(f)
        /\ \A i \in 1 .. Len(f) :
             f[i] = <<Base, IF f[i][3] \in tr.app[Base] THEN "app" ELSE "common", f[i][3]>>
        /\ \A i \in 1 .. Len(d) :
             d[i] = <<Base, "common", f[i][3]>> /\ f[i][3] \in tr.common[Base]
        /\ \A i \in 1 .. Len(f) : i > Len(d) => f[i][3] \notin tr.common[Base]
    BY DirsOfBase
  <1>2. names = [i \in DOMAIN f |-> f[i][3]] /\ Range(names) = FeedbackNames(tr)
    BY NamesAre DEF getFeedbackNames, NameOf
  <1>3. lists = [i \in DOMAIN f |-> IF i <= Len(d) /\ d[i] # f[i] THEN <<f[i], d[i]>> ELSE <<f[i]>>]
    BY DEF BaseDirLists
  <1> HIDE DEF d, f, names, lists
  <1>4. Len(d) \in Nat /\ Len(f) \in Nat /\ DOMAIN d = 1 .. Len(d) /\ DOMAIN f = 1 .. Len(f)
    BY <1>1
  <1>5. 1 \in DOMAIN line /\ line \in Seq(Themes) /\ IsInjective(line)
    BY DEF IsLine
  <1>6. \A n : Rank(line, <<Base, "app", n>>) = 3 /\ Rank(line, <<Base, "common", n>>) = 2
    <2>1. \A n, kind : Rank(line, <<line[1], kind, n>>) = 2 * 1 + IF kind = "app" THEN 1 ELSE 0
      BY <1>5, RankIs
    <2> QED BY <2>1
  <1>7. ASSUME NEW i \in DOMAIN f
        PROVE  Ordered(line, lists[i], DirsUpTo(tr, line, 1, names[i]))
    <2> DEFINE n == f[i][3]
               app == <<Base, "app", n>>
               common == <<Base, "common", n>>
    <2>1. names[i] = n /\ n \in FeedbackNames(tr) /\ i \in 1 .. Len(f)
      BY <1>2, <1>4 DEF Range
    <2>2. DirsUpTo(tr, line, 1, n) = Own(tr, Base, n)
      <3>1. 1 .. 1 = {1}
        OBVIOUS
      <3> QED BY <3>1 DEF DirsUpTo
    <2>3. f[i] = IF n \in tr.app[Base] THEN app ELSE common
      BY <1>1, <2>1
    <2>4. i <= Len(d) <=> n \in tr.common[Base]
      <3>1. i <= Len(d) => i \in 1 .. Len(d)
        BY <1>4
      <3> QED BY <3>1, <1>1, <1>4, <2>1
    <2>5. i <= Len(d) => d[i] = common
      <3>1. i <= Len(d) => i \in 1 .. Len(d)
        BY <1>4
      <3> QED BY <3>1, <1>1
    <2>6. n \in tr.common[Base] \/ n \in tr.app[Base]
      BY <2>1 DEF FeedbackNames
    <2>7. f[i] \in Dirs /\ (i <= Len(d) => d[i] \in Dirs)
      <3>1. i <= Len(d) => i \in 1 .. Len(d)
        BY <1>4
      <3> QED BY <3>1, <1>1, <2>1
    <2>8. app # common
      OBVIOUS
    <2>9. lists[i] = IF i <= Len(d) /\ d[i] # f[i] THEN <<f[i], d[i]>> ELSE <<f[i]>>
      BY <1>3
    <2>10. Own(tr, Base, n) = {e \in {app, common} : IF e = app THEN n \in tr.app[Base]
                                                             ELSE n \in tr.common[Base]}
      BY <2>8 DEF Own, KindsOf, Kinds
    <2>11. Rank(line, app) = 3 /\ Rank(line, common) = 2
      BY <1>6
    <2> HIDE DEF app, common, n
    <2>12. ASSUME NEW e \in Dirs
           PROVE  Ordered(line, <<e>>, {e})
      <3>1. <<e>> \in Seq(Dirs) /\ Len(<<e>>) = 1 /\ <<e>>[1] = e /\ DOMAIN <<e>> = 1 .. 1
        OBVIOUS
      <3>2. Range(<<e>>) = {e}
        BY <3>1 DEF Range
      <3> QED BY <3>1, <3>2 DEF Ordered
    <2>13. CASE n \in tr.app[Base] /\ n \in tr.common[Base]
      <3>1. lists[i] = <<app, common>> /\ app \in Dirs /\ common \in Dirs
        BY <2>13, <2>3, <2>4, <2>5, <2>7, <2>8, <2>9
      <3>2. Ordered(line, <<common>>, {common})
        BY <3>1, <2>12
      <3>3. Ordered(line, <<app>> \o <<common>>, {app} \cup {common})
        BY <3>1, <3>2, <2>11, PrependOrdered
      <3>4. <<app>> \o <<common>> = <<app, common>>
        BY <3>1, TwoElements
      <3>5. Own(tr, Base, n) = {app} \cup {common}
        BY <2>10, <2>13, <2>8
      <3> QED BY <3>1, <3>3, <3>4, <3>5, <2>1, <2>2
    <2>14. CASE n \in tr.app[Base] /\ n \notin tr.common[Base]
      <3>1. lists[i] = <<app>> /\ app \in Dirs
        BY <2>14, <2>3, <2>4, <2>7, <2>9
      <3>2. Own(tr, Base, n) = {app}
        BY <2>10, <2>14, <2>8
      <3> QED BY <3>1, <3>2, <2>1, <2>2, <2>12
    <2>15. CASE n \notin tr.app[Base]
      <3>1. lists[i] = <<common>> /\ common \in Dirs
        BY <2>15, <2>3, <2>4, <2>5, <2>6, <2>7, <2>9
      <3>2. Own(tr, Base, n) = {common}
        BY <2>10, <2>15, <2>6, <2>8
      <3> QED BY <3>1, <3>2, <2>1, <2>2, <2>12
    <2> QED BY <2>13, <2>14, <2>15
  <1>8. DOMAIN names = DOMAIN f
    BY <1>2
  <1>9. lists \in [DOMAIN names -> Seq(Dirs)]
    <2>1. \A i \in DOMAIN f : lists[i] \in Seq(Dirs)
      BY <1>7 DEF Ordered
    <2> QED BY <2>1, <1>3, <1>8
  <1>10. OrderedUpTo(tr, line, names, 1, lists)
    BY <1>7, <1>8, <1>9 DEF OrderedUpTo
  <1> QED BY <1>10 DEF names, lists

\* The lists after each theme of a line, before the fallbacks.
Merged(tr, line, lists) ==
    /\ \A k \in 1 .. Len(line) : OrderedUpTo(tr, line, getFeedbackNames(tr), k, lists[k])
    /\ FeedbackDirLists(tr, line) = findFeedbackFallbackPaths(getFeedbackNames(tr), lists[Len(line)])

LEMMA MergedExist ==
    ASSUME NEW tr \in TreeType, NEW line, IsLine(line), line # <<>>, line[1] = Base
    PROVE  \E lists : Merged(tr, line, lists)
  <1> DEFINE names == getFeedbackNames(tr)
             N == Len(line)
             V == [DOMAIN names -> Seq(Dirs)]
             dirs(k) == getFeedbackDirsOfATheme(tr, line[k])
             defaultNames == tr.common[Base] \ IllFormed
             After(k, v) == AddDirs(defaultNames, names, v, dirs(k))
             step == [x \in (1 .. N - 1) \X V |-> After(x[1] + 1, x[2])]
             lists == CHOOSE g : g = [k \in 1 .. N |->
                         IF k = 1 THEN BaseDirLists(tr)
                         ELSE AddDirs(defaultNames, names, g[k - 1], dirs(k))]
  <1>1. /\ N \in Nat \ {0} /\ DOMAIN line = 1 .. N /\ IsInjective(line)
        /\ \A k \in 1 .. N : line[k] \in Themes
    BY DEF IsLine
  <1>2. \A k \in 1 .. N : k # 1 => line[k] # Base
    <2>1. 1 \in DOMAIN line
      BY <1>1
    <2> QED BY <2>1, <1>1 DEF IsInjective
  <1>3. \A k \in 1 .. N, v \in V : k # 1 => After(k, v) \in V
    <2> SUFFICES ASSUME NEW k \in 1 .. N, NEW v \in V, k # 1 PROVE After(k, v) \in V
      OBVIOUS
    <2>1. dirs(k) \in Seq(Dirs)
      BY <1>1, <1>2, DirsOfATheme
    <2> HIDE DEF dirs, names
    <2>2. PICK added : Adds(tr, names, v, dirs(k), added)
      BY <2>1, AddsExist
    <2>3. Len(dirs(k)) \in 0 .. Len(dirs(k))
      BY <2>1
    <2>4. added[Len(dirs(k))] \in V
      BY <2>2, <2>3 DEF Adds
    <2>5. After(k, v) = added[Len(dirs(k))]
      BY <2>2 DEF Adds
    <2> HIDE DEF V, After
    <2> QED BY <2>4, <2>5
  <1>4. \A i \in DOMAIN names : names[i] \in Names \ IllFormed
    BY NamesAre
  <1> HIDE DEF After, names
  <1>5. step \in [(1 .. N - 1) \X V -> V]
    <2>1. \A x \in (1 .. N - 1) \X V : x[1] + 1 \in 1 .. N /\ x[1] + 1 # 1 /\ x[2] \in V
      BY <1>1
    <2> HIDE DEF V, N
    <2> QED BY <2>1, <1>3
  <1>6. BaseDirLists(tr) \in V
    BY BaseLists DEF OrderedUpTo, names
  <1>7. PICK f \in [0 .. N - 1 -> V] : Computed(f, N - 1, BaseDirLists(tr), step)
    <2>1. N - 1 \in Nat
      BY <1>1
    <2> HIDE DEF V, step, N
    <2> QED BY <2>1, <1>5, <1>6, Recursion
  <1> DEFINE g == [k \in 1 .. N |-> f[k - 1]]
  <1>8. \A k \in 1 .. N : g[k] = IF k = 1 THEN BaseDirLists(tr) ELSE After(k, g[k - 1])
    <2> SUFFICES ASSUME NEW k \in 1 .. N
                 PROVE  g[k] = IF k = 1 THEN BaseDirLists(tr) ELSE After(k, g[k - 1])
      OBVIOUS
    <2>1. CASE k = 1
      BY <2>1, <1>1, <1>7 DEF Computed
    <2>2. CASE k # 1
      <3>1. k - 1 \in 1 .. N - 1 /\ k - 1 \in 1 .. N /\ (k - 1) - 1 \in 0 .. N - 1 /\ (k - 1) + 1 = k
        BY <2>2, <1>1
      <3>2. f[k - 1] = step[<<k - 1, f[(k - 1) - 1]>>]
        BY <3>1, <1>7 DEF Computed
      <3>3. <<k - 1, f[(k - 1) - 1]>> \in (1 .. N - 1) \X V
        BY <3>1
      <3>4. f[k - 1] = After(k, f[(k - 1) - 1])
        <4> HIDE DEF V
        <4> QED BY <3>1, <3>2, <3>3
      <3>5. g[k] = f[k - 1] /\ g[k - 1] = f[(k - 1) - 1]
        BY <3>1
      <3> QED BY <3>4, <3>5, <2>2
    <2> QED BY <2>1, <2>2
  <1>9. g = [k \in 1 .. N |-> IF k = 1 THEN BaseDirLists(tr) ELSE After(k, g[k - 1])]
    <2>1. g = [k \in 1 .. N |-> g[k]]
      OBVIOUS
    <2> HIDE DEF g
    <2> QED BY <2>1, <1>8
  <1> HIDE DEF g
  <1>10. lists = [k \in 1 .. N |-> IF k = 1 THEN BaseDirLists(tr) ELSE After(k, lists[k - 1])]
    BY <1>9, Zenon DEF After
  <1>11. FeedbackDirLists(tr, line) = findFeedbackFallbackPaths(names, lists[N])
    BY DEF FeedbackDirLists, names
  <1> HIDE DEF lists
  <1>s. \A k \in 1 .. N : k # 1 => lists[k] = After(k, lists[k - 1])
    BY <1>10
  <1> DEFINE Good(k) == OrderedUpTo(tr, line, names, k, lists[k])
             S == {k \in 0 .. N : k # 0 => Good(k)}
  <1>12. 0 \in S
    BY <1>1
  <1>13. ASSUME NEW k \in 0 .. N, k < N, k \in S PROVE k + 1 \in S
    <2>1. k + 1 \in 1 .. N /\ k + 1 \in 0 .. N /\ (k + 1) - 1 = k
      BY <1>1, <1>13
    <2>2. CASE k = 0
      <3>1. lists[k + 1] = BaseDirLists(tr) /\ k + 1 = 1
        BY <2>1, <2>2, <1>10
      <3>2. Good(1)
        BY <3>1, BaseLists DEF names
      <3> QED BY <3>1, <3>2, <2>1
    <2>3. CASE k # 0
      <3>1. k \in Nat \ {0} /\ k + 1 \in DOMAIN line /\ line[k + 1] # Base
        BY <2>1, <2>3, <1>1, <1>2
      <3>2. Good(k)
        BY <1>13, <2>3
      <3>3. lists[k + 1] = AddDirs(defaultNames, names, lists[k], dirs(k + 1))
        <4>1. lists[k + 1] = After(k + 1, lists[k])
          BY <2>1, <3>1, <1>s
        <4> QED BY <4>1 DEF After
      <3>4. OrderedUpTo(tr, line, names, k + 1, AddDirs(defaultNames, names, lists[k], dirs(k + 1)))
        BY <3>1, <3>2, <1>4, AddDirsMerges
      <3> QED BY <3>3, <3>4, <2>1
    <2> QED BY <2>2, <2>3
  <1> HIDE DEF S
  <1>14. \A k \in 0 .. N : k \in S
    BY <1>1, <1>12, <1>13, Induction
  <1>15. \A k \in 1 .. N : Good(k)
    <2>1. \A k \in 1 .. N : k \in 0 .. N /\ k # 0
      BY <1>1
    <2> QED BY <2>1, <1>14 DEF S
  <1>16. Merged(tr, line, lists)
    BY <1>11, <1>15 DEF Merged, names
  <1> QED BY <1>16

\* The directories of a feedback's name that the base theme has.
LEMMA HasDirs ==
    ASSUME NEW tr \in TreeType, NEW line, IsLine(line), line # <<>>, line[1] = Base,
           NEW n \in FeedbackNames(tr), NEW k \in Nat \ {0}
    PROVE  DirsUpTo(tr, line, k, n) # {}
  <1>1. n \in tr.app[Base] \/ n \in tr.common[Base] \cap tr.common[Base]
    BY DEF FeedbackNames
  <1>2. \E kind \in Kinds : kind \in KindsOf(tr, Base, n)
    BY <1>1 DEF KindsOf, Kinds
  <1>3. \E d : d \in Own(tr, Base, n)
    BY <1>2 DEF Own
  <1>4. 1 \in 1 .. k
    OBVIOUS
  <1> QED BY <1>3, <1>4 DEF DirsUpTo

\* A list that is not empty, of directories of one name.
ListOf(s, n) == s \in Seq(Dirs) \ {<<>>} /\ s[1] \in Dirs /\ NameOf(s[1]) = n

\* The lists of a theme are those of the best directories of each of the base theme's names.
LEMMA ListsAreBest ==
    ASSUME NEW tr \in TreeType, NEW theme \in Themes,
           ThemeDirs(tr, theme) # <<>>, ~Endless(ThemeDirs(tr, theme))
    PROVE  LET lists == FeedbackDirLists(tr, ThemeDirs(tr, theme))
               names == getFeedbackNames(tr)
           IN /\ DOMAIN lists = DOMAIN names
              /\ \A i \in DOMAIN names : /\ lists[i] = Best(tr, theme, names[i])
                                         /\ ListOf(lists[i], names[i])
              /\ names = <<>> => lists = <<>>
              /\ lists = <<>> => names = <<>>
  <1> DEFINE line == ThemeDirs(tr, theme)
             names == getFeedbackNames(tr)
             final == FeedbackDirLists(tr, line)
  <1>1. /\ line = Lineage(tr, theme) /\ line \in Seq(tr.installed) /\ Len(line) \in Nat \ {0}
        /\ DOMAIN line = 1 .. Len(line) /\ line[1] = Base /\ IsInjective(line) /\ line # <<>>
    BY ThemeDirsAre
  <1> HIDE DEF line
  <1>2. line \in Seq(Themes)
    <2>1. tr.installed \in SUBSET Themes
      BY TreeFacts
    <2> QED BY <2>1, <1>1
  <1>3. IsLine(line)
    BY <1>1, <1>2 DEF IsLine
  <1>4. PICK merged : Merged(tr, line, merged)
    BY <1>1, <1>3, MergedExist
  <1> DEFINE lists == merged[Len(line)]
  <1>5. OrderedUpTo(tr, line, names, Len(line), lists) /\ final = findFeedbackFallbackPaths(names, lists)
    <2>1. Len(line) \in 1 .. Len(line)
      BY <1>1
    <2> QED BY <2>1, <1>4 DEF Merged
  <1>6. names \in Seq(Names \ IllFormed) /\ IsInjective(names) /\ Range(names) = FeedbackNames(tr)
    BY NamesAre
  <1> HIDE DEF names, final, lists
  <1>7. ASSUME NEW i \in DOMAIN names
        PROVE  lists[i] = Nearest(tr, theme, names[i]) /\ ListOf(lists[i], names[i])
    <2> DEFINE n == names[i]
               D == DirsUpTo(tr, line, Len(line), n)
    <2>1. Ordered(line, lists[i], D) /\ n \in FeedbackNames(tr)
      BY <1>5, <1>6 DEF OrderedUpTo, Range
    <2>2. DirsAlong(tr, line, n) = D
      BY <1>2, DirsAlongAre
    <2>3. \A d \in D : Rank(line, d) \in Int /\ d[3] = n
      <3>1. Len(line) \in 0 .. Len(line)
        BY <1>1
      <3> QED BY <3>1, <1>3, RankUpTo
    <2>4. D # {}
      BY <2>1, <1>1, <1>3, HasDirs
    <2> HIDE DEF D, n
    <2>5. lists[i] = NearestFirst(line, D)
      BY <2>1, <2>3, OrderedIsNearest
    <2>6. Nearest(tr, theme, n) = NearestFirst(line, D)
      BY <2>2, <1>1, NearestIs
    <2>7. lists[i] \in Seq(Dirs) /\ Range(lists[i]) = D
      BY <2>1 DEF Ordered
    <2>8. lists[i] # <<>> /\ 1 \in DOMAIN lists[i]
      BY <2>4, <2>7 DEF Range
    <2>9. lists[i][1] \in D /\ lists[i][1] \in Dirs
      BY <2>7, <2>8 DEF Range
    <2>10. NameOf(lists[i][1]) = n
      BY <2>9, <2>3 DEF NameOf
    <2> QED BY <2>5, <2>6, <2>7, <2>8, <2>9, <2>10 DEF ListOf, n
  <1>8. DOMAIN lists = DOMAIN names /\ DOMAIN final = DOMAIN names
    BY <1>5 DEF OrderedUpTo, findFeedbackFallbackPaths
  <1>9. ASSUME NEW i \in DOMAIN names
        PROVE  final[i] = Best(tr, theme, names[i]) /\ ListOf(final[i], names[i])
    <2> DEFINE n == names[i]
               same == {j \in DOMAIN names : names[j] = FallbackName[n]}
    <2>1. final[i] = IF same = {} THEN lists[i] ELSE lists[i] \o lists[CHOOSE j \in same : TRUE]
      BY <1>5, <1>8 DEF findFeedbackFallbackPaths
    <2>2. same = {} <=> FallbackName[n] \notin FeedbackNames(tr)
      <3>1. FeedbackNames(tr) = {names[j] : j \in DOMAIN names}
        BY <1>6 DEF Range
      <3> QED BY <3>1
    <2>3. CASE same = {}
      BY <2>1, <2>2, <2>3, <1>7 DEF Best
    <2>4. CASE same # {}
      <3>1. PICK j \in same : j = CHOOSE l \in same : TRUE
        BY <2>4
      <3>2. j \in DOMAIN names /\ names[j] = FallbackName[n]
        BY <3>1
      <3>3. lists[j] = Nearest(tr, theme, FallbackName[n]) /\ lists[j] \in Seq(Dirs)
        BY <3>2, <1>7 DEF ListOf
      <3>4. lists[i] = Nearest(tr, theme, n) /\ lists[i] \in Seq(Dirs) \ {<<>>}
        BY <1>7 DEF ListOf
      <3>5. final[i] = lists[i] \o lists[j]
        BY <2>1, <2>4, <3>1
      <3>6. final[i] = Best(tr, theme, n)
        BY <2>2, <2>4, <3>3, <3>4, <3>5 DEF Best
      <3>7. /\ final[i] \in Seq(Dirs) /\ final[i] # <<>> /\ final[i][1] = lists[i][1]
        <4> HIDE DEF n, same
        <4>1. PICK a \in Nat, b \in Nat : Len(lists[i]) = a /\ Len(lists[j]) = b /\ a # 0
          BY <3>3, <3>4
        <4>2. /\ final[i] \in Seq(Dirs) /\ Len(final[i]) = Len(lists[i]) + Len(lists[j])
              /\ \A k \in 1 .. Len(lists[i]) + Len(lists[j]) :
                    final[i][k] = IF k <= Len(lists[i]) THEN lists[i][k] ELSE lists[j][k - Len(lists[i])]
          BY <3>3, <3>4, <3>5, ConcatProperties
        <4>3. 1 \in 1 .. Len(lists[i]) + Len(lists[j]) /\ 1 <= Len(lists[i])
          BY <4>1
        <4> QED BY <4>1, <4>2, <4>3
      <3>8. ListOf(lists[i], n)
        BY <1>7
      <3>9. ListOf(final[i], n)
        BY <3>7, <3>8 DEF ListOf
      <3> QED BY <3>6, <3>9
    <2> QED BY <2>3, <2>4
  <1>10. names = <<>> <=> final = <<>>
    <2>1. names = <<>> => DOMAIN final = {}
      BY <1>8
    <2>2. final = <<>> => DOMAIN names = {}
      BY <1>8
    <2>3. DOMAIN final = {} => final = <<>>
      <3>1. final = [i \in DOMAIN lists |->
               LET same == {j \in DOMAIN names : names[j] = FallbackName[names[i]]}
               IN IF same = {} THEN lists[i] ELSE lists[i] \o lists[CHOOSE j \in same : TRUE]]
        BY <1>5 DEF findFeedbackFallbackPaths
      <3>2. final = [i \in DOMAIN final |-> final[i]]
        BY <3>1
      <3> SUFFICES ASSUME DOMAIN final = {} PROVE final = <<>>
        OBVIOUS
      <3> QED BY <3>2
    <2>4. DOMAIN names = {} => names = <<>>
      BY <1>6
    <2> QED BY <2>1, <2>2, <2>3, <2>4
  <1> QED BY <1>8, <1>9, <1>10 DEF names, final, line

-----------------------------------------------------------------------------
(* The session.                                                             *)

\* lists has one list for each feedback name of the tree, the best one for theme.
Serve(tr, theme, lists) ==
    /\ \A i \in DOMAIN lists : ListName(lists[i]) \in FeedbackNames(tr)
    /\ \A n \in FeedbackNames(tr) :
         \E i \in DOMAIN lists : ListName(lists[i]) = n
    /\ \A n \in FeedbackNames(tr), i \in DOMAIN lists :
         ListName(lists[i]) = n => lists[i] = Best(tr, theme, n) /\ lists[i] \in Seq(Dirs) \ {<<>>}

LEMMA ListsServe ==
    ASSUME NEW tr \in TreeType, NEW theme \in Themes,
           ThemeDirs(tr, theme) # <<>>, ~Endless(ThemeDirs(tr, theme))
    PROVE  Serve(tr, theme, FeedbackDirLists(tr, ThemeDirs(tr, theme)))
  <1> DEFINE lists == FeedbackDirLists(tr, ThemeDirs(tr, theme))
             names == getFeedbackNames(tr)
  <1>1. /\ DOMAIN lists = DOMAIN names
        /\ \A i \in DOMAIN names : lists[i] = Best(tr, theme, names[i]) /\ ListOf(lists[i], names[i])
    BY ListsAreBest
  <1>2. IsInjective(names) /\ FeedbackNames(tr) = {names[i] : i \in DOMAIN names}
    BY NamesAre DEF Range
  <1> HIDE DEF lists, names
  <1>3. \A i \in DOMAIN names : ListName(lists[i]) = names[i] /\ lists[i] \in Seq(Dirs) \ {<<>>}
    BY <1>1 DEF ListOf, ListName
  <1> QED BY <1>1, <1>2, <1>3 DEF Serve, lists

LEMMA NoListNoName ==
    ASSUME NEW tr \in TreeType, NEW theme \in Themes,
           ThemeDirs(tr, theme) # <<>>, ~Endless(ThemeDirs(tr, theme)),
           FeedbackDirLists(tr, ThemeDirs(tr, theme)) = <<>>
    PROVE  FeedbackNames(tr) = {}
  <1>1. getFeedbackNames(tr) = <<>>
    BY ListsAreBest
  <1>2. FeedbackNames(tr) = Range(getFeedbackNames(tr))
    BY NamesAre
  <1> QED BY <1>1, <1>2 DEF Range

\* The last theme change posted is the one to the current theme.
PostedLast ==
    /\ session = "none" => posted = <<>>
    /\ posted # <<>> => posted[Len(posted)] = currentThemeName

\* The session knows the feedbacks of the tree it was set up from.
KnowsNames == session = "ready" => DOMAIN feedbackHash = FeedbackNames(firstRead)

HashCurrent ==
    session = "ready" /\ posted = <<>> =>
      \A n \in DOMAIN feedbackHash \cap FeedbackNames(lastRead) :
          feedbackHash[n] = Best(lastRead, currentThemeName, n)

\* What holds between any two steps.
SessionInv == TypeOK /\ PostedLast /\ KnowsNames /\ HashCurrent /\ StopsForCause

\* What stops the session is in the tree.
Cause(tr, s) ==
    /\ s = "aborted" => Base \notin tr.installed \/ FeedbackNames(tr) = {}
    /\ s = "endless" => Circles(tr) # {}

LEMMA CauseIs == StopsForCause <=> Cause(tree, session)
  BY DEF StopsForCause, Cause, Circles

LEMMA CauseNextIs == StopsForCause' <=> Cause(tree', session')
  BY DEF StopsForCause, Cause, Circles, FeedbackNames

LEMMA InitSession == Init => SessionInv
  <1> SUFFICES ASSUME Init PROVE SessionInv
    OBVIOUS
  <1> USE DEF Init
  <1>1. tree \in TreeType
    BY ThemingAssumption
  <1>2. TypeOK
    <2>1. DOMAIN feedbackHash = {} /\ posted \in Seq(Themes) /\ changes \in 0 .. MaxChanges
      BY ThemingAssumption
    <2> QED BY <1>1, <2>1 DEF TypeOK
  <1>3. PostedLast /\ KnowsNames /\ HashCurrent
    BY DEF PostedLast, KnowsNames, HashCurrent
  <1>4. StopsForCause
    BY DEF StopsForCause
  <1> QED BY <1>2, <1>3, <1>4 DEF SessionInv

\* The lists cannot be made: the tree is to blame.
LEMMA NoListsCause ==
    ASSUME NEW theme \in Themes, tree \in TreeType, NoLists(ThemeDirs(tree, theme))
    PROVE  session' \in {"aborted", "endless"} /\ Cause(tree, session')
  <1>1. CASE ThemeDirs(tree, theme) = <<>>
    <2>1. session' = "aborted"
      BY <1>1 DEF NoLists
    <2>2. Base \notin tree.installed
      BY <1>1, NoThemeDirs
    <2> QED BY <2>1, <2>2 DEF Cause
  <1>2. CASE ThemeDirs(tree, theme) # <<>>
    <2>1. session' = "endless" /\ Endless(ThemeDirs(tree, theme))
      BY <1>2 DEF NoLists
    <2>2. Circles(tree) # {}
      BY <2>1, EndlessIsCircle
    <2> QED BY <2>1, <2>2 DEF Cause
  <1> QED BY <1>1, <1>2

LEMMA ConnectStep ==
    ASSUME SessionInv, Connect
    PROVE  SessionInv'
  <1> USE DEF Connect, SessionInv, ghosts
  <1>1. TypeOK'
    BY DEF TypeOK
  <1>2. PostedLast' /\ KnowsNames' /\ HashCurrent'
    BY DEF PostedLast, KnowsNames, HashCurrent
  <1>3. StopsForCause'
    BY CauseNextIs DEF Cause
  <1> QED BY <1>1, <1>2, <1>3

LEMMA LoadThemeStep ==
    ASSUME SessionInv, NEW theme \in Themes, loadTheme(theme)
    PROVE  SessionInv'
  <1> USE DEF loadTheme, SessionInv, ghosts
  <1>1. posted \in Seq(Themes) /\ Append(posted, theme) \in Seq(Themes)
        /\ Append(posted, theme) # <<>>
        /\ Append(posted, theme)[Len(Append(posted, theme))] = theme
    <2>1. posted \in Seq(Themes)
      BY DEF TypeOK
    <2> QED BY <2>1, AppendProperties
  <1>2. TypeOK'
    <2>1. changes' \in 0 .. MaxChanges
      BY ThemingAssumption DEF TypeOK
    <2> QED BY <1>1, <2>1 DEF TypeOK
  <1>3. PostedLast'
    <2>1. CASE session \in {"scheduled", "ready"}
      <3>1. posted' = Append(posted, theme) /\ session' = session /\ currentThemeName' = theme
        BY <2>1
      <3> QED BY <3>1, <2>1, <1>1 DEF PostedLast
    <2>2. CASE session \notin {"scheduled", "ready"}
      <3>1. session = "none"
        BY <2>2 DEF Alive, TypeOK
      <3> QED BY <3>1 DEF PostedLast
    <2> QED BY <2>1, <2>2
  <1>4. KnowsNames' /\ HashCurrent'
    BY <1>1 DEF KnowsNames, HashCurrent
  <1>5. StopsForCause'
    BY CauseIs, CauseNextIs
  <1> QED BY <1>2, <1>3, <1>4, <1>5

LEMMA UpdatePackageStep ==
    ASSUME SessionInv, UpdatePackage
    PROVE  SessionInv'
  <1> USE DEF UpdatePackage, SessionInv, ghosts
  <1>1. TypeOK'
    <2>1. tree' \in TreeType
      BY ThemingAssumption
    <2> QED BY <2>1 DEF TypeOK
  <1>2. PostedLast' /\ KnowsNames' /\ HashCurrent'
    BY DEF PostedLast, KnowsNames, HashCurrent
  <1>3. StopsForCause'
    BY CauseNextIs DEF Cause, Alive
  <1> QED BY <1>1, <1>2, <1>3

LEMMA SetupStep ==
    ASSUME SessionInv, setup
    PROVE  SessionInv'
  <1> DEFINE themeDirs == ThemeDirs(tree, currentThemeName)
             lists == FeedbackDirLists(tree, themeDirs)
  <1>1. TypeOK /\ tree \in TreeType /\ currentThemeName \in Themes /\ session = "scheduled"
    BY DEF SessionInv, TypeOK, setup
  <1>2. UNCHANGED <<tree, currentThemeName, changes, posted>> /\ PostedLast
    BY DEF setup, SessionInv
  <1>3. CASE NoLists(themeDirs)
    <2>1. session' \in {"aborted", "endless"} /\ Cause(tree, session') /\ UNCHANGED <<feedbackHash, ghosts>>
      BY <1>1, <1>3, NoListsCause DEF NoLists
    <2>2. TypeOK'
      BY <1>1, <1>2, <2>1 DEF TypeOK, ghosts
    <2>3. PostedLast' /\ KnowsNames' /\ HashCurrent'
      BY <1>2, <2>1 DEF PostedLast, KnowsNames, HashCurrent
    <2>4. StopsForCause'
      BY <1>2, <2>1, CauseNextIs
    <2> QED BY <2>2, <2>3, <2>4 DEF SessionInv
  <1>4. CASE ~NoLists(themeDirs)
    <2> HIDE DEF themeDirs
    <2>1. themeDirs # <<>> /\ ~Endless(themeDirs)
          /\ IF lists = <<>>
               THEN session' = "aborted" /\ UNCHANGED <<feedbackHash, ghosts>>
               ELSE /\ session' = "ready"
                    /\ feedbackHash' =
                         [n \in {ListName(lists[i]) : i \in DOMAIN lists} |->
                             lists[CHOOSE i \in DOMAIN lists : ListName(lists[i]) = n]]
                    /\ lastRead' = tree /\ firstRead' = tree
      BY <1>4 DEF setup, themeDirs
    <2>2. CASE lists = <<>>
      <3>1. session' = "aborted" /\ UNCHANGED <<feedbackHash, ghosts>>
        BY <2>1, <2>2
      <3>2. FeedbackNames(tree) = {}
        BY <1>1, <2>1, <2>2, NoListNoName DEF themeDirs
      <3>3. TypeOK'
        BY <1>1, <1>2, <3>1 DEF TypeOK, ghosts
      <3>4. PostedLast' /\ KnowsNames' /\ HashCurrent'
        BY <1>2, <3>1 DEF PostedLast, KnowsNames, HashCurrent
      <3>5. StopsForCause'
        BY <1>2, <3>1, <3>2, CauseNextIs DEF Cause
      <3> QED BY <3>3, <3>4, <3>5 DEF SessionInv
    <2>3. CASE lists # <<>>
      <3>1. Serve(tree, currentThemeName, lists)
        BY <1>1, <2>1, ListsServe DEF themeDirs
      <3> HIDE DEF lists
      <3>2. /\ session' = "ready" /\ lastRead' = tree /\ firstRead' = tree
            /\ feedbackHash' = [n \in {ListName(lists[i]) : i \in DOMAIN lists} |->
                                   lists[CHOOSE i \in DOMAIN lists : ListName(lists[i]) = n]]
        BY <2>1, <2>3
      <3>3. {ListName(lists[i]) : i \in DOMAIN lists} = FeedbackNames(tree)
        BY <3>1 DEF Serve
      <3>4. DOMAIN feedbackHash' = FeedbackNames(tree)
        BY <3>2, <3>3
      <3>5. ASSUME NEW n \in FeedbackNames(tree)
            PROVE  /\ feedbackHash'[n] = Best(tree, currentThemeName, n)
                   /\ feedbackHash'[n] \in Seq(Dirs) \ {<<>>}
        <4>1. PICK i \in DOMAIN lists : ListName(lists[i]) = n
          BY <3>1 DEF Serve
        <4>2. PICK j \in DOMAIN lists :
                 /\ ListName(lists[j]) = n
                 /\ j = CHOOSE k \in DOMAIN lists : ListName(lists[k]) = n
          BY <4>1
        <4>3. feedbackHash'[n] = lists[j]
          BY <3>2, <3>3, <4>2
        <4> QED BY <4>2, <4>3, <3>1 DEF Serve
      <3>6. FeedbackNames(tree) \subseteq Names \ IllFormed
        BY <1>1, TreeFacts, ThemingAssumption DEF FeedbackNames
      <3>7. TypeOK'
        <4>1. /\ tree' \in TreeType /\ currentThemeName' \in Themes /\ changes' \in 0 .. MaxChanges
              /\ posted' \in Seq(Themes) /\ lastRead' \in TreeType /\ firstRead' \in TreeType
          BY <1>1, <1>2, <3>2 DEF TypeOK
        <4>2. \A n \in DOMAIN feedbackHash' : feedbackHash'[n] \in Seq(Dirs) \ {<<>>}
          BY <3>4, <3>5
        <4> QED BY <4>1, <4>2, <3>2, <3>4, <3>6 DEF TypeOK
      <3>8. PostedLast'
        BY <1>1, <1>2, <3>2 DEF PostedLast
      <3>9. KnowsNames'
        BY <3>2, <3>4 DEF KnowsNames, FeedbackNames
      <3>10. HashCurrent'
        <4>1. PICK t, c : t = tree /\ c = currentThemeName
          OBVIOUS
        <4>2. lastRead' = t /\ currentThemeName' = c
          BY <4>1, <1>2, <3>2
        <4>3. \A n \in FeedbackNames(t) : feedbackHash'[n] = Best(t, c, n)
          BY <4>1, <3>5
        <4>4. \A n \in FeedbackNames(lastRead') : feedbackHash'[n] = Best(lastRead', currentThemeName', n)
          BY <4>2, <4>3
        <4> QED BY <4>4 DEF HashCurrent
      <3>11. StopsForCause'
        BY <3>2, CauseNextIs DEF Cause
      <3> QED BY <3>7, <3>8, <3>9, <3>10, <3>11 DEF SessionInv
    <2> QED BY <2>2, <2>3
  <1> QED BY <1>3, <1>4

LEMMA ThemeChangedStep ==
    ASSUME SessionInv, themeChanged
    PROVE  SessionInv'
  <1> DEFINE theme == Head(posted)
             themeDirs == ThemeDirs(tree, theme)
             lists == FeedbackDirLists(tree, themeDirs)
  <1>1. TypeOK /\ PostedLast /\ KnowsNames /\ posted \in Seq(Themes) /\ posted # <<>>
        /\ tree \in TreeType /\ session \in {"scheduled", "ready"}
    BY DEF SessionInv, TypeOK, themeChanged
  <1>2. UNCHANGED <<tree, currentThemeName, changes>> /\ posted' = Tail(posted)
    BY DEF themeChanged
  <1>3. theme \in Themes
    BY <1>1
  <1>4. posted' \in Seq(Themes) /\ PostedLast'
    <2>1. PICK n \in Nat : n = Len(posted)
      BY <1>1
    <2>2. /\ n # 0 /\ Tail(posted) \in Seq(Themes) /\ Len(Tail(posted)) = n - 1
          /\ \A i \in 1 .. n - 1 : Tail(posted)[i] = posted[i + 1]
      BY <1>1, <2>1
    <2>3. posted[n] = currentThemeName
      BY <1>1, <2>1 DEF PostedLast
    <2>4. Tail(posted) # <<>> => Tail(posted)[Len(Tail(posted))] = currentThemeName
      <3> SUFFICES ASSUME Tail(posted) # <<>>
                   PROVE  Tail(posted)[n - 1] = currentThemeName
        BY <2>2
      <3>1. n - 1 \in 1 .. n - 1
        <4>1. n - 1 # 0
          BY <2>2
        <4> QED BY <4>1, <2>2
      <3>2. Tail(posted)[n - 1] = posted[(n - 1) + 1] /\ (n - 1) + 1 = n
        BY <2>2, <3>1
      <3> QED BY <3>2, <2>3
    <2>5. session' # "none"
      BY <1>1 DEF themeChanged, NoLists
    <2> QED BY <1>2, <2>2, <2>4, <2>5 DEF PostedLast
  <1>5. CASE NoLists(themeDirs)
    <2>1. session' \in {"aborted", "endless"} /\ Cause(tree, session') /\ UNCHANGED <<feedbackHash, ghosts>>
      BY <1>1, <1>3, <1>5, NoListsCause DEF NoLists
    <2>2. TypeOK'
      BY <1>1, <1>2, <1>4, <2>1 DEF TypeOK, ghosts
    <2>3. KnowsNames' /\ HashCurrent'
      BY <2>1 DEF KnowsNames, HashCurrent
    <2>4. StopsForCause'
      BY <1>2, <2>1, CauseNextIs
    <2> QED BY <1>4, <2>2, <2>3, <2>4 DEF SessionInv
  <1>6. CASE ~NoLists(themeDirs)
    <2> HIDE DEF themeDirs
    <2>1. /\ themeDirs # <<>> /\ ~Endless(themeDirs)
          /\ feedbackHash' =
               [n \in DOMAIN feedbackHash |->
                   IF \E i \in DOMAIN lists : ListName(lists[i]) = n
                     THEN lists[CHOOSE i \in DOMAIN lists : ListName(lists[i]) = n]
                     ELSE feedbackHash[n]]
          /\ lastRead' = tree /\ session' = session /\ firstRead' = firstRead
      BY <1>6 DEF themeChanged, themeDirs
    <2>2. Serve(tree, theme, lists)
      BY <1>1, <1>3, <2>1, ListsServe DEF themeDirs
    <2> HIDE DEF lists, theme
    <2>3. DOMAIN feedbackHash' = DOMAIN feedbackHash
      BY <2>1
    <2>4. ASSUME NEW n \in DOMAIN feedbackHash
          PROVE  /\ n \in FeedbackNames(tree) => feedbackHash'[n] = Best(tree, theme, n)
                 /\ feedbackHash'[n] \in Seq(Dirs) \ {<<>>}
      <3>1. CASE \E i \in DOMAIN lists : ListName(lists[i]) = n
        <4>1. PICK j \in DOMAIN lists :
                 /\ ListName(lists[j]) = n
                 /\ j = CHOOSE k \in DOMAIN lists : ListName(lists[k]) = n
          BY <3>1
        <4>2. feedbackHash'[n] = lists[j]
          BY <2>1, <3>1, <4>1
        <4>3. n \in FeedbackNames(tree)
          BY <4>1, <2>2 DEF Serve
        <4> QED BY <4>1, <4>2, <4>3, <2>2 DEF Serve
      <3>2. CASE ~ \E i \in DOMAIN lists : ListName(lists[i]) = n
        <4>1. feedbackHash'[n] = feedbackHash[n]
          BY <2>1, <3>2
        <4>2. n \notin FeedbackNames(tree)
          BY <3>2, <2>2 DEF Serve
        <4> QED BY <4>1, <4>2, <1>1 DEF TypeOK
      <3> QED BY <3>1, <3>2
    <2>5. TypeOK'
      <3>1. /\ tree' \in TreeType /\ currentThemeName' \in Themes /\ changes' \in 0 .. MaxChanges
            /\ lastRead' \in TreeType /\ firstRead' \in TreeType
            /\ session' \in {"none", "scheduled", "ready", "aborted", "endless"}
            /\ DOMAIN feedbackHash' \subseteq Names \ IllFormed
        BY <1>1, <1>2, <2>1, <2>3 DEF TypeOK
      <3>2. \A n \in DOMAIN feedbackHash' : feedbackHash'[n] \in Seq(Dirs) \ {<<>>}
        BY <2>3, <2>4
      <3> QED BY <3>1, <3>2, <1>4 DEF TypeOK
    <2>6. KnowsNames'
      BY <1>1, <2>1, <2>3 DEF KnowsNames, FeedbackNames
    <2>7. HashCurrent'
      <3> SUFFICES ASSUME posted' = <<>> PROVE HashCurrent'
        BY DEF HashCurrent
      <3>1. theme = currentThemeName
        <4>1. PICK n \in Nat : n = Len(posted)
          BY <1>1
        <4>2. n # 0 /\ Len(Tail(posted)) = n - 1 /\ Tail(posted) = <<>>
          BY <1>1, <1>2, <4>1
        <4>3. n = 1
          BY <4>2
        <4>4. posted[1] = currentThemeName
          BY <4>1, <4>3, <1>1 DEF PostedLast
        <4>5. theme = posted[1]
          BY <1>1 DEF theme
        <4> QED BY <4>4, <4>5
      <3>2. PICK t, c : t = tree /\ c = currentThemeName
        OBVIOUS
      <3>3. lastRead' = t /\ currentThemeName' = c
        BY <3>2, <1>2, <2>1
      <3>4. \A n \in DOMAIN feedbackHash' \cap FeedbackNames(t) : feedbackHash'[n] = Best(t, c, n)
        BY <2>3, <2>4, <3>1, <3>2
      <3>5. \A n \in DOMAIN feedbackHash' \cap FeedbackNames(lastRead') :
               feedbackHash'[n] = Best(lastRead', currentThemeName', n)
        BY <3>3, <3>4
      <3> QED BY <3>5 DEF HashCurrent
    <2>8. StopsForCause'
      BY <1>1, <2>1, CauseNextIs DEF Cause
    <2> QED BY <1>4, <2>5, <2>6, <2>7, <2>8 DEF SessionInv
  <1> QED BY <1>5, <1>6

LEMMA StutterStep ==
    ASSUME SessionInv, UNCHANGED vars
    PROVE  SessionInv'
  <1> USE DEF vars, ghosts, SessionInv
  <1>1. TypeOK'
    BY DEF TypeOK
  <1>2. PostedLast' /\ KnowsNames' /\ HashCurrent'
    BY DEF PostedLast, KnowsNames, HashCurrent
  <1>3. StopsForCause'
    BY CauseIs, CauseNextIs
  <1> QED BY <1>1, <1>2, <1>3

LEMMA SessionHolds == Spec => []SessionInv
  <1>1. Init => SessionInv
    BY InitSession
  <1>2. SessionInv /\ [Next]_vars => SessionInv'
    <2> SUFFICES ASSUME SessionInv, [Next]_vars PROVE SessionInv'
      OBVIOUS
    <2>1. CASE Connect
      BY <2>1, ConnectStep
    <2>2. ASSUME NEW theme \in Themes, loadTheme(theme) PROVE SessionInv'
      BY <2>2, LoadThemeStep
    <2>3. CASE setup
      BY <2>3, SetupStep
    <2>4. CASE themeChanged
      BY <2>4, ThemeChangedStep
    <2>5. CASE UpdatePackage
      BY <2>5, UpdatePackageStep
    <2>6. CASE UNCHANGED vars
      BY <2>6, StutterStep
    <2> QED BY <2>1, <2>2, <2>3, <2>4, <2>5, <2>6 DEF Next
  <1> QED BY <1>1, <1>2, PTL DEF Spec

\* Types: whatever is on disk, the daemon only ever lists well-formed feedback directories.
THEOREM TypeCorrect == Spec => []TypeOK
  <1>1. SessionInv => TypeOK
    BY DEF SessionInv
  <1> QED BY <1>1, SessionHolds, PTL

\* Once the theme changes posted to it are served, every feedback of a session is loaded
\* from the directories of the current theme's lineage, nearest first; and none is missing
\* as long as nobody has changed the disk (mfsession.cpp:61-122, mfutil.cpp:93-184).
THEOREM SessionCurrent == Spec => []ListsCurrent
  <1>1. SessionInv => ListsCurrent
    BY DEF SessionInv, KnowsNames, HashCurrent, ListsCurrent
  <1> QED BY <1>1, SessionHolds, PTL

\* The lists of every theme are aligned with the names told to clients, in order, each name
\* once (mfutil.cpp:68-91, 124-148).
THEOREM ListsAligned == Spec => []NamesAligned
  <1>1. SessionInv => NamesAligned
    <2> SUFFICES ASSUME tree \in TreeType PROVE NamesAligned
      BY DEF SessionInv, TypeOK
    <2>1. IsInjective(getFeedbackNames(tree)) /\ Range(getFeedbackNames(tree)) = FeedbackNames(tree)
      BY NamesAre
    <2>2. ASSUME NEW theme \in Themes,
                 ThemeDirs(tree, theme) # <<>>, ~Endless(ThemeDirs(tree, theme))
          PROVE  LET lists == FeedbackDirLists(tree, ThemeDirs(tree, theme))
                 IN /\ DOMAIN lists = DOMAIN getFeedbackNames(tree)
                    /\ \A i \in DOMAIN lists : ListName(lists[i]) = getFeedbackNames(tree)[i]
      <3> DEFINE lists == FeedbackDirLists(tree, ThemeDirs(tree, theme))
                 names == getFeedbackNames(tree)
      <3>1. DOMAIN lists = DOMAIN names /\ \A i \in DOMAIN names : ListOf(lists[i], names[i])
        BY <2>2, ListsAreBest
      <3> HIDE DEF lists, names
      <3>2. DOMAIN lists = DOMAIN names /\ \A i \in DOMAIN lists : ListName(lists[i]) = names[i]
        BY <3>1 DEF ListOf, ListName
      <3> QED BY <3>2 DEF lists, names
    <2> QED BY <2>1, <2>2 DEF NamesAligned
  <1> QED BY <1>1, SessionHolds, PTL

\* The daemon only stops for want of a base theme, or of any feedback in it, or when themes
\* inherit each other in a circle (mfutil.cpp:99-106, 329-335, 372).
THEOREM OnlyForCause == Spec => []StopsForCause
  <1>1. SessionInv => StopsForCause
    BY DEF SessionInv
  <1> QED BY <1>1, SessionHolds, PTL

=============================================================================
