-------------------------- MODULE SecretNamesProofs --------------------------
(***************************************************************************)
(* Which paths a driver keeps apart, for paths of any length: the names of *)
(* two paths are the same only if the paths are the same secret, and every *)
(* name fits its service.  Spelling works through a path one character     *)
(* after the other, so the proofs are by induction: on sets of numbers,    *)
(* because the provers can instantiate a set and not an operator.          *)
(***************************************************************************)
EXTENDS SecretNames, SequenceTheorems, WellFoundedInduction, TLAPS

(***************************************************************************)
(* Induction.                                                              *)
(***************************************************************************)
LEMMA HasLeast ==
    ASSUME NEW T \in SUBSET Nat, T # {}
    PROVE  \E x \in T : \A y \in T : x <= y
  <1> DEFINE R == {pair \in Nat \X Nat : pair[1] < pair[2]}
  <1>1. IsWellFoundedOn(R, Nat)
    BY NatLessThanWellFounded DEF OpToRel
  <1>2. \A y, x \in Nat : ~(x <= y) => <<y, x>> \in R
    OBVIOUS
  <1> HIDE DEF R
  <1>3. \E x \in T : \A y \in T : ~(<<y, x>> \in R)
    BY <1>1, WFMin
  <1>4. QED
    BY <1>2, <1>3

LEMMA Induct ==
    ASSUME NEW T \in SUBSET Nat, 0 \in T, \A n \in Nat : n \in T => n + 1 \in T
    PROVE  T = Nat
  <1>1. SUFFICES ASSUME Nat \ T # {} PROVE FALSE
    OBVIOUS
  <1>2. PICK x \in Nat \ T : \A y \in Nat \ T : x <= y
    BY <1>1, HasLeast
  <1>3. x # 0 /\ x - 1 \in Nat /\ ~(x <= x - 1) /\ (x - 1) + 1 = x
    BY <1>2
  <1>4. QED
    BY <1>2, <1>3

(***************************************************************************)
(* Trimming.                                                               *)
(***************************************************************************)
LEMMA LeastIndex ==
    ASSUME NEW T \in SUBSET Nat, T # {}
    PROVE  Min(T) \in T /\ \A y \in T : Min(T) <= y
  BY HasLeast DEF Min

LEMMA GreatestIndex ==
    ASSUME NEW n \in Nat, NEW T \in SUBSET (1..n), T # {}
    PROVE  Max(T) \in T /\ \A y \in T : y <= Max(T)
  <1> DEFINE U == {n - y : y \in T}
  <1>1. U \in SUBSET Nat /\ U # {}
    <2>1. \A y \in T : n - y \in Nat
      OBVIOUS
    <2>2. QED
      BY <2>1
  <1>2. PICK u \in U : \A w \in U : u <= w
    BY <1>1, HasLeast
  <1>3. PICK x \in T : u = n - x
    BY <1>2
  <1>4. ASSUME NEW y \in T PROVE y <= x
    <2>1. n - y \in U
      OBVIOUS
    <2>2. n - x <= n - y
      BY <1>2, <1>3, <2>1
    <2>3. QED
      BY <2>2
  <1>5. QED
    BY <1>3, <1>4 DEF Max

\* What is left of s begins with its first character that is not c.
LEMMA TrimLeftCuts ==
    ASSUME NEW S, NEW s \in Seq(S), NEW c
    PROVE  \/ TrimLeft(s, c) = <<>>
           \/ \E i \in 1..Len(s) : s[i] # c /\ TrimLeft(s, c) = SubSeq(s, i, Len(s))
  <1> DEFINE T == {i \in 1..Len(s) : s[i] # c}
  <1>1. CASE T = {}
    BY <1>1 DEF TrimLeft, SelectInSeq
  <1>2. CASE T # {}
    <2>1. T \in SUBSET Nat
      OBVIOUS
    <2>2. Min(T) \in T
      BY <1>2, <2>1, LeastIndex
    <2>3. Min(T) # 0
      BY <2>2
    <2>4. TrimLeft(s, c) = SubSeq(s, Min(T), Len(s))
      BY <1>2, <2>3 DEF TrimLeft, SelectInSeq
    <2>5. QED
      BY <2>2, <2>4
  <1>3. QED
    BY <1>1, <1>2

LEMMA TrimLeftKeeps ==
    ASSUME NEW S, NEW s \in Seq(S), s # <<>>, NEW c, s[1] # c
    PROVE  TrimLeft(s, c) = s
  <1> DEFINE T == {i \in 1..Len(s) : s[i] # c}
  <1>1. Len(s) \in Nat /\ 1 <= Len(s)
    BY EmptySeq, LenProperties
  <1>2. T \in SUBSET Nat /\ 1 \in T
    BY <1>1
  <1>3. Min(T) \in T /\ Min(T) <= 1
    BY <1>2, LeastIndex
  <1>4. Min(T) = 1
    BY <1>3
  <1>5. Min(T) # 0 /\ T # {}
    BY <1>2, <1>4
  <1>6. TrimLeft(s, c) = SubSeq(s, Min(T), Len(s))
    BY <1>5 DEF TrimLeft, SelectInSeq
  <1>7. QED
    BY <1>4, <1>6, SubSeqFull

LEMMA TrimRightKeeps ==
    ASSUME NEW S, NEW s \in Seq(S), s # <<>>, NEW c, s[Len(s)] # c
    PROVE  TrimRight(s, c) = s
  <1> DEFINE T == {i \in 1..Len(s) : s[i] # c}
  <1>1. Len(s) \in Nat /\ 1 <= Len(s)
    BY EmptySeq, LenProperties
  <1>2. T \in SUBSET (1..Len(s)) /\ Len(s) \in T
    BY <1>1
  <1>3. Max(T) \in T /\ Len(s) <= Max(T)
    BY <1>1, <1>2, GreatestIndex
  <1>4. Max(T) = Len(s)
    BY <1>1, <1>3
  <1>5. TrimRight(s, c) = SubSeq(s, 1, Max(T))
    BY <1>2 DEF TrimRight, SelectLastInSeq
  <1>6. QED
    BY <1>4, <1>5, SubSeqFull

\* The key of a path is its end from some character on that is no slash.
LEMMA KeyIsEnd ==
    ASSUME NEW p \in Seq(Char), TrimLeft(p, "/") # <<>>
    PROVE  \E i \in 1..Len(p) :
             LET t == TrimLeft(p, "/") IN
                /\ t \in Seq(Char) /\ Len(t) = Len(p) - i + 1 /\ t[1] # "/"
                /\ \A j \in 1..Len(t) : t[j] = p[i + j - 1]
  <1> DEFINE t == TrimLeft(p, "/")
  <1>1. Len(p) \in Nat
    BY LenProperties
  <1>2. PICK i \in 1..Len(p) : p[i] # "/" /\ t = SubSeq(p, i, Len(p))
    BY TrimLeftCuts
  <1>3. \A j \in i..Len(p) : p[j] \in Char
    BY <1>1, ElementOfSeq
  <1>4. /\ t \in Seq(Char)
        /\ Len(t) = Len(p) - i + 1
        /\ \A j \in 1..(Len(p) - i + 1) : t[j] = p[i + j - 1]
    <2>1. i \in Int /\ Len(p) \in Int /\ i <= Len(p)
      BY <1>1
    <2>2. LET u == SubSeq(p, i, Len(p)) IN
          /\ u \in Seq(Char)
          /\ Len(u) = IF i <= Len(p) THEN Len(p) - i + 1 ELSE 0
          /\ \A j \in 1..(Len(p) - i + 1) : u[j] = p[i + j - 1]
      BY <1>3, <2>1, SubSeqProperties
    <2>3. QED
      BY <1>2, <2>1, <2>2
  <1>5. t[1] = p[i]
    BY <1>1, <1>4
  <1>6. QED
    BY <1>2, <1>4, <1>5

(***************************************************************************)
(* Spelling.                                                               *)
(***************************************************************************)
\* What FlattenSeq computes: the last of the sequences that grow by one part a time.
LEMMA FlattenIsLast ==
    ASSUME NEW S, NEW q \in Seq(Seq(S)), NEW g,
           \A i \in 0..Len(q) : g[i] \in Seq(S),
           g[0] = <<>>, \A i \in 1..Len(q) : g[i] = g[i - 1] \o q[i]
    PROVE  FlattenSeq(q) = g[Len(q)]
  <1> DEFINE n == Len(q)
             Grows(f) == f = [i \in 1..n |-> IF i = 1 THEN q[i] ELSE f[i - 1] \o q[i]]
             f0 == [i \in 1..n |-> g[i]]
             f1 == CHOOSE f : Grows(f)
  <1>1. n \in Nat /\ \A i \in 1..n : q[i] \in Seq(S)
    BY LenProperties, ElementOfSeq
  <1> HIDE DEF f0, f1, Grows
  <1>2. CASE n = 0
    <2>1. q = <<>>
      BY <1>2, EmptySeq
    <2>2. QED
      BY <1>2, <2>1 DEF FlattenSeq
  <1>3. CASE n # 0
    <2>1. ASSUME NEW i \in 1..n
          PROVE  f0[i] = IF i = 1 THEN q[i] ELSE f0[i - 1] \o q[i]
      <3>1. CASE i = 1
        <4>1. g[1] = g[0] \o q[1]
          BY <3>1, 1 - 1 = 0
        <4>2. <<>> \o q[1] = q[1]
          BY <1>1, <3>1, ConcatEmptySeq
        <4>3. QED
          BY <3>1, <4>1, <4>2 DEF f0
      <3>2. CASE i # 1
        <4>1. i - 1 \in 1..n
          BY <1>1, <3>2
        <4>2. QED
          BY <3>2, <4>1 DEF f0
      <3>3. QED
        BY <3>1, <3>2
    <2>2. Grows(f0)
      BY <2>1 DEF Grows, f0
    <2>3. Grows(f1)
      BY <2>2 DEF f1
    <2>4. \A i \in 1..n : f1[i] = IF i = 1 THEN q[i] ELSE f1[i - 1] \o q[i]
      BY <2>3 DEF Grows
    <2>5. FlattenSeq(q) = f1[n]
      BY <1>3 DEF FlattenSeq, f1, Grows
    <2> DEFINE T == {k \in Nat : k \in 1..n => f1[k] = g[k]}
    <2>6. 0 \in T
      OBVIOUS
    <2>7. ASSUME NEW k \in Nat, k \in T PROVE k + 1 \in T
      <3>1. SUFFICES ASSUME k + 1 \in 1..n PROVE f1[k + 1] = g[k + 1]
        OBVIOUS
      <3>2. g[k + 1] = g[k] \o q[k + 1]
        BY <3>1, (k + 1) - 1 = k
      <3>3. CASE k = 0
        <4>1. <<>> \o q[1] = q[1]
          BY <1>1, <3>1, <3>3, ConcatEmptySeq
        <4>2. f1[1] = q[1]
          BY <2>4, <3>1, <3>3
        <4>3. g[1] = <<>> \o q[1]
          BY <3>2, <3>3, 0 + 1 = 1
        <4>4. QED
          BY <3>3, <4>1, <4>2, <4>3
      <3>4. CASE k # 0
        <4>1. k \in 1..n /\ k + 1 # 1 /\ (k + 1) - 1 = k
          BY <1>1, <3>1, <3>4
        <4>2. f1[k + 1] = f1[k] \o q[k + 1]
          BY <2>4, <3>1, <4>1
        <4>3. f1[k] = g[k]
          BY <2>7, <4>1
        <4>4. QED
          BY <3>2, <4>2, <4>3
      <3>5. QED
        BY <3>3, <3>4
    <2>8. n \in T
      <3> HIDE DEF T
      <3>1. T \in SUBSET Nat
        BY DEF T
      <3>2. QED
        BY <1>1, <2>6, <2>7, <3>1, Induct
    <2>9. n \in 1..n
      BY <1>1, <1>3
    <2>10. QED
      BY <2>5, <2>8, <2>9
  <1>4. QED
    BY <1>2, <1>3

LEMMA SpellIsLast ==
    ASSUME NEW S, NEW code \in [Char -> Seq(S)], NEW s \in Seq(Char), NEW g,
           \A i \in 0..Len(s) : g[i] \in Seq(S),
           g[0] = <<>>, \A i \in 1..Len(s) : g[i] = g[i - 1] \o code[s[i]]
    PROVE  Spell(s, code) = g[Len(s)]
  <1> DEFINE q == [i \in 1..Len(s) |-> code[s[i]]]
  <1>1. Len(s) \in Nat /\ \A i \in 1..Len(s) : s[i] \in Char
    BY LenProperties, ElementOfSeq
  <1>2. \A i \in 1..Len(s) : code[s[i]] \in Seq(S)
    BY <1>1
  <1>3. q \in Seq(Seq(S)) /\ Len(q) = Len(s)
    BY <1>1, <1>2
  <1>4. \A i \in 1..Len(q) : g[i] = g[i - 1] \o q[i]
    BY <1>3
  <1>5. Spell(s, code) = FlattenSeq(q)
    BY DEF Spell
  <1> HIDE DEF q
  <1>6. FlattenSeq(q) = g[Len(q)]
    BY <1>3, <1>4, FlattenIsLast
  <1>7. QED
    BY <1>3, <1>5, <1>6

\* Every character becomes one character of S.
Each(code, f, S) ==
    /\ code \in [Char -> Seq(S)]
    /\ \A c \in Char : f[c] \in S /\ code[c] = <<f[c]>>

\* Then the spelling is as long as the path.
LEMMA SpellsEach ==
    ASSUME NEW S, NEW code, NEW f, Each(code, f, S), NEW s \in Seq(Char)
    PROVE  /\ Spell(s, code) \in Seq(S) /\ Len(Spell(s, code)) = Len(s)
           /\ \A i \in 1..Len(s) : Spell(s, code)[i] = f[s[i]]
  <1> DEFINE n == Len(s)
             Upto(k) == [j \in 1..k |-> f[s[j]]]
             g == [k \in 0..n |-> Upto(k)]
  <1>1. n \in Nat /\ \A i \in 1..n : s[i] \in Char
    BY LenProperties, ElementOfSeq
  <1>2. \A i \in 1..n : f[s[i]] \in S /\ code[s[i]] = <<f[s[i]]>>
    BY <1>1 DEF Each
  <1>3. ASSUME NEW k \in 0..n PROVE g[k] = Upto(k) /\ Upto(k) \in Seq(S) /\ Len(Upto(k)) = k
    BY <1>1, <1>2
  <1>4. g[0] = <<>>
    BY <1>1
  <1>5. ASSUME NEW i \in 1..n PROVE g[i] = g[i - 1] \o code[s[i]]
    <2>1. i - 1 \in 0..n /\ i \in 0..n
      BY <1>1
    <2>2. code[s[i]] = <<f[s[i]]>> /\ <<f[s[i]]>> \in Seq(S)
      BY <1>2
    <2>3. /\ Upto(i - 1) \in Seq(S) /\ Len(Upto(i - 1)) = i - 1
          /\ Upto(i) \in Seq(S) /\ Len(Upto(i)) = i
      BY <1>3, <2>1
    <2>4. /\ Upto(i - 1) \o <<f[s[i]]>> \in Seq(S)
          /\ Len(Upto(i - 1) \o <<f[s[i]]>>) = i
          /\ \A j \in 1..i : (Upto(i - 1) \o <<f[s[i]]>>)[j] =
                 IF j <= i - 1 THEN Upto(i - 1)[j] ELSE <<f[s[i]]>>[j - (i - 1)]
      BY <2>2, <2>3, ConcatProperties
    <2>5. ASSUME NEW j \in 1..i
          PROVE  (Upto(i - 1) \o <<f[s[i]]>>)[j] = Upto(i)[j]
      <3>1. CASE j <= i - 1
        <4>1. j \in 1..(i - 1) /\ Upto(i - 1)[j] = f[s[j]] /\ Upto(i)[j] = f[s[j]]
          BY <3>1
        <4>2. QED
          BY <2>4, <3>1, <4>1
      <3>2. CASE j = i
        <4>1. i \in 1..i /\ ~(i <= i - 1) /\ i - (i - 1) = 1 /\ Upto(i)[i] = f[s[i]]
          OBVIOUS
        <4>2. (Upto(i - 1) \o <<f[s[i]]>>)[i] = <<f[s[i]]>>[i - (i - 1)]
          BY <2>4, <4>1
        <4>3. QED
          BY <3>2, <4>1, <4>2
      <3>3. QED
        BY <3>1, <3>2
    <2>6. Upto(i) = Upto(i - 1) \o <<f[s[i]]>>
      <3> HIDE DEF Upto
      <3>1. QED
        BY <2>3, <2>4, <2>5, SeqEqual
    <2>7. QED
      BY <2>1, <2>2, <2>6
  <1>6. Spell(s, code) = Upto(n)
    <2>1. \A k \in 0..n : g[k] \in Seq(S)
      BY <1>3
    <2>2. code \in [Char -> Seq(S)]
      BY DEF Each
    <2> HIDE DEF g
    <2>3. Spell(s, code) = g[n]
      BY <1>4, <1>5, <2>1, <2>2, SpellIsLast
    <2>4. QED
      BY <1>1, <2>3 DEF g
  <1>7. QED
    BY <1>1, <1>3, <1>6

\* The spellings of the first characters of s, one character more at a time.
Spellings(S, code, s, k) ==
    {g \in [0..k -> Seq(S)] :
        g[0] = <<>> /\ \A i \in 1..k : g[i] = g[i - 1] \o code[s[i]]}

LEMMA SpellingsExist ==
    ASSUME NEW S, NEW code \in [Char -> Seq(S)], NEW s \in Seq(Char)
    PROVE  \E g : g \in Spellings(S, code, s, Len(s))
  <1> DEFINE T == {k \in Nat : k <= Len(s) => Spellings(S, code, s, k) # {}}
  <1>1. Len(s) \in Nat /\ \A i \in 1..Len(s) : s[i] \in Char
    BY LenProperties, ElementOfSeq
  <1>2. 0 \in T
    <2>1. [i \in 0..0 |-> <<>>] \in Spellings(S, code, s, 0)
      BY DEF Spellings
    <2>2. QED
      BY <2>1
  <1>3. ASSUME NEW k \in Nat, k \in T PROVE k + 1 \in T
    <2>1. SUFFICES ASSUME k + 1 <= Len(s) PROVE Spellings(S, code, s, k + 1) # {}
      OBVIOUS
    <2>2. PICK g : g \in Spellings(S, code, s, k)
      BY <1>1, <1>3, <2>1
    <2>3. /\ g \in [0..k -> Seq(S)] /\ g[0] = <<>>
          /\ \A i \in 1..k : g[i] = g[i - 1] \o code[s[i]]
      BY <2>2 DEF Spellings
    <2>4. k + 1 \in 1..Len(s) /\ k \in 0..k
      BY <1>1, <2>1
    <2>5. g[k] \in Seq(S) /\ code[s[k + 1]] \in Seq(S)
      BY <1>1, <2>3, <2>4
    <2>6. g[k] \o code[s[k + 1]] \in Seq(S)
      BY <2>5, ConcatProperties
    <2> DEFINE next == g[k] \o code[s[k + 1]]
               g1 == [i \in 0..(k + 1) |-> IF i <= k THEN g[i] ELSE next]
    <2> HIDE DEF next
    <2>7. g1 \in [0..(k + 1) -> Seq(S)] /\ g1[0] = <<>>
      BY <2>3, <2>6 DEF next
    <2>8. ASSUME NEW i \in 1..(k + 1) PROVE g1[i] = g1[i - 1] \o code[s[i]]
      <3>1. CASE i <= k
        <4>1. g1[i] = g[i] /\ g1[i - 1] = g[i - 1] /\ i \in 1..k
          BY <3>1
        <4>2. QED
          BY <2>3, <4>1
      <3>2. CASE i = k + 1
        <4>1. g1[k + 1] = next
          OBVIOUS
        <4>2. g1[k] = g[k] /\ i - 1 = k
          BY <3>2
        <4>3. QED
          BY <3>2, <4>1, <4>2 DEF next
      <3>3. i <= k \/ i = k + 1
        OBVIOUS
      <3> HIDE DEF g1
      <3>4. QED
        BY <3>1, <3>2, <3>3
    <2>9. g1 \in Spellings(S, code, s, k + 1)
      BY <2>7, <2>8 DEF Spellings
    <2>10. QED
      BY <2>9
  <1>4. Len(s) \in T
    <2> HIDE DEF T
    <2>1. T \in SUBSET Nat
      BY DEF T
    <2>2. QED
      BY <1>1, <1>2, <1>3, <2>1, Induct
  <1>5. QED
    BY <1>1, <1>4

LEMMA SpellingsEnd ==
    ASSUME NEW S, NEW code \in [Char -> Seq(S)], NEW s \in Seq(Char), NEW g,
           g \in Spellings(S, code, s, Len(s))
    PROVE  Spell(s, code) = g[Len(s)] /\ Spell(s, code) \in Seq(S)
  <1>1. /\ g \in [0..Len(s) -> Seq(S)] /\ g[0] = <<>>
        /\ \A i \in 1..Len(s) : g[i] = g[i - 1] \o code[s[i]]
    BY DEF Spellings
  <1>2. Len(s) \in Nat /\ \A i \in 0..Len(s) : g[i] \in Seq(S)
    BY <1>1, LenProperties
  <1>3. Spell(s, code) = g[Len(s)]
    BY <1>1, <1>2, SpellIsLast
  <1>4. QED
    BY <1>2, <1>3

LEMMA SpellEmpty ==
    ASSUME NEW S, NEW code \in [Char -> Seq(S)]
    PROVE  Spell(<<>>, code) = <<>>
  <1>1. <<>> \in Seq(Char) /\ Len(<<>>) = 0
    BY EmptySeq
  <1>2. PICK g : g \in Spellings(S, code, <<>>, 0)
    BY <1>1, SpellingsExist
  <1>3. Spell(<<>>, code) = g[0]
    BY <1>1, <1>2, SpellingsEnd
  <1>4. QED
    BY <1>2, <1>3 DEF Spellings

\* A path that is one character longer is spelled by what that character becomes.
LEMMA SpellAppend ==
    ASSUME NEW S, NEW code \in [Char -> Seq(S)], NEW s \in Seq(Char), NEW c \in Char
    PROVE  /\ Spell(s, code) \in Seq(S)
           /\ Spell(Append(s, c), code) = Spell(s, code) \o code[c]
  <1> DEFINE t == Append(s, c)
             n == Len(s)
  <1>1. /\ n \in Nat /\ t \in Seq(Char) /\ Len(t) = n + 1
        /\ \A i \in 1..n : t[i] = s[i]
        /\ t[n + 1] = c
    BY LenProperties, AppendProperties
  <1> HIDE DEF t, n
  <1>2. PICK g : g \in Spellings(S, code, t, n + 1)
    BY <1>1, SpellingsExist
  <1>3. /\ g \in [0..(n + 1) -> Seq(S)] /\ g[0] = <<>>
        /\ \A i \in 1..(n + 1) : g[i] = g[i - 1] \o code[t[i]]
    BY <1>2 DEF Spellings
  <1>4. Spell(t, code) = g[n + 1]
    BY <1>1, <1>2, SpellingsEnd
  <1>5. /\ \A i \in 0..n : g[i] \in Seq(S)
        /\ \A i \in 1..n : g[i] = g[i - 1] \o code[s[i]]
    <2>1. \A i \in 0..n : i \in 0..(n + 1)
      BY <1>1
    <2>2. \A i \in 1..n : i \in 1..(n + 1) /\ t[i] = s[i]
      BY <1>1
    <2>3. QED
      BY <1>3, <2>1, <2>2
  <1>6. Spell(s, code) = g[n]
    BY <1>3, <1>5, SpellIsLast DEF n
  <1>7. g[n] \in Seq(S)
    BY <1>1, <1>5
  <1>8. n + 1 \in 1..(n + 1) /\ (n + 1) - 1 = n
    BY <1>1
  <1>9. g[n + 1] = g[n] \o code[c]
    BY <1>1, <1>3, <1>8
  <1>10. QED
    BY <1>4, <1>6, <1>7, <1>9 DEF t

(***************************************************************************)
(* Codes that keep paths apart.                                            *)
(***************************************************************************)
\* What becomes one character each, and not the same one twice.
LEMMA EachApart ==
    ASSUME NEW S, NEW code, NEW f, Each(code, f, S),
           NEW Used \in SUBSET Char,
           \A c, d \in Used : f[c] = f[d] => c = d,
           NEW s \in Seq(Used), NEW t \in Seq(Used),
           Spell(s, code) = Spell(t, code)
    PROVE  s = t
  <1>1. s \in Seq(Char) /\ t \in Seq(Char)
    BY SeqMonotonic
  <1>2. /\ Len(Spell(s, code)) = Len(s)
        /\ \A i \in 1..Len(s) : Spell(s, code)[i] = f[s[i]]
    BY <1>1, SpellsEach
  <1>3. /\ Len(Spell(t, code)) = Len(t)
        /\ \A i \in 1..Len(t) : Spell(t, code)[i] = f[t[i]]
    BY <1>1, SpellsEach
  <1>4. Len(s) = Len(t)
    BY <1>2, <1>3
  <1>5. ASSUME NEW i \in 1..Len(s) PROVE s[i] = t[i]
    <2>1. s[i] \in Used /\ t[i] \in Used
      BY <1>4, ElementOfSeq
    <2>2. f[s[i]] = f[t[i]]
      BY <1>2, <1>3, <1>4
    <2>3. QED
      BY <2>1, <2>2
  <1>6. QED
    BY <1>4, <1>5, SeqEqual

LEMMA ShortSeqs ==
    ASSUME NEW S, NEW c \in S, NEW d \in S
    PROVE  <<c>> \in Seq(S) /\ <<c, d>> \in Seq(S) /\ <<c, d, c>> \in Seq(S)
  OBVIOUS

\* A name that goes on with c.
Then(x, c) == Append(x, c)

LEMMA ThenCuts ==
    /\ \A u \in Seq(Char), c \in Char : Then(u, c) \in Seq(Char) /\ Then(u, c) # <<>>
    /\ \A u, v \in Seq(Char), c, d \in Char :
            Then(u, c) = Then(v, d) => u = v /\ c = d
  BY AppendProperties, AppendInjective DEF Then

\* A slash becomes two of z, a framed character stands between two of z, and all others
\* stay as they are, z too.
Doubling(code, z, Framed) ==
    /\ code \in [Char -> Seq(Char)] /\ z \in Char
    /\ Framed \subseteq Char /\ "/" \in Char \ Framed /\ z \notin Framed \cup {"/"}
    /\ code["/"] = <<z, z>>
    /\ \A c \in Framed : code[c] = <<z, c, z>>
    /\ \A c \in Char \ (Framed \cup {"/"}) : code[c] = <<c>>

\* What x becomes when the spelling of c follows.
Ending(x, c, z, Framed) ==
    IF c = "/" THEN Then(Then(x, z), z)
    ELSE IF c \in Framed THEN Then(Then(Then(x, z), c), z) ELSE Then(x, c)

LEMMA EndingIsPath ==
    ASSUME NEW z \in Char, NEW Framed \in SUBSET Char, NEW x \in Seq(Char), NEW c \in Char
    PROVE  Ending(x, c, z, Framed) \in Seq(Char) /\ Ending(x, c, z, Framed) # <<>>
  <1>1. Then(x, z) \in Seq(Char) /\ Then(x, c) \in Seq(Char) /\ Then(x, c) # <<>>
    BY ThenCuts
  <1>2. /\ Then(Then(x, z), z) \in Seq(Char) /\ Then(Then(x, z), z) # <<>>
        /\ Then(Then(x, z), c) \in Seq(Char)
    BY <1>1, ThenCuts
  <1>3. /\ Then(Then(Then(x, z), c), z) \in Seq(Char)
        /\ Then(Then(Then(x, z), c), z) # <<>>
    BY <1>2, ThenCuts
  <1>4. QED
    BY <1>1, <1>2, <1>3 DEF Ending

LEMMA EndingCuts ==
    ASSUME NEW z \in Char, NEW Framed \in SUBSET Char, NEW c \in Char,
           NEW x \in Seq(Char), NEW y \in Seq(Char),
           Ending(x, c, z, Framed) = Ending(y, c, z, Framed)
    PROVE  x = y
  <1>1. /\ Then(x, z) \in Seq(Char) /\ Then(Then(x, z), c) \in Seq(Char)
        /\ Then(y, z) \in Seq(Char) /\ Then(Then(y, z), c) \in Seq(Char)
    BY ThenCuts
  <1>2. CASE c = "/"
    <2>1. Then(Then(x, z), z) = Then(Then(y, z), z)
      BY <1>2 DEF Ending
    <2>2. Then(x, z) = Then(y, z)
      BY <1>1, <2>1, ThenCuts
    <2>3. QED
      BY <2>2, ThenCuts
  <1>3. CASE c # "/" /\ c \in Framed
    <2>1. Then(Then(Then(x, z), c), z) = Then(Then(Then(y, z), c), z)
      BY <1>3 DEF Ending
    <2>2. Then(Then(x, z), c) = Then(Then(y, z), c)
      BY <1>1, <2>1, ThenCuts
    <2>3. Then(x, z) = Then(y, z)
      BY <1>1, <2>2, ThenCuts
    <2>4. QED
      BY <2>3, ThenCuts
  <1>4. CASE c # "/" /\ c \notin Framed
    <2>1. Then(x, c) = Then(y, c)
      BY <1>4 DEF Ending
    <2>2. QED
      BY <2>1, ThenCuts
  <1>5. QED
    BY <1>2, <1>3, <1>4

\* Two characters end alike only if one of them is z, or framed.
LEMMA EndingsDiffer ==
    ASSUME NEW z \in Char, NEW Framed \in SUBSET Char, z \notin Framed \cup {"/"},
           NEW c \in Char, NEW d \in Char, c # d,
           d \in Framed => c \in Framed, d = "/" => c \in Framed \cup {"/"},
           NEW x \in Seq(Char), NEW y \in Seq(Char),
           Ending(x, c, z, Framed) = Ending(y, d, z, Framed)
    PROVE  \/ c = "/" /\ d = z /\ y = Then(x, z)
           \/ c \in Framed /\ y = Then(Then(x, z), c)
  <1>1. /\ Then(x, z) \in Seq(Char) /\ Then(Then(x, z), c) \in Seq(Char)
        /\ Then(y, z) \in Seq(Char) /\ Then(Then(y, z), d) \in Seq(Char)
    BY ThenCuts
  <1>2. CASE c = "/"
    <2>1. CASE d \notin Framed
      <3>1. Then(Then(x, z), z) = Then(y, d)
        BY <1>2, <2>1 DEF Ending
      <3>2. Then(x, z) = y /\ z = d
        BY <1>1, <3>1, ThenCuts
      <3>3. QED
        BY <1>2, <3>2
    <2>2. CASE d \in Framed
      <3>1. Then(Then(x, z), z) = Then(Then(Then(y, z), d), z)
        BY <1>2, <2>2 DEF Ending
      <3>2. Then(x, z) = Then(Then(y, z), d)
        BY <1>1, <3>1, ThenCuts
      <3>3. z = d
        BY <1>1, <3>2, ThenCuts
      <3>4. QED
        BY <2>2, <3>3
    <2>3. QED
      BY <2>1, <2>2
  <1>3. CASE c # "/" /\ c \in Framed
    <2>1. Ending(x, c, z, Framed) = Then(Then(Then(x, z), c), z)
      BY <1>3 DEF Ending
    <2>2. CASE d = "/"
      <3>1. Then(Then(Then(x, z), c), z) = Then(Then(y, z), z)
        BY <2>1, <2>2 DEF Ending
      <3>2. Then(Then(x, z), c) = Then(y, z)
        BY <1>1, <3>1, ThenCuts
      <3>3. c = z
        BY <1>1, <3>2, ThenCuts
      <3>4. QED
        BY <1>3, <3>3
    <2>3. CASE d # "/" /\ d \in Framed
      <3>1. Then(Then(Then(x, z), c), z) = Then(Then(Then(y, z), d), z)
        BY <2>1, <2>3 DEF Ending
      <3>2. Then(Then(x, z), c) = Then(Then(y, z), d)
        BY <1>1, <3>1, ThenCuts
      <3>3. c = d
        BY <1>1, <3>2, ThenCuts
      <3>4. QED
        BY <3>3
    <2>4. CASE d # "/" /\ d \notin Framed
      <3>1. Then(Then(Then(x, z), c), z) = Then(y, d)
        BY <2>1, <2>4 DEF Ending
      <3>2. Then(Then(x, z), c) = y
        BY <1>1, <3>1, ThenCuts
      <3>3. QED
        BY <1>3, <3>2
    <2>5. QED
      BY <2>2, <2>3, <2>4
  <1>4. CASE c # "/" /\ c \notin Framed
    <2>1. Then(x, c) = Then(y, d)
      BY <1>4 DEF Ending
    <2>2. c = d
      BY <2>1, ThenCuts
    <2>3. QED
      BY <2>2
  <1>5. QED
    BY <1>2, <1>3, <1>4

LEMMA DoublingAppend ==
    ASSUME NEW code, NEW z, NEW Framed, Doubling(code, z, Framed),
           NEW s \in Seq(Char), NEW c \in Char
    PROVE  /\ Spell(s, code) \in Seq(Char)
           /\ Spell(Append(s, c), code) = Ending(Spell(s, code), c, z, Framed)
  <1>1. z \in Char /\ code \in [Char -> Seq(Char)]
    BY DEF Doubling
  <1> DEFINE x == Spell(s, code)
  <1>2. x \in Seq(Char) /\ Spell(Append(s, c), code) = x \o code[c]
    BY <1>1, SpellAppend
  <1> HIDE DEF x
  <1>3. x \o <<z, z>> = Then(Then(x, z), z)
    BY <1>1, <1>2 DEF Then
  <1>4. x \o <<c>> = Then(x, c)
    BY <1>2, AppendIsConcat DEF Then
  <1>5. x \o <<z, c, z>> = Then(Then(Then(x, z), c), z)
    BY <1>1, <1>2 DEF Then
  <1>6. x \o code[c] = Ending(x, c, z, Framed)
    <2>1. CASE c = "/"
      BY <1>3, <2>1 DEF Doubling, Ending
    <2>2. CASE c # "/" /\ c \in Framed
      BY <1>5, <2>2 DEF Doubling, Ending
    <2>3. CASE c # "/" /\ c \notin Framed
      BY <1>4, <2>3 DEF Doubling, Ending
    <2>4. QED
      BY <2>1, <2>2, <2>3
  <1>7. QED
    BY <1>2, <1>6 DEF x

LEMMA BesideLonger ==
    ASSUME NEW S, NEW s \in Seq(S), NEW c \in S, NEW z, NEW near
    PROVE  /\ Beside(s, z, near) => Beside(Append(s, c), z, near)
           /\ s # <<>> /\ c = z /\ s[Len(s)] \in near => Beside(Append(s, c), z, near)
  <1> DEFINE t == Append(s, c)
             n == Len(s)
  <1>1. /\ n \in Nat /\ Len(t) = n + 1
        /\ \A i \in 1..n : t[i] = s[i]
        /\ t[n + 1] = c
    BY LenProperties, AppendProperties
  <1>2. s # <<>> => n \in 1..n
    BY <1>1, EmptySeq
  <1> HIDE DEF t, n
  <1>3. ASSUME Beside(s, z, near) PROVE Beside(t, z, near)
    <2>1. Len(s) = n
      BY DEF n
    <2>2. PICK i \in 1..(Len(s) - 1) :
            (s[i] = z /\ s[i + 1] \in near) \/ (s[i + 1] = z /\ s[i] \in near)
      BY <1>3 DEF Beside
    <2>3. i \in 1..n /\ i + 1 \in 1..n /\ i \in 1..(Len(t) - 1)
      BY <1>1, <2>1
    <2>4. t[i] = s[i] /\ t[i + 1] = s[i + 1]
      BY <1>1, <2>3
    <2>5. QED
      BY <2>2, <2>3, <2>4 DEF Beside
  <1>4. ASSUME s # <<>>, c = z, s[n] \in near PROVE Beside(t, z, near)
    <2>1. n \in 1..(Len(t) - 1) /\ t[n] = s[n] /\ t[n + 1] = z
      BY <1>1, <1>2, <1>4
    <2>2. QED
      BY <1>4, <2>1 DEF Beside
  <1>5. QED
    BY <1>3, <1>4 DEF t, n

\* No name ends in a framed character.
LEMMA FrameCloses ==
    ASSUME NEW code, NEW z, NEW Framed, Doubling(code, z, Framed),
           NEW v \in Seq(Char), NEW y \in Seq(Char), NEW f \in Framed
    PROVE  Spell(v, code) # Then(y, f)
  <1>1. /\ z \in Char /\ Framed \subseteq Char /\ code \in [Char -> Seq(Char)]
        /\ f \in Char /\ f # z
    BY DEF Doubling
  <1>2. CASE v = <<>>
    <2>1. Spell(v, code) = <<>> /\ Then(y, f) # <<>>
      BY <1>1, <1>2, SpellEmpty, ThenCuts
    <2>2. QED
      BY <2>1
  <1>3. CASE v # <<>>
    <2>1. PICK w \in Seq(Char), d \in Char : v = Append(w, d)
      BY <1>3, SequenceEmptyOrAppend
    <2> DEFINE x == Spell(w, code)
    <2>2. x \in Seq(Char) /\ Spell(v, code) = Ending(x, d, z, Framed)
      BY <2>1, DoublingAppend
    <2> HIDE DEF x
    <2>3. Then(x, z) \in Seq(Char) /\ Then(Then(x, z), d) \in Seq(Char)
      BY <1>1, <2>2, ThenCuts
    <2>4. CASE d = "/"
      <3>1. Ending(x, d, z, Framed) = Then(Then(x, z), z)
        BY <2>4 DEF Ending
      <3>2. Then(Then(x, z), z) # Then(y, f)
        BY <1>1, <2>3, ThenCuts
      <3>3. QED
        BY <2>2, <3>1, <3>2
    <2>5. CASE d # "/" /\ d \in Framed
      <3>1. Ending(x, d, z, Framed) = Then(Then(Then(x, z), d), z)
        BY <2>5 DEF Ending
      <3>2. Then(Then(Then(x, z), d), z) # Then(y, f)
        BY <1>1, <2>3, ThenCuts
      <3>3. QED
        BY <2>2, <3>1, <3>2
    <2>6. CASE d # "/" /\ d \notin Framed
      <3>1. Ending(x, d, z, Framed) = Then(x, d) /\ d # f
        BY <2>6 DEF Ending
      <3>2. Then(x, d) # Then(y, f)
        BY <1>1, <2>2, <3>1, ThenCuts
      <3>3. QED
        BY <2>2, <3>1, <3>2
    <2>7. QED
      BY <2>4, <2>5, <2>6
  <1>4. QED
    BY <1>2, <1>3

\* A path that ends in z is not spelled like one that ends in a slash, unless its z
\* stands beside another or beside a slash.
LEMMA EndsApart ==
    ASSUME NEW code, NEW z, NEW Framed, Doubling(code, z, Framed),
           NEW u \in Seq(Char), NEW v \in Seq(Char), ~Beside(Append(u, z), z, {z, "/"})
    PROVE  Spell(u, code) # Then(Spell(v, code), z)
  <1>1. /\ z \in Char /\ Framed \subseteq Char /\ z \notin Framed
        /\ code \in [Char -> Seq(Char)]
    BY DEF Doubling
  <1> DEFINE y == Spell(v, code)
  <1>2. y \in Seq(Char)
    BY <1>1, SpellAppend
  <1>3. CASE u = <<>>
    <2>1. Spell(u, code) = <<>>
      BY <1>1, <1>3, SpellEmpty
    <2> HIDE DEF y
    <2>2. Then(y, z) # <<>>
      BY <1>1, <1>2, ThenCuts
    <2>3. QED
      BY <2>1, <2>2 DEF y
  <1>4. CASE u # <<>>
    <2>1. PICK w \in Seq(Char), d \in Char : u = Append(w, d)
      BY <1>4, SequenceEmptyOrAppend
    <2>2. u[Len(u)] = d
      BY <2>1, AppendProperties
    <2>3. d \notin {z, "/"}
      BY <1>1, <1>4, <2>2, BesideLonger
    <2> DEFINE x == Spell(w, code)
    <2>4. x \in Seq(Char) /\ Spell(u, code) = Ending(x, d, z, Framed)
      BY <2>1, DoublingAppend
    <2>5. \A x1 \in Seq(Char) : y # Then(x1, d) \/ d \notin Framed
      BY FrameCloses
    <2> HIDE DEF x, y
    <2>6. CASE d \in Framed
      <3>1. Ending(x, d, z, Framed) = Then(Then(Then(x, z), d), z)
        BY <2>3, <2>6 DEF Ending
      <3>2. Then(x, z) \in Seq(Char) /\ Then(Then(x, z), d) \in Seq(Char)
        BY <1>1, <2>4, ThenCuts
      <3>3. Then(Then(x, z), d) # y
        BY <2>5, <2>6, <3>2
      <3>4. Then(Then(Then(x, z), d), z) # Then(y, z)
        BY <1>1, <1>2, <3>2, <3>3, ThenCuts
      <3>5. QED
        BY <2>4, <3>1, <3>4 DEF y
    <2>7. CASE d \notin Framed
      <3>1. Ending(x, d, z, Framed) = Then(x, d)
        BY <2>3, <2>7 DEF Ending
      <3>2. d # z
        BY <2>3
      <3>3. Then(x, d) # Then(y, z)
        BY <1>1, <1>2, <2>4, <3>2, ThenCuts
      <3>4. QED
        BY <2>4, <3>1, <3>3 DEF y
    <2>8. QED
      BY <2>6, <2>7
  <1>5. QED
    BY <1>3, <1>4

\* Which of two different characters is the one EndingsDiffer takes first.
EndsFirst(c, d, Framed) ==
    (d \in Framed => c \in Framed) /\ (d = "/" => c \in Framed \cup {"/"})

LEMMA LastsDiffer ==
    ASSUME NEW code, NEW z, NEW Framed, Doubling(code, z, Framed),
           NEW u \in Seq(Char), NEW v \in Seq(Char), NEW c \in Char, NEW d \in Char, c # d,
           EndsFirst(c, d, Framed), ~Beside(Append(v, d), z, {z, "/"})
    PROVE  Spell(Append(u, c), code) # Spell(Append(v, d), code)
  <1> SUFFICES ASSUME Spell(Append(u, c), code) = Spell(Append(v, d), code) PROVE FALSE
    OBVIOUS
  <1>1. z \in Char /\ Framed \in SUBSET Char /\ z \notin Framed \cup {"/"}
    BY DEF Doubling
  <1> DEFINE x == Spell(u, code)
             y == Spell(v, code)
  <1>2. /\ x \in Seq(Char) /\ y \in Seq(Char)
        /\ Ending(x, c, z, Framed) = Ending(y, d, z, Framed)
    <2>1. x \in Seq(Char) /\ Spell(Append(u, c), code) = Ending(x, c, z, Framed)
      BY DoublingAppend
    <2>2. y \in Seq(Char) /\ Spell(Append(v, d), code) = Ending(y, d, z, Framed)
      BY DoublingAppend
    <2>3. QED
      BY <2>1, <2>2
  <1>3. d = z => y # Then(x, z)
    BY EndsApart
  <1>4. c \in Framed => y # Then(Then(x, z), c)
    <2>1. Then(x, z) \in Seq(Char)
      BY <1>1, <1>2, ThenCuts
    <2> HIDE DEF x
    <2>2. QED
      BY <2>1, FrameCloses
  <1> HIDE DEF x, y
  <1>5. \/ c = "/" /\ d = z /\ y = Then(x, z)
        \/ c \in Framed /\ y = Then(Then(x, z), c)
    BY <1>1, <1>2, EndingsDiffer DEF EndsFirst
  <1>6. QED
    BY <1>3, <1>4, <1>5

LEMMA DoublingApart ==
    ASSUME NEW code, NEW z, NEW Framed, Doubling(code, z, Framed),
           NEW s \in Seq(Char), NEW t \in Seq(Char),
           ~Beside(s, z, {z, "/"}), ~Beside(t, z, {z, "/"}),
           Spell(s, code) = Spell(t, code)
    PROVE  s = t
  <1> DEFINE Good(u) == ~Beside(u, z, {z, "/"})
             Same(n) == \A u, v \in Seq(Char) :
                           Len(u) = n /\ Good(u) /\ Good(v) /\ Spell(u, code) = Spell(v, code)
                           => u = v
             T == {n \in Nat : Same(n)}
  <1>1. z \in Char /\ Framed \in SUBSET Char /\ code \in [Char -> Seq(Char)]
    BY DEF Doubling
  <1>2. ASSUME NEW u \in Seq(Char) PROVE u = <<>> <=> Spell(u, code) = <<>>
    <2>1. CASE u = <<>>
      BY <1>1, <2>1, SpellEmpty
    <2>2. CASE u # <<>>
      <3>1. PICK w \in Seq(Char), c \in Char : u = Append(w, c)
        BY <2>2, SequenceEmptyOrAppend
      <3>2. /\ Spell(w, code) \in Seq(Char)
            /\ Spell(u, code) = Ending(Spell(w, code), c, z, Framed)
        BY <3>1, DoublingAppend
      <3>3. QED
        BY <1>1, <2>2, <3>2, EndingIsPath
    <2>3. QED
      BY <2>1, <2>2
  <1>3. 0 \in T
    <2>1. ASSUME NEW u \in Seq(Char), NEW v \in Seq(Char), Len(u) = 0,
                 Spell(u, code) = Spell(v, code)
          PROVE  u = v
      <3>1. u = <<>>
        BY <2>1, EmptySeq
      <3>2. QED
        BY <1>2, <2>1, <3>1
    <2>2. QED
      BY <2>1
  <1>4. ASSUME NEW n \in Nat, n \in T PROVE n + 1 \in T
    <2>1. ASSUME NEW u \in Seq(Char), NEW v \in Seq(Char), Len(u) = n + 1,
                 Good(u), Good(v), Spell(u, code) = Spell(v, code)
          PROVE  u = v
      <3>1. u # <<>>
        BY <2>1, EmptySeq
      <3>2. v # <<>>
        BY <1>2, <2>1, <3>1
      <3>3. PICK u1 \in Seq(Char), c \in Char : u = Append(u1, c)
        BY <3>1, SequenceEmptyOrAppend
      <3>4. PICK v1 \in Seq(Char), d \in Char : v = Append(v1, d)
        BY <3>2, SequenceEmptyOrAppend
      <3>5. Len(u1) = n
        BY <2>1, <3>3, AppendProperties, LenProperties
      <3>6. Good(u1) /\ Good(v1)
        BY <2>1, <3>3, <3>4, BesideLonger
      <3>7. c = d
        <4>1. c # d => ~EndsFirst(c, d, Framed) /\ ~EndsFirst(d, c, Framed)
          BY <2>1, <3>3, <3>4, LastsDiffer
        <4>2. c # d => EndsFirst(c, d, Framed) \/ EndsFirst(d, c, Framed)
          BY DEF EndsFirst
        <4>3. QED
          BY <4>1, <4>2
      <3>8. Spell(u1, code) = Spell(v1, code)
        <4> DEFINE x == Spell(u1, code)
                   y == Spell(v1, code)
        <4>1. x \in Seq(Char) /\ Spell(u, code) = Ending(x, c, z, Framed)
          BY <3>3, DoublingAppend
        <4>2. y \in Seq(Char) /\ Spell(v, code) = Ending(y, c, z, Framed)
          BY <3>4, <3>7, DoublingAppend
        <4> HIDE DEF x, y
        <4>3. x = y
          BY <1>1, <2>1, <4>1, <4>2, EndingCuts
        <4>4. QED
          BY <4>3 DEF x, y
      <3>9. u1 = v1
        BY <1>4, <3>5, <3>6, <3>8
      <3>10. QED
        BY <3>3, <3>4, <3>7, <3>9
    <2>2. Same(n + 1)
      BY <2>1
    <2> HIDE DEF Same
    <2>3. QED
      BY <2>2
  <1>5. Len(s) \in T
    <2>1. Len(s) \in Nat
      BY LenProperties
    <2>2. T \in SUBSET Nat
      OBVIOUS
    <2> HIDE DEF T
    <2>3. QED
      BY <1>3, <1>4, <2>1, <2>2, Induct
  <1>6. QED
    BY <1>5

(***************************************************************************)
(* The key of a path: what is left of it without leading slashes.          *)
(***************************************************************************)
LEMMA KeyInherits ==
    ASSUME NEW p \in Seq(Char), NEW t, t = TrimLeft(p, "/"), t # <<>>
    PROVE  /\ t \in Seq(Char) /\ Len(t) \in Nat \ {0}
           /\ t[1] # "/" /\ t[Len(t)] = p[Len(p)]
           /\ Chars(t) \subseteq Chars(p)
           /\ \A c, near : Beside(t, c, near) => Beside(p, c, near)
  <1>1. PICK i \in 1..Len(p) :
            /\ t \in Seq(Char) /\ Len(t) = Len(p) - i + 1 /\ t[1] # "/"
            /\ \A j \in 1..Len(t) : t[j] = p[i + j - 1]
    BY KeyIsEnd
  <1>2. Len(p) \in Nat /\ Len(t) \in Nat \ {0}
    BY <1>1, LenProperties, EmptySeq
  <1>3. t[Len(t)] = p[Len(p)]
    <2>1. Len(t) \in 1..Len(t) /\ i + Len(t) - 1 = Len(p)
      BY <1>1, <1>2
    <2>2. QED
      BY <1>1, <2>1
  <1>4. \A j \in 1..Len(t) : i + j - 1 \in 1..Len(p)
    BY <1>1, <1>2
  <1>5. Chars(t) \subseteq Chars(p)
    BY <1>1, <1>4 DEF Chars
  <1>6. ASSUME NEW c, NEW near, Beside(t, c, near) PROVE Beside(p, c, near)
    <2>1. PICK j \in 1..(Len(t) - 1) :
            (t[j] = c /\ t[j + 1] \in near) \/ (t[j + 1] = c /\ t[j] \in near)
      BY <1>6 DEF Beside
    <2>2. j \in 1..Len(t) /\ j + 1 \in 1..Len(t)
      BY <1>2
    <2>3. t[j] = p[i + j - 1] /\ t[j + 1] = p[i + (j + 1) - 1]
      BY <1>1, <2>2
    <2>4. i + (j + 1) - 1 = (i + j - 1) + 1 /\ i + j - 1 \in 1..(Len(p) - 1)
      BY <1>1, <1>2
    <2>5. QED
      BY <2>1, <2>3, <2>4 DEF Beside
  <1>7. QED
    BY <1>1, <1>2, <1>3, <1>5, <1>6

LEMMA SeqOfChars ==
    ASSUME NEW S, NEW s \in Seq(S), NEW U, Chars(s) \subseteq U
    PROVE  s \in Seq(U)
  <1>1. Len(s) \in Nat /\ \A i \in 1..Len(s) : s[i] \in U
    BY LenProperties DEF Chars
  <1>2. SubSeq(s, 1, Len(s)) \in Seq(U)
    BY <1>1, SubSeqProperties
  <1>3. QED
    BY <1>2, SubSeqFull

\* What is known of a path a driver keeps apart, and how it is called.
LEMMA ApartPath ==
    ASSUME NEW k \in Kinds, NEW p \in Apart[k]
    PROVE  /\ p \in Paths /\ p \in Seq(Char) /\ p # <<>>
           /\ KeyOf(k, p) # <<>> /\ NameOf[k][p] = Name(k, p)
           /\ KeptApart(k, p)
  <1>1. p \in Paths /\ KeptApart(k, p) /\ p \in Seq(Char)
    BY NamesAssumption DEF Apart
  <1>2. NameOf[k][p] = Name(k, p)
    BY DEF NameOf
  <1>3. p # <<>> /\ KeyOf(k, p) # <<>>
    BY <1>1 DEF KeptApart
  <1>4. QED
    BY <1>1, <1>2, <1>3

LEMMA Uppers ==
    /\ \A c \in Small : Upper(c) \in Capitals
    /\ \A c, d \in Small : Upper(c) = Upper(d) => c = d
    /\ \A c \in Char \ Small : Upper(c) = c
    /\ \A c \in Letters : c \notin Marks
  BY NamesAssumption DEF Upper, Capitals, Letters

(***************************************************************************)
(* The drivers one by one: what the name of a path is, which key it stands *)
(* for, and that it fits the service.                                      *)
(***************************************************************************)
LEMMA GcpDoubles == Doubling(GcpCode, "_", {})
  <1>1. <<"_", "_">> \in Seq(Char) /\ \A c \in Char : <<c>> \in Seq(Char)
    <2>1. "_" \in Char
      BY DEF Char, Marks
    <2>2. QED
      BY <2>1, ShortSeqs
  <1>2. GcpCode \in [Char -> Seq(Char)]
    BY <1>1 DEF GcpCode
  <1>3. GcpCode["/"] = <<"_", "_">> /\ \A c \in Char \ {"/"} : GcpCode[c] = <<c>>
    BY DEF GcpCode, Char, Marks
  <1>4. "_" \in Char \ {"/"} /\ "/" \in Char
    BY DEF Char, Marks
  <1>5. QED
    BY <1>2, <1>3, <1>4 DEF Doubling

LEMMA AzureDoubles == Doubling(AzureCode, "-", {"_"})
  <1>1. /\ <<"-", "-">> \in Seq(Char) /\ <<"-", "_", "-">> \in Seq(Char)
        /\ \A c \in Char : <<c>> \in Seq(Char)
    <2>1. "_" \in Char /\ "-" \in Char
      BY DEF Char, Marks
    <2>2. QED
      BY <2>1, ShortSeqs
  <1>2. AzureCode \in [Char -> Seq(Char)]
    BY <1>1 DEF AzureCode
  <1>3. /\ AzureCode["/"] = <<"-", "-">> /\ AzureCode["_"] = <<"-", "_", "-">>
        /\ \A c \in Char \ {"_", "/"} : AzureCode[c] = <<c>>
    BY DEF AzureCode, Char, Marks
  <1>4. "-" \in Char /\ "/" \in Char /\ "_" \in Char
    BY DEF Char, Marks
  <1>5. QED
    BY <1>2, <1>3, <1>4 DEF Doubling

\* A name in which "_" for a slash and capitals for letters are all there is to spell.
CapsEach(kept) == [c \in Char |-> IF c \in kept THEN Upper(c) ELSE "_"]

LEMMA CapsIsEach ==
    ASSUME NEW kept, kept = Letters \/ kept = Letters \cup {"_", "-"}
    PROVE  Each(CapsCode(kept), CapsEach(kept), Char)
  <1> DEFINE S == Char
             f == CapsEach(kept)
  <1>1. \A c \in Char : Upper(c) \in S
    BY Uppers DEF Char, Marks, Letters
  <1>2. \A c \in Char : f[c] \in S /\ CapsCode(kept)[c] = <<f[c]>>
    BY <1>1 DEF CapsEach, CapsCode, Char, Marks
  <1>3. CapsCode(kept) \in [Char -> Seq(S)]
    <2>1. \A c \in S : <<c>> \in Seq(S)
      BY ShortSeqs
    <2>2. \A c \in Char : (IF c \in kept THEN <<Upper(c)>> ELSE <<"_">>) \in Seq(S)
      BY <1>1, <2>1 DEF Char, Marks
    <2>3. QED
      BY <2>2 DEF CapsCode
  <1>4. QED
    BY <1>2, <1>3 DEF Each

LEMMA EachEnds ==
    ASSUME NEW S, NEW code, NEW f, Each(code, f, S), NEW t \in Seq(Char), t # <<>>
    PROVE  LET w == Spell(t, code) IN
              /\ w \in Seq(S) /\ w # <<>> /\ Len(w) = Len(t)
              /\ w[1] = f[t[1]] /\ w[Len(w)] = f[t[Len(t)]]
  <1>1. /\ Spell(t, code) \in Seq(S) /\ Len(Spell(t, code)) = Len(t)
        /\ \A i \in 1..Len(t) : Spell(t, code)[i] = f[t[i]]
    BY SpellsEach
  <1>2. Len(t) \in Nat \ {0}
    BY EmptySeq
  <1>3. 1 \in 1..Len(t) /\ Len(t) \in 1..Len(t)
    BY <1>2
  <1>4. Spell(t, code) # <<>>
    BY <1>1, <1>2, EmptySeq
  <1>5. QED
    BY <1>1, <1>3, <1>4

\* A name whose ends are no c loses nothing at them.
LEMMA EndsKept ==
    ASSUME NEW S, NEW code, NEW f, Each(code, f, S), NEW t \in Seq(Char), t # <<>>,
           NEW c, f[t[1]] # c, f[t[Len(t)]] # c
    PROVE  TrimRight(TrimLeft(Spell(t, code), c), c) = Spell(t, code)
  <1> DEFINE w == Spell(t, code)
  <1>1. /\ w \in Seq(S) /\ w # <<>> /\ Len(w) = Len(t)
        /\ w[1] = f[t[1]] /\ w[Len(w)] = f[t[Len(t)]]
    BY EachEnds
  <1> HIDE DEF w
  <1>2. w[1] # c /\ w[Len(w)] # c
    BY <1>1
  <1>3. TrimLeft(w, c) = w
    BY <1>1, <1>2, TrimLeftKeeps
  <1>4. TrimRight(w, c) = w
    BY <1>1, <1>2, TrimRightKeeps
  <1>5. QED
    BY <1>3, <1>4 DEF w

LEMMA EachChars ==
    ASSUME NEW S, NEW code, NEW f, Each(code, f, S), NEW Used \in SUBSET Char,
           NEW t \in Seq(Used), NEW x \in Chars(Spell(t, code))
    PROVE  \E c \in Used : x = f[c]
  <1>1. t \in Seq(Char)
    BY SeqMonotonic
  <1>2. /\ Len(Spell(t, code)) = Len(t)
        /\ \A i \in 1..Len(t) : Spell(t, code)[i] = f[t[i]]
    BY <1>1, SpellsEach
  <1>3. \A i \in 1..Len(t) : t[i] \in Used
    BY ElementOfSeq
  <1>4. QED
    BY <1>2, <1>3 DEF Chars

\* doppler and infisical: the keys whose characters all have a capital of their own, and
\* that begin and end with something else than a slash.
CapsChars(kept) == Small \cup {"/"} \cup ({"-"} \cap kept)
CapsKeys(kept) ==
    {t \in Seq(CapsChars(kept)) : t # <<>> /\ {t[1], t[Len(t)]} \subseteq CapsChars(kept) \ {"/"}}
CapsSets == {Letters, Letters \cup {"_", "-"}}

LEMMA CapsNames ==
    ASSUME NEW kept \in CapsSets, NEW t \in CapsKeys(kept)
    PROVE  LET w == Spell(t, CapsCode(kept)) IN
              /\ TrimRight(TrimLeft(w, "_"), "_") = w
              /\ w # <<>>
              /\ \A x \in Chars(w) : \E c \in CapsChars(kept) : x = CapsEach(kept)[c]
  <1> DEFINE f == CapsEach(kept)
             code == CapsCode(kept)
             S == Char
             Used == CapsChars(kept)
             u == "_"
  <1>1. Each(code, f, S)
    BY CapsIsEach DEF CapsSets
  <1>2. \A c \in Used \ {"/"} : f[c] # u
    <2>1. ASSUME NEW c \in Small PROVE f[c] # u
      <3>1. c \in Char /\ c \in kept /\ Upper(c) \in Letters
        BY Uppers DEF CapsSets, Char, Marks, Letters
      <3>2. "_" \in Marks
        BY DEF Marks
      <3>3. QED
        BY <3>1, <3>2, Uppers DEF CapsEach
    <2>2. ASSUME "-" \in kept PROVE f["-"] # u
      <3>1. "-" \in Char /\ "-" \notin Small
        BY Uppers DEF Char, Letters, Marks
      <3>2. Upper("-") = "-"
        BY <3>1, Uppers
      <3>3. QED
        BY <2>2, <3>1, <3>2 DEF CapsEach
    <2>3. QED
      BY <2>1, <2>2 DEF CapsChars
  <1>3. Used \in SUBSET Char
    BY DEF CapsChars, Char, Letters, Marks
  <1>4. t \in Seq(Used) /\ t # <<>>
    BY DEF CapsKeys
  <1>5. f[t[1]] # u /\ f[t[Len(t)]] # u
    BY <1>2 DEF CapsKeys
  <1> HIDE DEF f, code, S, Used, u
  <1>6. t \in Seq(Char)
    BY <1>3, <1>4, SeqMonotonic
  <1>7. TrimRight(TrimLeft(Spell(t, code), u), u) = Spell(t, code)
    BY <1>1, <1>4, <1>5, <1>6, EndsKept
  <1>8. Spell(t, code) # <<>>
    BY <1>1, <1>4, <1>6, EachEnds
  <1>9. ASSUME NEW x \in Chars(Spell(t, code)) PROVE \E c \in Used : x = f[c]
    BY <1>1, <1>3, <1>4, EachChars
  <1>10. QED
    BY <1>7, <1>8, <1>9 DEF f, code, Used, u

\* Small letters, the slash and a kept "-" become different characters.
LEMMA CapsDiffer ==
    ASSUME NEW kept \in CapsSets, NEW c \in CapsChars(kept), NEW d \in CapsChars(kept),
           CapsEach(kept)[c] = CapsEach(kept)[d]
    PROVE  c = d
  <1> DEFINE f == CapsEach(kept)
  <1>1. ASSUME NEW e \in Small PROVE f[e] = Upper(e) /\ f[e] \in Letters /\ f[e] \notin Marks
    <2>1. e \in Char /\ e \in kept /\ Upper(e) \in Letters
      BY Uppers DEF CapsSets, Char, Marks, Letters
    <2>2. QED
      BY <2>1, Uppers DEF CapsEach
  <1>2. "/" \in Char \ Letters /\ "-" \in Char \ Letters
    BY Uppers DEF Char, Marks
  <1>3. f["/"] = "_" /\ ("-" \in kept => f["-"] = "-")
    <2>1. "/" \notin kept
      <3>1. kept = Letters \/ kept = Letters \cup {"_", "-"}
        BY DEF CapsSets
      <3>2. "/" \notin Letters
        BY <1>2
      <3>3. CASE kept = Letters
        BY <3>2, <3>3, Zenon
      <3>4. CASE kept = Letters \cup {"_", "-"}
        <4>1. "/" \notin Letters \cup {"_", "-"}
          BY ONLY <3>2
        <4>2. QED
          BY <4>1, <3>4, Zenon
      <3>5. QED
        BY <3>1, <3>3, <3>4
    <2>2. Upper("-") = "-"
      BY <1>2, Uppers DEF Letters
    <2>3. QED
      BY <1>2, <2>1, <2>2 DEF CapsEach
  <1>4. "_" \in Marks /\ "-" \in Marks
    BY DEF Marks
  <1>5. c \in Small \/ c = "/" \/ (c = "-" /\ "-" \in kept)
    BY DEF CapsChars
  <1>6. d \in Small \/ d = "/" \/ (d = "-" /\ "-" \in kept)
    BY DEF CapsChars
  <1>7. CASE c \in Small /\ d \in Small
    BY <1>1, <1>7, Uppers
  <1>8. CASE c \notin Small \/ d \notin Small
    BY <1>1, <1>3, <1>4, <1>5, <1>6, <1>8
  <1>9. QED
    BY <1>7, <1>8

LEMMA EndIndices == \A n \in Nat \ {0} : 1 \in 1..n /\ n \in 1..n
  OBVIOUS

\* What is common to all paths but the raw ones.
LEMMA ApartKey ==
    ASSUME NEW k \in Kinds, k # "raw", NEW p \in Apart[k]
    PROVE  LET t == KeyOf(k, p) IN
              /\ t = TrimLeft(p, "/") /\ t \in Seq(Char) /\ t # <<>> /\ t[1] # "/"
              /\ Len(t) \in Nat \ {0} /\ t[Len(t)] = p[Len(p)]
              /\ Chars(t) \subseteq Chars(p)
              /\ \A c, near : Beside(t, c, near) => Beside(p, c, near)
  <1> DEFINE t == KeyOf(k, p)
  <1>1. t = TrimLeft(p, "/") /\ t # <<>> /\ p \in Seq(Char)
    BY ApartPath DEF KeyOf
  <1> HIDE DEF t
  <1>2. /\ t \in Seq(Char) /\ Len(t) \in Nat \ {0}
        /\ t[1] # "/" /\ t[Len(t)] = p[Len(p)]
        /\ Chars(t) \subseteq Chars(p)
        /\ \A c, near : Beside(t, c, near) => Beside(p, c, near)
    BY <1>1, KeyInherits
  <1>3. QED
    BY <1>1, <1>2 DEF t

LEMMA GcpPath ==
    ASSUME "gcp" \in Kinds, NEW p \in Apart["gcp"]
    PROVE  LET t == KeyOf("gcp", p) IN
              /\ t \in Seq(Char) /\ t # <<>> /\ ~Beside(t, "_", {"_", "/"})
              /\ NameOf["gcp"][p] = Spell(t, GcpCode)
  <1>1. ~Beside(p, "_", {"_", "/"})
    <2>1. KeptApart("gcp", p)
      BY ApartPath
    <2>2. QED
      BY <2>1, Zenon DEF KeptApart
  <1>2. NameOf["gcp"][p] = Spell(TrimLeft(p, "/"), GcpCode)
    <2>1. Name("gcp", p) = GcpName(p)
      BY Zenon DEF Name
    <2>2. NameOf["gcp"][p] = Name("gcp", p)
      BY ApartPath
    <2>3. QED
      BY <2>1, <2>2 DEF GcpName
  <1>3. QED
    BY <1>1, <1>2, ApartKey

LEMMA AzurePath ==
    ASSUME "azure" \in Kinds, NEW p \in Apart["azure"]
    PROVE  LET t == KeyOf("azure", p) IN
              /\ t \in Seq(Char) /\ t # <<>> /\ ~Beside(t, "-", {"-", "/"})
              /\ NameOf["azure"][p] = Spell(t, AzureCode)
  <1>1. ~Beside(p, "-", {"-", "/"})
    <2>1. KeptApart("azure", p)
      BY ApartPath
    <2>2. QED
      BY <2>1, Zenon DEF KeptApart
  <1>2. NameOf["azure"][p] = Spell(TrimLeft(p, "/"), AzureCode)
    <2>1. Name("azure", p) = AzureName(p)
      BY Zenon DEF Name
    <2>2. NameOf["azure"][p] = Name("azure", p)
      BY ApartPath
    <2>3. QED
      BY <2>1, <2>2 DEF AzureName
  <1>3. QED
    BY <1>1, <1>2, ApartKey

CapsKind(k, kept) ==
    \/ k = "doppler" /\ kept = Letters
    \/ k = "infisical" /\ kept = Letters \cup {"_", "-"}

LEMMA CapsPath ==
    ASSUME NEW k \in Kinds, NEW kept, CapsKind(k, kept), NEW p \in Apart[k]
    PROVE  LET t == KeyOf(k, p) IN
              /\ kept \in CapsSets /\ t \in CapsKeys(kept)
              /\ NameOf[k][p] = Spell(t, CapsCode(kept))
  <1> DEFINE t == KeyOf(k, p)
  <1>1. \/ k = "doppler" /\ kept = Letters
        \/ k = "infisical" /\ kept = Letters \cup {"_", "-"}
    BY DEF CapsKind
  <1>2. Chars(p) \subseteq CapsChars(kept) /\ Last(p) # "/"
    <2>1. KeptApart(k, p)
      BY ApartPath
    <2>2. CASE k = "doppler"
      <3>1. Chars(p) \subseteq Small \cup {"/"} /\ Last(p) # "/"
        BY <2>1, <2>2, Zenon DEF KeptApart
      <3>2. QED
        BY <3>1 DEF CapsChars
    <2>3. CASE k = "infisical"
      <3>1. Chars(p) \subseteq Small \cup {"-", "/"} /\ Last(p) # "/"
        BY <2>1, <2>3, Zenon DEF KeptApart
      <3>2. "-" \in kept
        BY <1>1, <2>3
      <3>3. QED
        BY <3>1, <3>2 DEF CapsChars
    <2>4. QED
      BY <1>1, <2>2, <2>3
  <1>3. NameOf[k][p] = Caps(p, kept)
    <2>1. NameOf[k][p] = Name(k, p)
      BY ApartPath
    <2>2. CASE k = "doppler"
      <3>1. Name(k, p) = DopplerName(p)
        BY <2>2, Zenon DEF Name
      <3>2. QED
        BY <1>1, <2>1, <2>2, <3>1 DEF DopplerName
    <2>3. CASE k = "infisical"
      <3>1. Name(k, p) = InfisicalName(p)
        BY <2>3, Zenon DEF Name
      <3>2. QED
        BY <1>1, <2>1, <2>3, <3>1 DEF InfisicalName
    <2>4. QED
      BY <1>1, <2>2, <2>3
  <1>4. kept \in CapsSets /\ k # "raw"
    BY <1>1 DEF CapsSets
  <1>5. /\ t = TrimLeft(p, "/") /\ t \in Seq(Char) /\ t # <<>> /\ t[1] # "/"
        /\ Len(t) \in Nat \ {0} /\ t[Len(t)] = p[Len(p)] /\ Chars(t) \subseteq Chars(p)
    BY <1>4, ApartKey
  <1> HIDE DEF t
  <1>6. Chars(t) \subseteq CapsChars(kept)
    BY <1>2, <1>5
  <1>7. t \in Seq(CapsChars(kept))
    BY <1>5, <1>6, SeqOfChars
  <1>8. {t[1], t[Len(t)]} \subseteq CapsChars(kept) \ {"/"}
    <2>1. 1 \in 1..Len(t) /\ Len(t) \in 1..Len(t)
      BY <1>5, EndIndices
    <2>2. t[1] \in Chars(t) /\ t[Len(t)] \in Chars(t)
      BY <2>1 DEF Chars
    <2>3. t[Len(t)] # "/"
      BY <1>2, <1>5 DEF Last
    <2>4. QED
      BY <1>5, <1>6, <2>2, <2>3
  <1>9. t \in CapsKeys(kept)
    BY <1>5, <1>7, <1>8 DEF CapsKeys
  <1>10. NameOf[k][p] = Spell(t, CapsCode(kept))
    <2>1. TrimRight(TrimLeft(Spell(t, CapsCode(kept)), "_"), "_") = Spell(t, CapsCode(kept))
      BY <1>4, <1>9, CapsNames
    <2>2. QED
      BY <1>3, <1>5, <2>1 DEF Caps
  <1>11. QED
    BY <1>4, <1>9, <1>10 DEF t

PulumiEach == [c \in Char |-> IF c = "/" THEN "." ELSE c]

LEMMA PulumiIsEach == Each(PulumiCode, PulumiEach, Char)
  <1>1. \A c \in Char : PulumiEach[c] \in Char /\ PulumiCode[c] = <<PulumiEach[c]>>
    BY DEF PulumiEach, PulumiCode, Char, Marks
  <1>2. \A c \in Char : <<c>> \in Seq(Char)
    BY ShortSeqs
  <1>3. PulumiCode \in [Char -> Seq(Char)]
    <2>1. \A c \in Char : (IF c = "/" THEN <<".">> ELSE <<c>>) \in Seq(Char)
      BY <1>2 DEF Char, Marks
    <2>2. QED
      BY <2>1 DEF PulumiCode
  <1>4. QED
    BY <1>1, <1>3 DEF Each

LEMMA PulumiPath ==
    ASSUME "pulumi" \in Kinds, NEW p \in Apart["pulumi"]
    PROVE  LET t == KeyOf("pulumi", p) IN
              /\ t \in Seq(Char \ {"."}) /\ t # <<>>
              /\ NameOf["pulumi"][p] = Spell(t, PulumiCode)
  <1>1. "." \notin Chars(p)
    <2>1. KeptApart("pulumi", p)
      BY ApartPath
    <2>2. QED
      BY <2>1, Zenon DEF KeptApart
  <1>2. NameOf["pulumi"][p] = Spell(TrimLeft(p, "/"), PulumiCode)
    <2>1. Name("pulumi", p) = PulumiName(p)
      BY Zenon DEF Name
    <2>2. NameOf["pulumi"][p] = Name("pulumi", p)
      BY ApartPath
    <2>3. QED
      BY <2>1, <2>2 DEF PulumiName
  <1> DEFINE t == KeyOf("pulumi", p)
  <1>3. /\ t = TrimLeft(p, "/") /\ t \in Seq(Char) /\ t # <<>> /\ Chars(t) \subseteq Chars(p)
    BY ApartKey
  <1> HIDE DEF t
  <1>4. Chars(t) \subseteq Char
    BY <1>3, ElementOfSeq DEF Chars
  <1>5. Chars(t) \subseteq Char \ {"."}
    BY <1>1, <1>3, <1>4
  <1>6. t \in Seq(Char \ {"."})
    BY <1>3, <1>5, SeqOfChars
  <1>7. QED
    BY <1>2, <1>3, <1>6 DEF t

\* What an ssm name begins with, for every path the same.
SsmStart == IF Prefix = <<>> THEN <<"/">> ELSE (<<"/">> \o Prefix) \o <<"/">>

LEMMA SsmStarts == SsmStart \in Seq(Char) /\ SsmStart # <<>>
  <1> DEFINE slash == <<"/">>
  <1>1. slash \in Seq(Char)
    <2>1. "/" \in Char
      BY DEF Char, Marks
    <2>2. QED
      BY <2>1, ShortSeqs
  <1>2. Len(slash) = 1
    OBVIOUS
  <1>3. SsmStart = IF Prefix = <<>> THEN slash ELSE (slash \o Prefix) \o slash
    BY DEF SsmStart
  <1>4. Prefix \in Seq(Char)
    BY NamesAssumption
  <1> HIDE DEF slash
  <1>5. slash \o Prefix \in Seq(Char)
    BY <1>1, <1>4, ConcatProperties
  <1>6. (slash \o Prefix) \o slash \in Seq(Char)
    BY <1>1, <1>5, ConcatProperties
  <1>7. slash # <<>>
    BY <1>2, EmptySeq
  <1>8. (slash \o Prefix) \o slash # <<>>
    BY <1>1, <1>5, <1>7, ConcatSimplifications
  <1>9. QED
    BY <1>1, <1>3, <1>6, <1>7, <1>8

LEMMA SsmPath ==
    ASSUME "ssm" \in Kinds, NEW p \in Apart["ssm"]
    PROVE  NameOf["ssm"][p] = SsmStart \o KeyOf("ssm", p)
  <1> DEFINE slash == <<"/">>
             t == KeyOf("ssm", p)
  <1>1. Name("ssm", p) = SsmName(p)
    BY Zenon DEF Name
  <1>2. NameOf["ssm"][p] = SsmName(p)
    BY <1>1, ApartPath
  <1>3. t = TrimLeft(p, "/") /\ t \in Seq(Char)
    BY ApartKey
  <1>4. SsmName(p) = IF Prefix = <<>> THEN slash \o t ELSE (slash \o Prefix) \o (slash \o t)
    BY <1>3 DEF SsmName
  <1>5. SsmStart = IF Prefix = <<>> THEN slash ELSE (slash \o Prefix) \o slash
    BY DEF SsmStart
  <1>6. slash \in Seq(Char) /\ Prefix \in Seq(Char)
    <2>1. "/" \in Char
      BY DEF Char, Marks
    <2>2. QED
      BY <2>1, ShortSeqs, NamesAssumption
  <1> HIDE DEF slash, t
  <1>7. slash \o Prefix \in Seq(Char)
    BY <1>6, ConcatProperties
  <1>8. ((slash \o Prefix) \o slash) \o t = (slash \o Prefix) \o (slash \o t)
    BY <1>3, <1>6, <1>7, ConcatAssociative
  <1>9. SsmName(p) = SsmStart \o t
    BY <1>4, <1>5, <1>8
  <1>10. QED
    BY <1>2, <1>9 DEF t

\* Names are made of keys: two paths have one name only if they have one key.
LEMMA NamesFollowKeys ==
    ASSUME NEW k \in Kinds, NEW p \in Apart[k], NEW q \in Apart[k]
    PROVE  NameOf[k][p] = NameOf[k][q] <=> KeyOf(k, p) = KeyOf(k, q)
  <1> DEFINE s == KeyOf(k, p)
             t == KeyOf(k, q)
  <1>1. CASE k = "gcp"
    <2>1. /\ s \in Seq(Char) /\ ~Beside(s, "_", {"_", "/"}) /\ NameOf[k][p] = Spell(s, GcpCode)
          /\ t \in Seq(Char) /\ ~Beside(t, "_", {"_", "/"}) /\ NameOf[k][q] = Spell(t, GcpCode)
      BY <1>1, GcpPath
    <2> HIDE DEF s, t
    <2>2. Spell(s, GcpCode) = Spell(t, GcpCode) => s = t
      BY <2>1, GcpDoubles, DoublingApart
    <2>3. QED
      BY <2>1, <2>2 DEF s, t
  <1>2. CASE k = "azure"
    <2>1. /\ s \in Seq(Char) /\ ~Beside(s, "-", {"-", "/"})
          /\ t \in Seq(Char) /\ ~Beside(t, "-", {"-", "/"})
          /\ NameOf[k][p] = Spell(s, AzureCode) /\ NameOf[k][q] = Spell(t, AzureCode)
      BY <1>2, AzurePath
    <2> HIDE DEF s, t
    <2>2. Spell(s, AzureCode) = Spell(t, AzureCode) => s = t
      BY <2>1, AzureDoubles, DoublingApart
    <2>3. QED
      BY <2>1, <2>2 DEF s, t
  <1>3. CASE k \in {"doppler", "infisical"}
    <2> DEFINE kept == IF k = "doppler" THEN Letters ELSE Letters \cup {"_", "-"}
    <2>1. CapsKind(k, kept)
      BY <1>3 DEF CapsKind
    <2> HIDE DEF kept
    <2>2. /\ kept \in CapsSets /\ s \in CapsKeys(kept) /\ t \in CapsKeys(kept)
          /\ NameOf[k][p] = Spell(s, CapsCode(kept)) /\ NameOf[k][q] = Spell(t, CapsCode(kept))
      <3>1. ASSUME NEW r \in Apart[k]
            PROVE  /\ kept \in CapsSets /\ KeyOf(k, r) \in CapsKeys(kept)
                   /\ NameOf[k][r] = Spell(KeyOf(k, r), CapsCode(kept))
        BY <2>1, CapsPath
      <3>2. QED
        BY <3>1
    <2>3. s \in Seq(CapsChars(kept)) /\ t \in Seq(CapsChars(kept))
      BY <2>2 DEF CapsKeys
    <2> HIDE DEF s, t
    <2>4. Each(CapsCode(kept), CapsEach(kept), Char)
      BY <2>1, CapsIsEach DEF CapsKind
    <2>5. CapsChars(kept) \in SUBSET Char
      BY DEF CapsChars, Char, Letters, Marks
    <2>6. \A c, d \in CapsChars(kept) : CapsEach(kept)[c] = CapsEach(kept)[d] => c = d
      BY <2>2, CapsDiffer
    <2>7. Spell(s, CapsCode(kept)) = Spell(t, CapsCode(kept)) => s = t
      BY <2>3, <2>4, <2>5, <2>6, EachApart
    <2>8. QED
      BY <2>2, <2>7 DEF s, t
  <1>4. CASE k = "pulumi"
    <2>1. /\ s \in Seq(Char \ {"."}) /\ NameOf[k][p] = Spell(s, PulumiCode)
          /\ t \in Seq(Char \ {"."}) /\ NameOf[k][q] = Spell(t, PulumiCode)
      BY <1>4, PulumiPath
    <2> HIDE DEF s, t
    <2>2. \A c, d \in Char \ {"."} : PulumiEach[c] = PulumiEach[d] => c = d
      BY DEF PulumiEach
    <2>3. Spell(s, PulumiCode) = Spell(t, PulumiCode) => s = t
      BY <2>1, <2>2, PulumiIsEach, EachApart
    <2>4. QED
      BY <2>1, <2>3 DEF s, t
  <1>5. CASE k = "ssm"
    <2>1. ASSUME NEW r \in Apart[k] PROVE NameOf[k][r] = SsmStart \o KeyOf(k, r)
      BY <1>5, <2>1, SsmPath
    <2>2. s \in Seq(Char) /\ t \in Seq(Char)
      BY <1>5, ApartKey
    <2>3. SsmStart \o s = SsmStart \o t => s = t
      <3> HIDE DEF s, t
      <3>1. QED
        BY <2>2, SsmStarts, ConcatSimplifications
    <2>4. QED
      BY <2>1, <2>3
  <1>6. CASE k = "trimmed"
    <2>1. ASSUME NEW r \in Apart[k] PROVE NameOf[k][r] = KeyOf(k, r)
      <3>1. Name(k, r) = TrimLeft(r, "/")
        BY <1>6, Zenon DEF Name
      <3>2. NameOf[k][r] = Name(k, r) /\ KeyOf(k, r) = TrimLeft(r, "/")
        BY <1>6, ApartPath, ApartKey
      <3>3. QED
        BY <3>1, <3>2
    <2>2. QED
      BY <2>1
  <1>7. CASE k = "raw"
    <2>1. ASSUME NEW r \in Apart[k] PROVE NameOf[k][r] = KeyOf(k, r)
      <3>1. Name(k, r) = r
        BY <1>7, Zenon DEF Name
      <3>2. NameOf[k][r] = Name(k, r) /\ KeyOf(k, r) = r
        BY <1>7, ApartPath DEF KeyOf
      <3>3. QED
        BY <3>1, <3>2
    <2>2. QED
      BY <2>1
  <1>8. QED
    BY <1>1, <1>2, <1>3, <1>4, <1>5, <1>6, <1>7, NamesAssumption

(***************************************************************************)
(* What the service keeps.                                                 *)
(***************************************************************************)
\* The paths in use are kept apart, and the service keeps one secret for each key.
NamesInv ==
    /\ kind \in Kinds /\ paths \subseteq Apart[kind]
    /\ secrets \in [{NameOf[kind][p] : p \in paths} -> Value \cup {None}]
    /\ last \in [{KeyOf(kind, p) : p \in paths} -> Value \cup {None}]
    /\ OwnValue

LEMMA InitNames == Init => NamesInv
  BY DEF Init, NamesInv, OwnValue

\* A value that is written, or a secret that is deleted, is so for its key alone.
LEMMA SetsOne ==
    ASSUME NamesInv, NEW p \in paths, NEW v \in Value \cup {None},
           secrets' = [secrets EXCEPT ![NameOf[kind][p]] = v], Became(p, v)
    PROVE  NamesInv'
  <1>1. /\ kind' = kind /\ paths' = paths
        /\ last' = [last EXCEPT ![KeyOf(kind, p)] = v]
    BY DEF Became
  <1>2. /\ kind \in Kinds /\ paths \subseteq Apart[kind]
        /\ secrets \in [{NameOf[kind][q] : q \in paths} -> Value \cup {None}]
        /\ last \in [{KeyOf(kind, q) : q \in paths} -> Value \cup {None}]
    BY DEF NamesInv
  <1>3. /\ secrets' \in [{NameOf[kind][q] : q \in paths} -> Value \cup {None}]
        /\ last' \in [{KeyOf(kind, q) : q \in paths} -> Value \cup {None}]
    BY <1>1, <1>2
  <1>4. ASSUME NEW q \in paths PROVE secrets'[NameOf[kind][q]] = last'[KeyOf(kind, q)]
    <2>1. /\ NameOf[kind][q] \in {NameOf[kind][r] : r \in paths}
          /\ KeyOf(kind, q) \in {KeyOf(kind, r) : r \in paths}
      OBVIOUS
    <2>2. NameOf[kind][q] = NameOf[kind][p] <=> KeyOf(kind, q) = KeyOf(kind, p)
      BY <1>2, NamesFollowKeys
    <2>3. secrets[NameOf[kind][q]] = last[KeyOf(kind, q)]
      BY DEF NamesInv, OwnValue
    <2>4. secrets'[NameOf[kind][q]] =
              IF NameOf[kind][q] = NameOf[kind][p] THEN v ELSE secrets[NameOf[kind][q]]
      BY <1>2, <2>1
    <2>5. last'[KeyOf(kind, q)] = IF KeyOf(kind, q) = KeyOf(kind, p) THEN v ELSE last[KeyOf(kind, q)]
      BY <1>1, <1>2, <2>1
    <2>6. QED
      BY <2>2, <2>3, <2>4, <2>5
  <1>5. OwnValue'
    BY <1>1, <1>4 DEF OwnValue
  <1>6. QED
    BY <1>1, <1>2, <1>3, <1>5 DEF NamesInv

LEMMA NextNames == NamesInv /\ [Next]_vars => NamesInv'
  <1> SUFFICES ASSUME NamesInv, [Next]_vars PROVE NamesInv'
    OBVIOUS
  <1>1. CASE UNCHANGED vars
    BY <1>1 DEF vars, NamesInv, OwnValue
  <1>2. ASSUME NEW p \in paths, Delete(p) PROVE NamesInv'
    BY <1>2, SetsOne DEF Delete
  <1>3. ASSUME NEW p \in paths, NEW v \in Value, Write(p, v) PROVE NamesInv'
    BY <1>3, SetsOne DEF Write
  <1>4. QED
    BY <1>1, <1>2, <1>3 DEF Next

LEMMA NamesInvHolds == Spec => []NamesInv
  BY InitNames, NextNames, PTL DEF Spec

\* A read of a path returns what was last written of it under any spelling with leading
\* slashes, and no other path of those a driver keeps apart disturbs it, however long the
\* paths are (gcp.go:168, azure.go:141, doppler.go:131, infisical.go:150,
\* pulumi_esc.go:58).
THEOREM PathsKeepTheirSecrets == Spec => []OwnValue
  <1>1. NamesInv => OwnValue
    BY DEF NamesInv
  <1>2. QED
    BY <1>1, NamesInvHolds, PTL
=============================================================================
