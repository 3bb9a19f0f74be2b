------------------------- MODULE OutputBufferProofs -------------------------
(***************************************************************************)
(* Nothing that is done to an output buffer tears a message apart.  The    *)
(* first part is about Joined, which joins the pieces of the buffer.       *)
(***************************************************************************)
EXTENDS OutputBuffer, WellFoundedInduction, TLAPS

USE ZenonT(40)

-----------------------------------------------------------------------------
(* Joining sequences                                                       *)

\* Induction over the natural numbers, for a set of numbers.
LEMMA SetInduction ==
    ASSUME NEW M \in SUBSET Nat, 0 \in M, \A n \in M : n + 1 \in M
    PROVE  M = Nat
<1> SUFFICES ASSUME M # Nat PROVE FALSE
    OBVIOUS
<1> DEFINE T == Nat \ M
           R == {p \in Nat \X Nat : p[1] < p[2]}
<1>1. \E x \in T : \A y \in T : ~ (<<y, x>> \in R)
  <2>1. IsWellFoundedOn(R, Nat) /\ T \subseteq Nat /\ T # {}
      BY NatLessThanWellFounded DEF OpToRel
  <2> HIDE DEF R, T
  <2> QED
      BY <2>1, WFMin
<1>2. PICK x \in T : \A y \in T : ~ (<<y, x>> \in R)
    BY <1>1
<1>3. x # 0 /\ x - 1 \in Nat
    BY SMTT(60)
<1>4. <<x - 1, x>> \in R
    BY SMTT(60), <1>3
<1>5. x - 1 \in M
    BY <1>2, <1>3, <1>4
<1> QED
    BY SMTT(60), <1>3, <1>5

\* Counting up by one.
LEMMA UpByOne ==
    ASSUME NEW n \in Nat
    PROVE  /\ n + 1 \in Nat /\ (n + 1) - 1 = n /\ n + 1 # n /\ n + 1 \notin 0..n
           /\ n \in 0..n /\ n \in 0..(n + 1) /\ n + 1 \in 0..(n + 1) /\ 0 \in 0..n
           /\ \A i \in 0..(n + 1) : i \in 0..n \/ i = n + 1
           /\ \A i \in 0..n : i \in 0..(n + 1)
           /\ \A i \in 1..(n + 1) : i \in 1..n \/ i = n + 1
           /\ \A i \in 1..n : i - 1 \in 0..n /\ i \in 0..n /\ i \in 1..(n + 1)
           /\ 0..0 = {0} /\ 1..0 = {}
BY SMTT(60)

\* A member of 1..n.
LEMMA InFirst ==
    ASSUME NEW n \in Nat, NEW k \in 1..n
    PROVE  k # 0 /\ n # 0
BY SMTT(60)

\* Members and concatenations of sequences.
LEMMA MemberIn ==
    ASSUME NEW S, NEW s \in Seq(S)
    PROVE  Len(s) \in Nat /\ \A i \in 1..Len(s) : s[i] \in S
BY SMTT(60)

\* A concatenation has the members and the length of both.
LEMMA ConcatIn ==
    ASSUME NEW S, NEW s \in Seq(S), NEW t \in Seq(S)
    PROVE  s \o t \in Seq(S) /\ Len(s \o t) = Len(s) + Len(t)
BY SMTT(60)

\* The empty sequence adds nothing.
LEMMA NothingJoined ==
    ASSUME NEW S, NEW s \in Seq(S)
    PROVE  <<>> \in Seq(S) /\ <<>> \o s = s /\ s \o <<>> = s
BY SMTT(60)

\* Concatenation may be read from either side.
Associates(s, t, u) == (s \o t) \o u = s \o (t \o u)

\* It always may.
LEMMA ConcatAgain ==
    ASSUME NEW S, NEW s \in Seq(S), NEW t \in Seq(S), NEW u \in Seq(S)
    PROVE  Associates(s, t, u)
BY SMTT(60) DEF Associates

\* Lengths of the empty sequence and of the others.
LEMMA EmptyIn ==
    ASSUME NEW S
    PROVE  <<>> \in Seq(S) /\ <<>> \o <<>> = <<>> /\ Len(<<>>) = 0
BY SMTT(60)

\* The members of a concatenation are those of its parts.
Parts(s, t) ==
    /\ \A i \in 1..Len(s) : i \in 1..Len(s \o t) /\ (s \o t)[i] = s[i]
    /\ \A i \in 1..Len(t) : Len(s) + i \in 1..Len(s \o t) /\ (s \o t)[Len(s) + i] = t[i]

\* They always are.
LEMMA PartMembers ==
    ASSUME NEW S, NEW s \in Seq(S), NEW t \in Seq(S)
    PROVE  Parts(s, t)
BY SMTT(60) DEF Parts

\* Sequences with the same members are the same.
LEMMA SameMembers ==
    ASSUME NEW S, NEW s \in Seq(S), NEW t \in Seq(S), Len(s) = Len(t),
           \A i \in 1..Len(s) : s[i] = t[i]
    PROVE  s = t
BY SMTT(60)

\* A sequence cut in two.
Cut(S, s, i) ==
    /\ SubSeq(s, 1, i) \in Seq(S) /\ SubSeq(s, i + 1, Len(s)) \in Seq(S)
    /\ Len(SubSeq(s, 1, i)) = i
    /\ SubSeq(s, 1, i) \o SubSeq(s, i + 1, Len(s)) = s

\* Every sequence may be cut anywhere.
LEMMA CutInTwo ==
    ASSUME NEW S, NEW s \in Seq(S), NEW i \in 0..Len(s)
    PROVE  Cut(S, s, i)
<1> DEFINE u == SubSeq(s, 1, i)
           v == SubSeq(s, i + 1, Len(s))
<1>1. u \in Seq(S) /\ Len(u) = i /\ \A k \in 1..i : u[k] = s[k]
    BY SMTT(60)
<1>2. v \in Seq(S) /\ Len(v) = Len(s) - i /\ \A k \in 1..(Len(s) - i) : v[k] = s[i + k]
    BY SMTT(60)
<1> HIDE DEF u, v
<1>3. u \o v = s
  <2>1. u \o v \in Seq(S) /\ Len(u \o v) = Len(s)
      BY SMTT(60), <1>1, <1>2
  <2>2. ASSUME NEW k \in 1..Len(s) PROVE (u \o v)[k] = s[k]
    <3>0. Parts(u, v) /\ Len(s) \in Nat
        BY <1>1, <1>2, PartMembers, MemberIn
    <3>1. CASE k <= i
      <4>1. k \in 1..i
          BY SMTT(60), <3>1
      <4> QED
          BY <1>1, <3>0, <4>1 DEF Parts
    <3>2. CASE k > i
      <4>1. k - i \in 1..(Len(s) - i) /\ i + (k - i) = k
          BY SMTT(60), <3>0, <3>2
      <4>2. (u \o v)[Len(u) + (k - i)] = v[k - i]
          BY <1>2, <3>0, <4>1 DEF Parts
      <4>3. v[k - i] = s[i + (k - i)]
          BY <1>2, <4>1
      <4> QED
          BY <1>1, <4>1, <4>2, <4>3
    <3>3. k <= i \/ k > i
        BY SMTT(60)
    <3> QED
        BY <3>1, <3>2, <3>3
  <2> QED
      BY <2>1, <2>2, SameMembers
<1> QED
    BY <1>1, <1>2, <1>3 DEF u, v, Cut

\* Two elements before a sequence are one before the other.
LEMMA TwoInFront ==
    ASSUME NEW S, NEW x \in S, NEW y \in S, NEW s \in Seq(S)
    PROVE  <<x, y>> \o s = <<x>> \o (<<y>> \o s)
<1>1. <<x>> \in Seq(S) /\ <<y>> \in Seq(S) /\ <<x, y>> \in Seq(S) /\ Len(<<x, y>>) = 2
    BY SMTT(60)
<1> DEFINE u == <<x>> \o <<y>>
<1>2. u \in Seq(S) /\ Len(u) = 2 /\ u[1] = x /\ u[2] = y
    BY SMTT(60)
<1>3. \A i \in 1..2 : i = 1 \/ i = 2
    BY SMTT(60)
<1>4. <<x, y>>[1] = x /\ <<x, y>>[2] = y
    BY SMTT(60)
<1> HIDE DEF u
<1>5. <<x, y>> = u
    BY <1>1, <1>2, <1>3, <1>4, SameMembers
<1>6. ASSUME NEW p \in Seq(S), NEW q \in Seq(S) PROVE (p \o q) \o s = p \o (q \o s)
    BY SMTT(60)
<1>7. (<<x>> \o <<y>>) \o s = <<x>> \o (<<y>> \o s)
    BY <1>1, <1>6
<1> QED
    BY <1>5, <1>7 DEF u

\* Append adds one member to the end.
LEMMA AppendIn ==
    ASSUME NEW S, NEW s \in Seq(S), NEW x \in S
    PROVE  /\ Append(s, x) \in Seq(S) /\ Len(Append(s, x)) = Len(s) + 1
           /\ \A i \in 1..Len(s) : Append(s, x)[i] = s[i]
           /\ Append(s, x)[Len(s) + 1] = x
BY SMTT(60)

\* f[i] joins the first i sequences of s, for i up to n.
Joins(s, S, n, f) ==
    /\ f \in [0..n -> Seq(S)]
    /\ f[0] = <<>>
    /\ \A i \in 1..n : f[i] = f[i - 1] \o s[i]

\* There is such a function for every sequence of sequences.
LEMMA JoinExists ==
    ASSUME NEW S, NEW s \in Seq(Seq(S))
    PROVE  \E f : Joins(s, S, Len(s), f)
<1> DEFINE M == {n \in Nat : n <= Len(s) => \E f : Joins(s, S, n, f)}
<1>1. 0 \in M
  <2>1. Joins(s, S, 0, [i \in 0..0 |-> <<>>])
    <3>1. <<>> \in Seq(S) /\ 0 \in Nat
        BY SMTT(60)
    <3> QED
        BY <3>1, UpByOne DEF Joins
  <2> QED
      BY SMTT(60), <2>1
<1>2. ASSUME NEW n \in M PROVE n + 1 \in M
  <2> SUFFICES ASSUME n + 1 <= Len(s) PROVE \E f : Joins(s, S, n + 1, f)
      BY UpByOne
  <2>1. n \in Nat
      OBVIOUS
  <2>2. n <= Len(s) /\ n + 1 \in 1..Len(s)
      BY SMTT(60), <2>1, MemberIn
  <2>3. PICK f : Joins(s, S, n, f)
      BY <2>2
  <2> DEFINE g == [i \in 0..(n + 1) |-> IF i = n + 1 THEN f[n] \o s[n + 1] ELSE f[i]]
  <2>4. f[n] \in Seq(S) /\ s[n + 1] \in Seq(S) /\ f[n] \o s[n + 1] \in Seq(S)
      BY <2>1, <2>2, <2>3, UpByOne, MemberIn, ConcatIn DEF Joins
  <2>5. g[n + 1] = f[n] \o s[n + 1] /\ \A i \in 0..n : g[i] = f[i]
    <3>1. n + 1 \in 0..(n + 1) /\ \A i \in 0..n : i \in 0..(n + 1) /\ i # n + 1
        BY <2>1, UpByOne
    <3> QED
        BY <3>1
  <2>6. g \in [0..(n + 1) -> Seq(S)]
      BY <2>1, <2>3, <2>4, UpByOne DEF Joins
  <2> HIDE DEF g
  <2>7. ASSUME NEW i \in 1..(n + 1) PROVE g[i] = g[i - 1] \o s[i]
    <3>1. CASE i = n + 1
      <4>1. i - 1 = n /\ n \in 0..n
          BY <2>1, <3>1, UpByOne
      <4> QED
          BY <2>5, <3>1, <4>1
    <3>2. CASE i \in 1..n
      <4>1. i \in 0..n /\ i - 1 \in 0..n
          BY <2>1, <3>2, UpByOne
      <4>2. f[i] = f[i - 1] \o s[i]
          BY <2>3, <3>2 DEF Joins
      <4> QED
          BY <2>5, <4>1, <4>2
    <3> QED
        BY <2>1, <3>1, <3>2, UpByOne
  <2>8. g[0] = <<>>
    <3>1. 0 \in 0..n
        BY <2>1, UpByOne
    <3> QED
        BY <2>3, <2>5, <3>1 DEF Joins
  <2>9. Joins(s, S, n + 1, g)
      BY <2>6, <2>7, <2>8 DEF Joins
  <2> QED
      BY <2>9
<1>3. M = Nat
  <2> HIDE DEF M
  <2>1. M \in SUBSET Nat
      BY DEF M
  <2> QED
      BY <1>1, <1>2, <2>1, SetInduction
<1>4. Len(s) \in Nat /\ Len(s) <= Len(s)
    BY SMTT(60)
<1> QED
    BY <1>3, <1>4

\* And it is the only one.
LEMMA JoinUnique ==
    ASSUME NEW S, NEW s, NEW t, NEW k \in Nat, NEW n \in 0..k, NEW f, NEW g,
           \A i \in 1..n : t[i] = s[i], Joins(s, S, n, f), Joins(t, S, k, g)
    PROVE  f[n] = g[n]
<1> DEFINE M == {i \in Nat : i \in 0..n => f[i] = g[i]}
<1>1. 0 \in M
    BY DEF Joins
<1>2. ASSUME NEW i \in M PROVE i + 1 \in M
  <2> SUFFICES ASSUME i + 1 \in 0..n PROVE f[i + 1] = g[i + 1]
      BY UpByOne
  <2>1. i \in 0..n /\ i + 1 \in 1..n /\ i + 1 \in 1..k /\ (i + 1) - 1 = i
      BY SMTT(60)
  <2> QED
      BY <2>1 DEF Joins
<1>3. M = Nat
  <2> HIDE DEF M
  <2>1. M \in SUBSET Nat
      BY DEF M
  <2> QED
      BY <1>1, <1>2, <2>1, SetInduction
<1>4. n \in Nat /\ n \in 0..n
    BY SMTT(60)
<1> QED
    BY <1>3, <1>4

\* It is what Joined computes.
LEMMA JoinedJoins ==
    ASSUME NEW S, NEW s \in Seq(Seq(S)), NEW f, Joins(s, S, Len(s), f)
    PROVE  Joined(s) = f[Len(s)]
<1> DEFINE n == Len(s)
           Unfold(g) == [i \in 0..n |-> IF i = 0 THEN <<>> ELSE g[i - 1] \o s[i]]
           c == CHOOSE g : g = Unfold(g)
<1>1. n \in Nat
    BY MemberIn
<1>2. \A i \in 0..n : i = 0 \/ i \in 1..n
    BY SMTT(60), <1>1
<1>3. f = Unfold(f)
    BY <1>2 DEF Joins
<1>4. c = Unfold(c)
    BY <1>3
<1>5. Joined(s) = c[n]
    BY DEF Joined
<1>6. \A i \in 0..n : c[i] = IF i = 0 THEN <<>> ELSE c[i - 1] \o s[i]
    BY <1>4
<1>7. f[0] = <<>> /\ \A i \in 1..n : f[i] = f[i - 1] \o s[i]
    BY DEF Joins
<1> HIDE DEF c, n
<1> DEFINE M == {i \in Nat : i \in 0..n => c[i] = f[i]}
<1>8. 0 \in M
    BY <1>6, <1>7
<1>9. ASSUME NEW i \in M PROVE i + 1 \in M
  <2> SUFFICES ASSUME i + 1 \in 0..n PROVE c[i + 1] = f[i + 1]
      BY UpByOne
  <2>1. (i + 1) - 1 = i /\ i \in 0..n /\ i + 1 # 0 /\ i + 1 \in 1..n
      BY SMTT(60), <1>1
  <2>2. c[i + 1] = c[i] \o s[i + 1]
      BY <1>6, <2>1
  <2>3. f[i + 1] = f[i] \o s[i + 1] /\ c[i] = f[i]
      BY <1>7, <2>1
  <2> QED
      BY <2>2, <2>3
<1>10. M = Nat
  <2> HIDE DEF M
  <2>1. M \in SUBSET Nat
      BY DEF M
  <2> QED
      BY <1>8, <1>9, <2>1, SetInduction
<1>11. n \in 0..n
    BY SMTT(60), <1>1
<1> QED
    BY <1>1, <1>5, <1>10, <1>11 DEF n

\* Nothing joined, and one more sequence joined.
LEMMA JoinedEmpty == Joined(<<>>) = <<>>
<1>1. PICK f : Joins(<<>>, {}, Len(<<>>), f)
    BY EmptyIn, JoinExists
<1>2. Len(<<>>) = 0
    BY SMTT(60)
<1> QED
    BY <1>1, <1>2, EmptyIn, JoinedJoins DEF Joins

\* Joining one sequence more adds it to the end.
LEMMA JoinedAppend ==
    ASSUME NEW S, NEW s \in Seq(Seq(S)), NEW x \in Seq(S)
    PROVE  /\ Joined(s) \in Seq(S)
           /\ Joined(Append(s, x)) = Joined(s) \o x
<1> DEFINE a == Append(s, x)
           n == Len(s)
<1>1. a \in Seq(Seq(S)) /\ Len(a) = n + 1 /\ n \in Nat /\ a[n + 1] = x
      /\ \A i \in 1..n : a[i] = s[i]
    BY SMTT(60), AppendIn
<1> HIDE DEF a, n
<1>2. PICK f : Joins(s, S, n, f)
    BY JoinExists DEF n
<1>3. PICK g : Joins(a, S, n + 1, g)
    BY <1>1, JoinExists
<1>4. Joined(s) = f[n] /\ Joined(a) = g[n + 1]
    BY <1>1, <1>2, <1>3, JoinedJoins DEF n
<1>5. n + 1 \in Nat /\ n \in 0..(n + 1) /\ n + 1 \in 1..(n + 1) /\ (n + 1) - 1 = n /\ n \in 0..n
    BY SMTT(60), <1>1
<1>6. f[n] = g[n]
    BY SMTT(60), <1>1, <1>2, <1>3, <1>5, JoinUnique
<1>7. g[n + 1] = g[n] \o x /\ f[n] \in Seq(S)
    BY <1>1, <1>2, <1>3, <1>5 DEF Joins
<1> QED
    BY <1>4, <1>6, <1>7 DEF a

\* Joining what two sequences hold, one after the other.
LEMMA JoinedConcat ==
    ASSUME NEW S, NEW s \in Seq(Seq(S)), NEW t \in Seq(Seq(S))
    PROVE  Joined(s \o t) = Joined(s) \o Joined(t)
<1> DEFINE Q == Seq(Seq(S))
           M == {n \in Nat : \A u \in Q : Len(u) = n =>
                                Joined(s \o u) = Joined(s) \o Joined(u)}
<1>0. \A u \in Q : Joined(u) \in Seq(S)
    BY SMTT(60), JoinedAppend, NothingJoined
<1>1. 0 \in M
  <2>1. ASSUME NEW u \in Q, Len(u) = 0
        PROVE  Joined(s \o u) = Joined(s) \o Joined(u)
    <3>1. u = <<>> /\ s \o u = s
        BY SMTT(60), <2>1
    <3> QED
        BY <1>0, <3>1, JoinedEmpty, NothingJoined
  <2> QED
      BY <2>1
<1>2. ASSUME NEW n \in M PROVE n + 1 \in M
  <2>1. ASSUME NEW u \in Q, Len(u) = n + 1
        PROVE  Joined(s \o u) = Joined(s) \o Joined(u)
    <3>1. \E v \in Q, x \in Seq(S) : Len(v) = n /\ u = Append(v, x) /\ s \o u = Append(s \o v, x)
      <4> DEFINE v == SubSeq(u, 1, n)
                 x == u[n + 1]
      <4>1. v \in Q /\ Len(v) = n /\ x \in Seq(S)
          BY SMTT(60), <2>1
      <4>2. u = Append(v, x)
          BY SMTT(60), <2>1
      <4> HIDE DEF v, x
      <4>3. s \o Append(v, x) = Append(s \o v, x)
          BY SMTT(60), <4>1
      <4> QED
          BY <4>1, <4>2, <4>3
    <3>2. PICK v \in Q, x \in Seq(S) :
             Len(v) = n /\ u = Append(v, x) /\ s \o u = Append(s \o v, x)
        BY <3>1
    <3>3. Joined(s \o v) = Joined(s) \o Joined(v) /\ s \o v \in Q
        BY <3>2, ConcatIn
    <3>4. Joined(s \o u) = (Joined(s) \o Joined(v)) \o x
      <4>1. s \o v \in Seq(Seq(S)) /\ x \in Seq(S)
          BY <3>2, <3>3
      <4>2. Joined(Append(s \o v, x)) = Joined(s \o v) \o x
          BY <4>1, JoinedAppend
      <4> QED
          BY <3>2, <3>3, <4>2
    <3>5. Joined(u) = Joined(v) \o x
        BY <3>2, JoinedAppend
    <3>6. Associates(Joined(s), Joined(v), x)
        BY <1>0, ConcatAgain
    <3> QED
        BY <3>4, <3>5, <3>6 DEF Associates
  <2> QED
      BY <2>1, UpByOne
<1>3. M = Nat
  <2> HIDE DEF M
  <2>1. M \in SUBSET Nat
      BY DEF M
  <2> QED
      BY <1>1, <1>2, <2>1, SetInduction
<1> QED
    BY <1>3, MemberIn

\* One sequence joined.
LEMMA JoinedOne ==
    ASSUME NEW S, NEW x \in Seq(S)
    PROVE  Joined(<<x>>) = x
<1>1. <<x>> = Append(<<>>, x) /\ <<>> \in Seq(Seq(S))
    BY SMTT(60)
<1> QED
  <2>1. Joined(Append(<<>>, x)) = Joined(<<>>) \o x
      BY <1>1, JoinedAppend
  <2> QED
      BY <1>1, <2>1, JoinedEmpty, NothingJoined

-----------------------------------------------------------------------------
(* Whole messages one after the other                                      *)

\* Byte i of message m is <<m, i>>.
Byte == Nat \X Nat

\* After a byte comes the next of its message, or the first of another.
Follows(x, y) == IF x[2] < Size[x[1]] THEN y = <<x[1], x[2] + 1>> ELSE y[2] = 1

\* s begins with the first byte of a message, ends with the last of one, and has no
\* message torn apart between them.
Unbroken(s) ==
    /\ s # <<>> => s[1][2] = 1 /\ s[Len(s)][2] = Size[s[Len(s)][1]]
    /\ \A i \in 1..(Len(s) - 1) : Follows(s[i], s[i + 1])

\* All bytes of s are of the first n messages.
Known(s, n) == \A i \in 1..Len(s) : s[i][1] \in 1..n

\* The messages that did not ask for the front come in the order of their numbers.
Ordered(s, P) ==
    \A i, j \in 1..Len(s) : i < j /\ s[i][1] \notin P /\ s[j][1] \notin P => s[i][1] <= s[j][1]

\* The members of a sequence put together from two.
LEMMA ConcatMembers ==
    ASSUME NEW S, NEW s \in Seq(S), NEW t \in Seq(S), NEW i \in 1..Len(s \o t)
    PROVE  IF i <= Len(s) THEN i \in 1..Len(s) /\ (s \o t)[i] = s[i]
           ELSE i - Len(s) \in 1..Len(t) /\ (s \o t)[i] = t[i - Len(s)]
BY SMTT(60)

\* No byte has a position before its own.
LEMMA ByteIn ==
    ASSUME NEW x \in Byte
    PROVE  ~ (x[2] < x[2])
BY SMTT(60) DEF Byte

\* Whole messages after whole messages are whole messages.
LEMMA UnbrokenConcat ==
    ASSUME NEW s \in Seq(Byte), NEW t \in Seq(Byte), Unbroken(s), Unbroken(t)
    PROVE  Unbroken(s \o t)
<1>1. Len(s) \in Nat /\ Len(t) \in Nat /\ s \o t \in Seq(Byte) /\ Len(s \o t) = Len(s) + Len(t)
    BY SMTT(60)
<1>2. CASE s = <<>>
    BY <1>2, NothingJoined
<1>3. CASE t = <<>>
    BY <1>3, NothingJoined
<1>4. CASE s # <<>> /\ t # <<>>
  <2>1. Len(s) > 0 /\ Len(t) > 0
      BY SMTT(60), <1>4
  <2>2. (s \o t)[1] = s[1] /\ (s \o t)[Len(s \o t)] = t[Len(t)]
      BY SMTT(60), <1>1, <2>1
  <2>3. ASSUME NEW i \in 1..(Len(s \o t) - 1) PROVE Follows((s \o t)[i], (s \o t)[i + 1])
    <3>1. CASE i < Len(s)
      <4>1. i \in 1..(Len(s) - 1) /\ (s \o t)[i] = s[i] /\ (s \o t)[i + 1] = s[i + 1]
          BY SMTT(60), <1>1, <3>1
      <4> QED
          BY <4>1 DEF Unbroken
    <3>2. CASE i = Len(s)
      <4>1. (s \o t)[i] = s[Len(s)] /\ (s \o t)[i + 1] = t[1] /\ s[Len(s)] \in Byte
          BY SMTT(60), <1>1, <2>1, <3>2
      <4>2. s[Len(s)][2] = Size[s[Len(s)][1]] /\ t[1][2] = 1
          BY <1>4 DEF Unbroken
      <4>3. ~ (s[Len(s)][2] < Size[s[Len(s)][1]])
          BY <4>1, <4>2, ByteIn
      <4> QED
          BY <4>1, <4>2, <4>3 DEF Follows
    <3>3. CASE i > Len(s)
      <4>1. /\ i - Len(s) \in 1..(Len(t) - 1)
            /\ (s \o t)[i] = t[i - Len(s)] /\ (s \o t)[i + 1] = t[(i - Len(s)) + 1]
          BY SMTT(60), <1>1, <3>3
      <4> QED
          BY <4>1 DEF Unbroken
    <3> QED
        BY SMTT(60), <1>1, <3>1, <3>2, <3>3
  <2>4. s[1][2] = 1 /\ t[Len(t)][2] = Size[t[Len(t)][1]]
      BY <1>4 DEF Unbroken
  <2> QED
      BY <2>2, <2>3, <2>4 DEF Unbroken
<1> QED
    BY <1>2, <1>3, <1>4

\* Pieces that are whole stay whole when they are joined.
LEMMA UnbrokenJoined ==
    ASSUME NEW s \in Seq(Seq(Byte)), \A i \in 1..Len(s) : Unbroken(s[i])
    PROVE  Unbroken(Joined(s))
<1> DEFINE Q == Seq(Seq(Byte))
           M == {n \in Nat : \A u \in Q : Len(u) = n /\ (\A i \in 1..n : Unbroken(u[i]))
                                => Unbroken(Joined(u))}
<1>1. 0 \in M
  <2>1. ASSUME NEW u \in Q, Len(u) = 0 PROVE Unbroken(Joined(u))
    <3>1. u = <<>>
        BY SMTT(60), <2>1
    <3>2. Unbroken(<<>>)
        BY SMTT(60) DEF Unbroken
    <3> QED
        BY <3>1, <3>2, JoinedEmpty
  <2> QED
      BY <2>1
<1>2. ASSUME NEW n \in M PROVE n + 1 \in M
  <2>1. ASSUME NEW u \in Q, Len(u) = n + 1, \A i \in 1..(n + 1) : Unbroken(u[i])
        PROVE  Unbroken(Joined(u))
    <3> DEFINE v == SubSeq(u, 1, n)
               x == u[n + 1]
    <3>1. v \in Q /\ Len(v) = n /\ x \in Seq(Byte) /\ \A i \in 1..n : v[i] = u[i]
        BY SMTT(60), <2>1
    <3>2. u = Append(v, x)
        BY SMTT(60), <2>1
    <3>3. \A i \in 1..n : i \in 1..(n + 1)
        BY SMTT(60)
    <3>4. n + 1 \in 1..(n + 1)
        BY SMTT(60)
    <3>5. Unbroken(x)
        BY <2>1, <3>4
    <3>6. \A i \in 1..n : Unbroken(v[i])
      <4>1. ASSUME NEW i \in 1..n PROVE Unbroken(v[i])
        <5>1. v[i] = u[i] /\ Unbroken(u[i])
            BY <2>1, <3>1, <3>3
        <5> QED
            BY <5>1
      <4> QED
          BY <4>1
    <3> HIDE DEF v, x
    <3>7. Unbroken(Joined(v))
        BY <3>1, <3>6
    <3>8. Joined(u) = Joined(v) \o x /\ Joined(v) \in Seq(Byte)
        BY <3>1, <3>2, JoinedAppend
    <3> QED
        BY <3>1, <3>5, <3>7, <3>8, UnbrokenConcat
  <2> QED
      BY <2>1, UpByOne
<1>3. M = Nat
  <2> HIDE DEF M
  <2>1. M \in SUBSET Nat
      BY DEF M
  <2> QED
      BY <1>1, <1>2, <2>1, SetInduction
<1> QED
    BY <1>3, MemberIn

\* A message by itself.
LEMMA BytesWhole ==
    ASSUME NEW m \in 1..Len(Size)
    PROVE  /\ Bytes(m) \in Seq(Byte) /\ Bytes(m) # <<>> /\ Unbroken(Bytes(m))
           /\ \A i \in 1..Len(Bytes(m)) : Bytes(m)[i][1] = m
<1>1. Size[m] \in Nat /\ Size[m] >= 1 /\ m \in Nat
    BY SMTT(60), OutputAssumption
<1> DEFINE s == Bytes(m)
<1>2. s \in Seq(Byte) /\ Len(s) = Size[m] /\ \A i \in 1..Size[m] : s[i] = <<m, i>>
  <2>1. \A i \in 1..Size[m] : i \in Nat
      BY SMTT(60), <1>1
  <2>2. \A i \in 1..Size[m] : <<m, i>> \in Byte
      BY <1>1, <2>1 DEF Byte
  <2> DEFINE k == Size[m]
  <2>3. s = [i \in 1..k |-> <<m, i>>]
      BY DEF Bytes
  <2> HIDE DEF s, k
  <2>4. s \in [1..k -> Byte] /\ k \in Nat
      BY <1>1, <2>2, <2>3 DEF k
  <2>5. s \in Seq(Byte) /\ Len(s) = k
      BY SMTT(60), <2>4
  <2> QED
      BY <2>3, <2>5 DEF k
<1> HIDE DEF s
<1>3. s # <<>>
    BY SMTT(60), <1>1, <1>2
<1>4. s[1] = <<m, 1>> /\ s[Len(s)] = <<m, Size[m]>>
    BY SMTT(60), <1>1, <1>2
<1>5. ASSUME NEW i \in 1..(Len(s) - 1) PROVE Follows(s[i], s[i + 1])
  <2>1. s[i] = <<m, i>> /\ s[i + 1] = <<m, i + 1>> /\ i < Size[m]
      BY SMTT(60), <1>1, <1>2
  <2> QED
      BY SMTT(60), <2>1 DEF Follows
<1>6. s[1][2] = 1 /\ s[Len(s)][2] = Size[s[Len(s)][1]]
    BY SMTT(60), <1>4
<1>7. Unbroken(s)
    BY <1>5, <1>6 DEF Unbroken
<1>8. \A i \in 1..Len(s) : s[i][1] = m
    BY SMTT(60), <1>2
<1> QED
    BY <1>2, <1>3, <1>7, <1>8 DEF s

\* Another message at the end.
LEMMA NextAtEnd ==
    ASSUME NEW s \in Seq(Byte), NEW t \in Seq(Byte), NEW n \in Nat, NEW P \in SUBSET Nat,
           Known(s, n), Ordered(s, P), \A i \in 1..Len(t) : t[i][1] = n + 1
    PROVE  Known(s \o t, n + 1) /\ Ordered(s \o t, P)
<1>1. Len(s) \in Nat /\ Len(t) \in Nat
    BY MemberIn
<1>2. ASSUME NEW i \in 1..Len(s \o t)
      PROVE  IF i <= Len(s) THEN i \in 1..Len(s) /\ (s \o t)[i] = s[i] /\ s[i][1] \in 1..n
             ELSE (s \o t)[i][1] = n + 1
  <2>1. CASE i <= Len(s)
    <3>1. i \in 1..Len(s) /\ (s \o t)[i] = s[i]
        BY <2>1, ConcatMembers
    <3> QED
        BY <2>1, <3>1 DEF Known
  <2>2. CASE ~ (i <= Len(s))
    <3>1. i - Len(s) \in 1..Len(t) /\ (s \o t)[i] = t[i - Len(s)]
        BY <2>2, ConcatMembers
    <3>2. t[i - Len(s)][1] = n + 1
        BY <3>1
    <3> QED
        BY <2>2, <3>1, <3>2
  <2> QED
      BY <2>1, <2>2
<1>3. Known(s \o t, n + 1)
  <2>1. ASSUME NEW i \in 1..Len(s \o t) PROVE (s \o t)[i][1] \in 1..(n + 1)
      BY SMTT(60), <1>2
  <2> QED
      BY <2>1 DEF Known
<1>4. ASSUME NEW i \in 1..Len(s \o t), NEW j \in 1..Len(s \o t), i < j,
             (s \o t)[i][1] \notin P, (s \o t)[j][1] \notin P
      PROVE  (s \o t)[i][1] <= (s \o t)[j][1]
  <2>1. CASE j <= Len(s)
    <3>1. i <= Len(s)
        BY SMTT(60), <1>1, <1>4, <2>1
    <3> QED
        BY <1>2, <1>4, <2>1, <3>1 DEF Ordered
  <2>2. CASE ~ (j <= Len(s))
    <3>1. (s \o t)[j][1] = n + 1 /\ (s \o t)[i][1] \in 1..(n + 1)
        BY <1>2, <1>3, <2>2 DEF Known
    <3> QED
        BY SMTT(60), <3>1
  <2> QED
      BY <2>1, <2>2
<1> QED
    BY <1>3, <1>4 DEF Ordered

\* What is left when the end is dropped.
LEMMA EndDropped ==
    ASSUME NEW s \in Seq(Byte), NEW t \in Seq(Byte), NEW n \in Nat, NEW P \in SUBSET Nat,
           Known(s \o t, n), Ordered(s \o t, P)
    PROVE  Known(s, n) /\ Ordered(s, P)
<1>1. \A i \in 1..Len(s) : i \in 1..Len(s \o t) /\ (s \o t)[i] = s[i]
  <2>1. Parts(s, t)
      BY PartMembers
  <2> QED
      BY <2>1 DEF Parts
<1>2. Known(s, n)
  <2>1. ASSUME NEW i \in 1..Len(s) PROVE s[i][1] \in 1..n
    <3>1. (s \o t)[i][1] \in 1..n /\ (s \o t)[i] = s[i]
        BY <1>1 DEF Known
    <3> QED
        BY <3>1
  <2> QED
      BY <2>1 DEF Known
<1>3. ASSUME NEW i \in 1..Len(s), NEW j \in 1..Len(s), i < j, s[i][1] \notin P, s[j][1] \notin P
      PROVE  s[i][1] <= s[j][1]
  <2>1. /\ i \in 1..Len(s \o t) /\ j \in 1..Len(s \o t)
        /\ (s \o t)[i] = s[i] /\ (s \o t)[j] = s[j]
      BY <1>1
  <2>2. (s \o t)[i][1] <= (s \o t)[j][1]
      BY <1>3, <2>1 DEF Ordered
  <2> QED
      BY <2>1, <2>2
<1> QED
    BY <1>2, <1>3 DEF Ordered

\* Another message between two others, or in front.
LEMMA NextBetween ==
    ASSUME NEW s \in Seq(Byte), NEW x \in Seq(Byte), NEW t \in Seq(Byte),
           NEW n \in Nat, NEW P \in SUBSET Nat,
           Known(s \o t, n), Ordered(s \o t, P), \A i \in 1..Len(x) : x[i][1] = n + 1
    PROVE  Known(s \o (x \o t), n + 1) /\ Ordered(s \o (x \o t), P \cup {n + 1})
<1> DEFINE a == s \o t
           b == s \o (x \o t)
           at(i) == IF i <= Len(s) THEN i ELSE i - Len(x)
<1>1. ASSUME NEW i \in 1..Len(b), b[i][1] # n + 1
      PROVE  /\ at(i) \in 1..Len(a) /\ b[i] = a[at(i)]
             /\ i <= Len(s) \/ i > Len(s) + Len(x)
  <2>1. CASE i <= Len(s)
      BY SMTT(60), <2>1
  <2>2. CASE i > Len(s) + Len(x)
      BY SMTT(60), <2>2
  <2>3. CASE i > Len(s) /\ i <= Len(s) + Len(x)
    <3>1. i - Len(s) \in 1..Len(x) /\ b[i] = x[i - Len(s)]
        BY SMTT(60), <2>3
    <3> QED
        BY <1>1, <3>1
  <2> QED
      BY SMTT(60), <2>1, <2>2, <2>3
<1>2. Len(s) \in Nat /\ Len(x) \in Nat /\ \A i \in 1..Len(b) : i \in Int
    BY SMTT(60)
<1> HIDE DEF a, b, at
<1>3. Known(a, n) /\ Ordered(a, P)
    BY DEF a
<1>4. ASSUME NEW i \in 1..Len(b) PROVE b[i][1] \in 1..(n + 1)
  <2>1. CASE b[i][1] # n + 1
    <3>1. b[i] = a[at(i)] /\ a[at(i)][1] \in 1..n
        BY <1>1, <1>3, <2>1 DEF Known
    <3> QED
        BY SMTT(60), <3>1
  <2> QED
      BY SMTT(60), <2>1
<1>5. ASSUME NEW i \in 1..Len(b), NEW j \in 1..Len(b), i < j,
             b[i][1] \notin P \cup {n + 1}, b[j][1] \notin P \cup {n + 1}
      PROVE  b[i][1] <= b[j][1]
  <2>1. /\ at(i) \in 1..Len(a) /\ b[i] = a[at(i)] /\ (i <= Len(s) \/ i > Len(s) + Len(x))
        /\ at(j) \in 1..Len(a) /\ b[j] = a[at(j)] /\ (j <= Len(s) \/ j > Len(s) + Len(x))
      BY <1>1, <1>5
  <2>2. at(i) < at(j)
      BY SMTT(60), <1>2, <1>5, <2>1 DEF at
  <2>3. a[at(i)][1] \notin P /\ a[at(j)][1] \notin P
      BY <1>5, <2>1
  <2>4. a[at(i)][1] <= a[at(j)][1]
      BY <1>3, <2>1, <2>2, <2>3 DEF Ordered
  <2> QED
      BY <2>1, <2>4
<1> QED
    BY <1>4, <1>5 DEF Known, Ordered, b

-----------------------------------------------------------------------------
(* The buffer                                                              *)

\* The type of an output buffer.
Buffer == [output_msgs : Seq(Seq(Byte)), index : Nat, length : Int, batch : Seq(Byte),
           held_long : BOOLEAN, enable_buffering : BOOLEAN]

\* All that the buffer holds, what is sent of the first piece included.
Content(b) == Joined(b.output_msgs) \o b.batch

\* What is sent of the first piece.
Sent(b) == IF b.output_msgs = <<>> THEN <<>> ELSE SubSeq(b.output_msgs[1], 1, b.index)

\* Every piece is whole messages, and the first one is not sent to its end.
Pieces(b) ==
    /\ \A i \in 1..Len(b.output_msgs) : b.output_msgs[i] # <<>> /\ Unbroken(b.output_msgs[i])
    /\ IF b.output_msgs = <<>> THEN b.index = 0 ELSE b.index < Len(b.output_msgs[1])

\* So is the batch, which there is only with buffering; and length counts what is unsent.
Sound(b) ==
    /\ b \in Buffer /\ Pieces(b) /\ Unbroken(b.batch)
    /\ ~b.enable_buffering => b.batch = <<>>
    /\ b.length = Len(Content(b)) - b.index

\* The bytes w that were written before the first piece are whole messages, and so far
\* the order of the messages is the one they should have.
Fits(w, b, wr, n, P) ==
    /\ w \in Seq(Byte) /\ Unbroken(w) /\ wr = w \o Sent(b)
    /\ Known(w \o Content(b), n) /\ Ordered(w \o Content(b), P)

\* The buffer b after wr was written and n messages, P of them to the front, were enqueued.
InOrder(b, wr, n, P) ==
    /\ Sound(b) /\ n \in Nat /\ P \in SUBSET Nat
    /\ \E i \in 0..Len(wr) : Fits(SubSeq(wr, 1, i), b, wr, n, P)

\* The inductive invariant: what was written is whole messages and then the sent bytes of
\* the first piece, and with what the buffer holds it is whole messages in order.
OutputInv ==
    enqueued <= Len(Size) /\ InOrder(outputbuf, written, enqueued, prepended)

\* The fields of a buffer.
LEMMA BufferFields ==
    ASSUME NEW b \in Buffer
    PROVE  /\ b.output_msgs \in Seq(Seq(Byte)) /\ b.index \in Nat /\ b.length \in Int
           /\ b.batch \in Seq(Byte) /\ b.held_long \in BOOLEAN /\ b.enable_buffering \in BOOLEAN
           /\ Joined(b.output_msgs) \in Seq(Byte) /\ Content(b) \in Seq(Byte)
           /\ Len(Content(b)) \in Nat
<1>1. /\ b.output_msgs \in Seq(Seq(Byte)) /\ b.index \in Nat /\ b.length \in Int
      /\ b.batch \in Seq(Byte) /\ b.held_long \in BOOLEAN /\ b.enable_buffering \in BOOLEAN
    BY DEF Buffer
<1>2. Joined(b.output_msgs) \in Seq(Byte)
    BY <1>1, JoinedAppend, NothingJoined
<1>3. Content(b) \in Seq(Byte)
    BY <1>1, <1>2, ConcatIn DEF Content
<1> QED
    BY <1>1, <1>2, <1>3, MemberIn

\* Lengths added to and taken from length.
LEMMA IntSum ==
    ASSUME NEW i \in Int, NEW k \in Nat
    PROVE  i + k \in Int /\ i - k \in Int
BY SMTT(60)

\* What is left of i + l + j + k bytes when i, and then l, are gone.
LeftOver(i, l, j, k) == ((((i + l) + j) + k) - i) - l = (j + k) - 0

\* That much is left.
LEMMA LeftOverIs ==
    ASSUME NEW i \in Nat, NEW l \in Nat, NEW j \in Nat, NEW k \in Nat
    PROVE  LeftOver(i, l, j, k)
BY SMTT(60) DEF LeftOver

\* The ways in which concatenations of four sequences are read here.
Regroups(s, x, t, u) ==
    /\ (s \o (x \o t)) \o u = s \o (x \o (t \o u))
    /\ (s \o t) \o u = s \o (t \o u)
    /\ (s \o x) \o (t \o u) = s \o ((x \o t) \o u)

\* They are all the same.
LEMMA ByteConcatBetween ==
    ASSUME NEW s \in Seq(Byte), NEW x \in Seq(Byte), NEW t \in Seq(Byte), NEW u \in Seq(Byte)
    PROVE  Regroups(s, x, t, u)
<1>1. x \o t \in Seq(Byte)
    BY ConcatIn
<1>2. t \o u \in Seq(Byte)
    BY ConcatIn
<1>3. Associates(s, x \o t, u) /\ Associates(x, t, u)
    BY <1>1, ConcatAgain
<1>4. Associates(s, t, u) /\ Associates(s, x, t \o u)
    BY <1>2, ConcatAgain
<1> QED
    BY <1>3, <1>4 DEF Regroups, Associates

\* A prefix of what was written.
LEMMA PrefixIn ==
    ASSUME NEW s \in Seq(Byte), NEW t \in Seq(Byte)
    PROVE  Len(s) \in 0..Len(s \o t) /\ SubSeq(s \o t, 1, Len(s)) = s
BY SMTT(60)

\* As many bytes of the first piece are sent as index says.
LEMMA SentIn ==
    ASSUME NEW b \in Buffer, Pieces(b)
    PROVE  Sent(b) \in Seq(Byte) /\ Len(Sent(b)) = b.index
<1>1. b.output_msgs \in Seq(Seq(Byte)) /\ b.index \in Nat
    BY BufferFields
<1>2. CASE b.output_msgs = <<>>
    BY SMTT(60), <1>2 DEF Sent, Pieces
<1>3. CASE b.output_msgs # <<>>
  <2>1. b.output_msgs[1] \in Seq(Byte) /\ b.index < Len(b.output_msgs[1])
      BY SMTT(60), <1>1, <1>3 DEF Pieces
  <2>2. SubSeq(b.output_msgs[1], 1, b.index) \in Seq(Byte)
        /\ Len(SubSeq(b.output_msgs[1], 1, b.index)) = b.index
      BY SMTT(60), <1>1, <2>1
  <2> QED
      BY <1>3, <2>2 DEF Sent
<1> QED
    BY <1>2, <1>3

\* It is enough to give the bytes that were written before the first piece.
LEMMA InOrderFrom ==
    ASSUME NEW b, NEW wr, NEW n \in Nat, NEW P \in SUBSET Nat, NEW w, Sound(b), Fits(w, b, wr, n, P)
    PROVE  InOrder(b, wr, n, P)
<1>1. Sent(b) \in Seq(Byte)
    BY SentIn DEF Sound
<1>2. Len(w) \in 0..Len(wr) /\ SubSeq(wr, 1, Len(w)) = w
    BY <1>1, PrefixIn DEF Fits
<1> QED
    BY <1>2 DEF InOrder

\* A buffer that holds the same, sent as far.
LEMMA SameContent ==
    ASSUME NEW b, NEW c, NEW wr, NEW n, NEW P, InOrder(b, wr, n, P),
           Sound(c), Content(c) = Content(b), Sent(c) = Sent(b)
    PROVE  InOrder(c, wr, n, P)
BY DEF InOrder, Fits

\* One more piece at the end.
LEMMA PieceAppended ==
    ASSUME NEW b, NEW x \in Seq(Byte), NEW c, b \in Buffer, Pieces(b), x # <<>>, Unbroken(x),
           c \in Buffer, c.output_msgs = Append(b.output_msgs, x), c.index = b.index
    PROVE  /\ Pieces(c) /\ Sent(c) = Sent(b)
           /\ Joined(c.output_msgs) = Joined(b.output_msgs) \o x
<1> DEFINE s == b.output_msgs
           t == c.output_msgs
<1>1. s \in Seq(Seq(Byte)) /\ b.index \in Nat /\ t = Append(s, x)
    BY BufferFields
<1>2. Joined(t) = Joined(s) \o x
    BY <1>1, JoinedAppend
<1>3. t # <<>> /\ t[1] = IF s = <<>> THEN x ELSE s[1]
    BY SMTT(60), <1>1
<1>4. ASSUME NEW i \in 1..Len(t) PROVE t[i] # <<>> /\ Unbroken(t[i])
  <2>1. t[i] = x \/ (i \in 1..Len(s) /\ t[i] = s[i])
      BY SMTT(60), <1>1
  <2> QED
      BY <2>1 DEF Pieces
<1>5. CASE s = <<>>
  <2>1. b.index = 0
      BY <1>5 DEF Pieces
  <2>2. 0 < Len(x) /\ SubSeq(x, 1, 0) = <<>>
      BY SMTT(60)
  <2> QED
      BY <1>2, <1>3, <1>4, <1>5, <2>1, <2>2 DEF Pieces, Sent
<1>6. CASE s # <<>>
    BY <1>2, <1>3, <1>4, <1>6 DEF Pieces, Sent
<1> QED
    BY <1>5, <1>6

\* Flushing the batch changes nothing but where it is.
LEMMA FlushKeeps ==
    ASSUME NEW b, Sound(b)
    PROVE  /\ Sound(Flush(b)) /\ Content(Flush(b)) = Content(b) /\ Sent(Flush(b)) = Sent(b)
           /\ Flush(b).batch = <<>> /\ Flush(b).index = b.index /\ Flush(b).length = b.length
           /\ Flush(b).enable_buffering = b.enable_buffering
<1>1. b \in Buffer /\ b.batch \in Seq(Byte)
    BY BufferFields DEF Sound
<1>2. CASE b.batch = <<>>
    BY <1>2 DEF Flush
<1>3. CASE b.batch # <<>>
  <2> DEFINE c == Flush(b)
  <2>1. /\ c.output_msgs = Append(b.output_msgs, b.batch) /\ c.index = b.index
        /\ c.batch = <<>> /\ c.length = b.length /\ c.enable_buffering = b.enable_buffering
        /\ c \in Buffer
    <3>1. Append(b.output_msgs, b.batch) \in Seq(Seq(Byte)) /\ <<>> \in Seq(Byte)
        BY <1>1, BufferFields, AppendIn, NothingJoined
    <3> QED
        BY <1>1, <1>3, <3>1 DEF Flush, Buffer
  <2> HIDE DEF c
  <2>2. /\ Pieces(c) /\ Sent(c) = Sent(b)
        /\ Joined(c.output_msgs) = Joined(b.output_msgs) \o b.batch
      BY <1>1, <1>3, <2>1, PieceAppended DEF Sound
  <2>3. Content(c) = Content(b)
      BY <1>1, <2>1, <2>2, BufferFields, ConcatIn, NothingJoined DEF Content
  <2>4. Unbroken(<<>>)
      BY SMTT(60) DEF Unbroken
  <2>5. Sound(c)
      BY <2>1, <2>2, <2>3, <2>4 DEF Sound
  <2> QED
      BY <2>1, <2>2, <2>3, <2>5 DEF c
<1> QED
    BY <1>2, <1>3

\* get_buffer, which may flush, leaves what the buffer holds as it is.
LEMMA GetBufferKeeps ==
    ASSUME NEW b, Sound(b)
    PROVE  Sound(GetBuffer(b)) /\ Content(GetBuffer(b)) = Content(b) /\ Sent(GetBuffer(b)) = Sent(b)
BY FlushKeeps DEF GetBuffer

\* Enqueueing adds to the end of what the buffer holds.
LEMMA EnqueueAdds ==
    ASSUME NEW b, Sound(b), NEW x \in Seq(Byte), x # <<>>, Unbroken(x)
    PROVE  LET c == EnqueueMsgbytes(b, x)
           IN  Sound(c) /\ Content(c) = Content(b) \o x /\ Sent(c) = Sent(b)
<1> DEFINE sized == [b EXCEPT !.length = @ + Len(x)]
           batched == [sized EXCEPT !.batch = @ \o x]
           direct(d) == [d EXCEPT !.output_msgs = Append(@, x)]
           Adds(c) == Sound(c) /\ Content(c) = Content(b) \o x /\ Sent(c) = Sent(b)
<1>1. b \in Buffer /\ Len(x) \in Nat
    BY MemberIn DEF Sound
<1>2. ASSUME NEW d, Sound(d), Content(d) = Content(b), Sent(d) = Sent(b), d.batch = <<>>,
             NEW c, c \in Buffer, c.output_msgs = Append(d.output_msgs, x), c.index = d.index,
             c.batch = <<>>, c.length = d.length + Len(x)
      PROVE  Adds(c)
  <2>1. /\ Pieces(c) /\ Sent(c) = Sent(d)
        /\ Joined(c.output_msgs) = Joined(d.output_msgs) \o x
      BY <1>2, PieceAppended DEF Sound
  <2>2. d \in Buffer /\ Joined(d.output_msgs) \in Seq(Byte)
      BY <1>2, BufferFields DEF Sound
  <2>3. Content(d) = Joined(d.output_msgs) /\ Content(c) = Content(d) \o x
      BY <1>2, <2>1, <2>2, ConcatIn, NothingJoined DEF Content
  <2>4. Len(Content(c)) = Len(Content(d)) + Len(x) /\ Len(Content(d)) \in Nat
      BY <2>2, <2>3, ConcatIn, MemberIn
  <2>5. d.length = Len(Content(d)) - d.index /\ d.index \in Nat
      BY <1>2, <2>2, BufferFields DEF Sound
  <2>6. c.length = Len(Content(c)) - c.index
      BY SMTT(60), <1>1, <1>2, <2>4, <2>5
  <2>7. Unbroken(<<>>)
      BY SMTT(60) DEF Unbroken
  <2> QED
      BY <1>2, <2>1, <2>3, <2>6, <2>7 DEF Sound
<1>3. CASE ~b.enable_buffering
  <2> DEFINE c == direct(sized)
  <2>1. b.batch = <<>>
      BY <1>3 DEF Sound
  <2>2. /\ c \in Buffer /\ c.output_msgs = Append(b.output_msgs, x) /\ c.index = b.index
        /\ c.batch = b.batch /\ c.length = b.length + Len(x)
    <3>1. Append(b.output_msgs, x) \in Seq(Seq(Byte)) /\ b.length + Len(x) \in Int
        BY <1>1, BufferFields, AppendIn, IntSum
    <3> QED
        BY <1>1, <3>1 DEF Buffer
  <2>3. EnqueueMsgbytes(b, x) = c
      BY <1>3 DEF EnqueueMsgbytes
  <2> HIDE DEF c
  <2>4. Adds(c)
      BY <1>2, <2>1, <2>2
  <2> QED
      BY <2>3, <2>4
<1>4. CASE b.enable_buffering /\ Len(x) + Len(b.batch) > min_size
  <2> DEFINE c == direct(Flush(sized))
             d == Flush(b)
  <2>1. /\ c \in Buffer /\ c.output_msgs = Append(d.output_msgs, x) /\ c.index = d.index
        /\ c.batch = d.batch /\ c.length = d.length + Len(x)
    <3> DEFINE m == IF b.batch = <<>> THEN b.output_msgs ELSE Append(b.output_msgs, b.batch)
    <3>1. m \in Seq(Seq(Byte)) /\ b.length + Len(x) \in Int /\ <<>> \in Seq(Byte)
        BY <1>1, BufferFields, AppendIn, IntSum, NothingJoined
    <3>2. Append(m, x) \in Seq(Seq(Byte))
        BY <3>1, AppendIn
    <3>3. CASE b.batch = <<>>
        BY <1>1, <3>1, <3>2, <3>3 DEF Buffer, Flush
    <3>4. CASE b.batch # <<>>
        BY <1>1, <3>1, <3>2, <3>4 DEF Buffer, Flush
    <3> QED
        BY <3>3, <3>4
  <2>2. EnqueueMsgbytes(b, x) = c
      BY <1>4 DEF EnqueueMsgbytes
  <2>3. Sound(d) /\ Content(d) = Content(b) /\ Sent(d) = Sent(b) /\ d.batch = <<>>
      BY FlushKeeps
  <2> HIDE DEF c, d
  <2>4. Adds(c)
      BY <1>2, <2>1, <2>3
  <2> QED
      BY <2>2, <2>4
<1>5. CASE b.enable_buffering /\ ~ (Len(x) + Len(b.batch) > min_size)
  <2> DEFINE c == batched
  <2>1. /\ c \in Buffer /\ c.output_msgs = b.output_msgs /\ c.index = b.index
        /\ c.batch = b.batch \o x /\ c.length = b.length + Len(x)
        /\ c.enable_buffering = b.enable_buffering
    <3>1. b.batch \o x \in Seq(Byte) /\ b.length + Len(x) \in Int
        BY <1>1, BufferFields, ConcatIn, IntSum
    <3> QED
        BY <1>1, <3>1 DEF Buffer
  <2>2. EnqueueMsgbytes(b, x) = IF b.held_long THEN Flush(c) ELSE c
      BY <1>5 DEF EnqueueMsgbytes
  <2> HIDE DEF c
  <2>3. Pieces(c) /\ Sent(c) = Sent(b)
      BY <2>1 DEF Sound, Pieces, Sent
  <2>4. b.batch \in Seq(Byte) /\ Joined(b.output_msgs) \in Seq(Byte) /\ Content(b) \in Seq(Byte)
        /\ b.index \in Nat
      BY <1>1, BufferFields
  <2>5. Content(c) = Content(b) \o x
    <3>1. Content(c) = Joined(b.output_msgs) \o (b.batch \o x)
        BY <2>1 DEF Content
    <3>2. Content(b) \o x = (Joined(b.output_msgs) \o b.batch) \o x
        BY DEF Content
    <3>3. Associates(Joined(b.output_msgs), b.batch, x)
        BY <2>4, ConcatAgain
    <3> QED
        BY <3>1, <3>2, <3>3 DEF Associates
  <2>6. Unbroken(c.batch)
      BY <2>1, <2>4, UnbrokenConcat DEF Sound
  <2>7. Len(Content(c)) = Len(Content(b)) + Len(x) /\ Len(Content(b)) \in Nat
      BY <2>4, <2>5, ConcatIn, MemberIn
  <2>8. b.length = Len(Content(b)) - b.index
      BY DEF Sound
  <2>9. c.length = Len(Content(c)) - c.index
      BY SMTT(60), <1>1, <2>1, <2>4, <2>7, <2>8
  <2>10. Sound(c)
      BY <1>5, <2>1, <2>3, <2>6, <2>9 DEF Sound
  <2>11. Adds(c) /\ Adds(Flush(c))
      BY <2>3, <2>5, <2>10, FlushKeeps
  <2> QED
      BY <2>2, <2>11
<1> QED
    BY <1>3, <1>4, <1>5

\* The first piece and the others.
LEMMA FirstAndRest ==
    ASSUME NEW s \in Seq(Seq(Byte)), s # <<>>
    PROVE  /\ s[1] \in Seq(Byte) /\ Head(s) = s[1] /\ Tail(s) \in Seq(Seq(Byte))
           /\ 1 \in 1..Len(s) /\ Len(Tail(s)) = Len(s) - 1
           /\ \A i \in 1..Len(Tail(s)) : i + 1 \in 1..Len(s) /\ Tail(s)[i] = s[i + 1]
           /\ Joined(s) = s[1] \o Joined(Tail(s))
           /\ Joined(Tail(s)) \in Seq(Byte)
<1>1. /\ s[1] \in Seq(Byte) /\ Head(s) = s[1] /\ Tail(s) \in Seq(Seq(Byte))
      /\ 1 \in 1..Len(s) /\ Len(Tail(s)) = Len(s) - 1
      /\ \A i \in 1..Len(Tail(s)) : i + 1 \in 1..Len(s) /\ Tail(s)[i] = s[i + 1]
    BY SMTT(60)
<1>2. s = <<s[1]>> \o Tail(s)
    BY SMTT(60)
<1>3. <<s[1]>> \in Seq(Seq(Byte))
    BY SMTT(60), <1>1
<1>4. Joined(<<s[1]>> \o Tail(s)) = Joined(<<s[1]>>) \o Joined(Tail(s))
    BY <1>1, <1>3, JoinedConcat
<1>5. Joined(<<s[1]>>) = s[1]
    BY <1>1, JoinedOne
<1>6. Joined(Tail(s)) \in Seq(Byte)
    BY <1>1, JoinedAppend, NothingJoined
<1> QED
    BY <1>1, <1>2, <1>4, <1>5, <1>6

\* Two pieces in front.
LEMMA JoinedFront ==
    ASSUME NEW x \in Seq(Byte), NEW y \in Seq(Byte), NEW t \in Seq(Seq(Byte))
    PROVE  /\ Joined(<<x>> \o t) = x \o Joined(t)
           /\ Joined(<<x, y>> \o t) = x \o (y \o Joined(t))
<1>1. ASSUME NEW z \in Seq(Byte), NEW u \in Seq(Seq(Byte)) PROVE Joined(<<z>> \o u) = z \o Joined(u)
  <2>1. <<z>> \in Seq(Seq(Byte))
      BY SMTT(60)
  <2>2. Joined(<<z>> \o u) = Joined(<<z>>) \o Joined(u)
      BY <2>1, JoinedConcat
  <2> QED
      BY <2>2, JoinedOne
<1>2. <<x, y>> \o t = <<x>> \o (<<y>> \o t)
    BY SMTT(60), TwoInFront
<1>3. <<y>> \o t \in Seq(Seq(Byte))
    BY SMTT(60)
<1> QED
    BY <1>1, <1>2, <1>3

\* What get_buffer offers is what is not sent.
LEMMA SentUnsent ==
    ASSUME NEW b \in Buffer, Pieces(b)
    PROVE  Unsent(b) \in Seq(Byte) /\ Sent(b) \o Unsent(b) = Joined(b.output_msgs)
<1> DEFINE s == b.output_msgs
           h == s[1]
           rest == SubSeq(h, b.index + 1, Len(h))
<1>1. s \in Seq(Seq(Byte)) /\ b.index \in Nat
    BY BufferFields
<1>2. CASE s = <<>>
  <2>1. Sent(b) = <<>> /\ Unsent(b) = <<>> /\ <<>> \in Seq(Byte) /\ <<>> \o <<>> = <<>>
      BY <1>2, EmptyIn DEF Sent, Unsent
  <2> QED
      BY <1>2, <2>1, JoinedEmpty
<1>3. CASE s # <<>>
  <2>1. /\ h \in Seq(Byte) /\ Head(s) = h /\ Joined(s) = h \o Joined(Tail(s))
        /\ Joined(Tail(s)) \in Seq(Byte)
      BY <1>1, <1>3, FirstAndRest
  <2>2. b.index < Len(h)
      BY <1>3 DEF Pieces
  <2> HIDE DEF h, s
  <2>3. /\ rest \in Seq(Byte) /\ SubSeq(h, 1, b.index) \in Seq(Byte)
        /\ SubSeq(h, 1, b.index) \o rest = h
    <3>1. b.index \in 0..Len(h)
        BY SMTT(60), <1>1, <2>1, <2>2
    <3>2. Cut(Byte, h, b.index)
        BY <2>1, <3>1, CutInTwo
    <3> QED
        BY <3>2 DEF Cut
  <2> HIDE DEF rest
  <2>4. Sent(b) = SubSeq(h, 1, b.index) /\ Unsent(b) = rest \o Joined(Tail(s))
      BY <1>3, <2>1 DEF Sent, Unsent, s, h, rest
  <2>5. Associates(SubSeq(h, 1, b.index), rest, Joined(Tail(s)))
      BY <2>1, <2>3, ConcatAgain
  <2>6. Unsent(b) \in Seq(Byte)
      BY <2>1, <2>3, <2>4, ConcatIn
  <2> QED
      BY <2>1, <2>3, <2>4, <2>5, <2>6 DEF s, Associates
<1> QED
    BY <1>2, <1>3

\* A message to the front goes before all the buffer holds, or after the piece that is
\* under way.
Inserted(b, c, x) ==
    \E u, v \in Seq(Byte) : Content(b) = u \o v /\ Content(c) = u \o (x \o v)

\* Prepending puts a message where it tears none apart.
LEMMA PrependAdds ==
    ASSUME NEW b, Sound(b), NEW x \in Seq(Byte), x # <<>>, Unbroken(x)
    PROVE  LET c == PrependMsgbytes(b, x)
           IN  Sound(c) /\ Sent(c) = Sent(b) /\ Inserted(b, c, x)
<1> DEFINE s == b.output_msgs
           t == IF b.index = 0 THEN <<x>> \o s ELSE <<Head(s), x>> \o Tail(s)
           c == PrependMsgbytes(b, x)
<1>1. /\ b \in Buffer /\ Len(x) \in Nat /\ Len(x) > 0 /\ s \in Seq(Seq(Byte)) /\ b.batch \in Seq(Byte)
      /\ b.index \in Nat /\ b.length \in Int /\ Content(b) \in Seq(Byte) /\ Pieces(b)
      /\ Joined(s) \in Seq(Byte)
  <2>1. Len(x) \in Nat /\ Len(x) > 0
      BY SMTT(60)
  <2> QED
      BY <2>1, BufferFields DEF Sound
<1>2. b.index # 0 => s # <<>>
    BY <1>1 DEF Pieces
<1>3. t \in Seq(Seq(Byte))
  <2>1. <<x>> \o s \in Seq(Seq(Byte))
      BY SMTT(60), <1>1
  <2>2. ASSUME b.index # 0 PROVE <<Head(s), x>> \o Tail(s) \in Seq(Seq(Byte))
      BY SMTT(60), <1>1, <1>2, <2>2
  <2> QED
      BY <2>1, <2>2
<1>4. /\ c \in Buffer /\ c.output_msgs = t /\ c.index = b.index /\ c.batch = b.batch
      /\ c.length = b.length + Len(x) /\ c.enable_buffering = b.enable_buffering
  <2>1. b.length + Len(x) \in Int
      BY <1>1, IntSum
  <2> QED
      BY <1>1, <1>3, <2>1 DEF PrependMsgbytes, Buffer
<1> HIDE DEF c
<1>5. Pieces(c) /\ Sent(c) = Sent(b)
  <2>1. CASE b.index = 0
    <3>1. t # <<>> /\ t[1] = x /\ 0 < Len(x)
        BY SMTT(60), <1>1, <2>1
    <3>2. \A i \in 1..Len(t) : t[i] = x \/ (i - 1 \in 1..Len(s) /\ t[i] = s[i - 1])
        BY SMTT(60), <1>1, <2>1
    <3>3. \A i \in 1..Len(t) : t[i] # <<>> /\ Unbroken(t[i])
        BY <1>1, <3>2 DEF Pieces
    <3>4. Sent(b) = <<>> /\ SubSeq(x, 1, 0) = <<>>
      <4>1. Sent(b) \in Seq(Byte) /\ Len(Sent(b)) = 0
          BY <1>1, <2>1, SentIn
      <4> QED
          BY SMTT(60), <4>1
    <3> HIDE DEF t
    <3> QED
        BY <1>4, <2>1, <3>1, <3>3, <3>4 DEF Pieces, Sent
  <2>2. CASE b.index # 0
    <3>1. t # <<>> /\ t[1] = s[1]
        BY SMTT(60), <1>1, <1>2, <2>2
    <3>2. \A i \in 1..Len(t) : t[i] = x \/ t[i] = s[1] \/ (i - 1 \in 1..Len(s) /\ t[i] = s[i - 1])
        BY SMTT(60), <1>1, <1>2, <2>2
    <3>3. 1 \in 1..Len(s)
        BY <1>1, <1>2, <2>2, FirstAndRest
    <3>4. \A i \in 1..Len(t) : t[i] # <<>> /\ Unbroken(t[i])
        BY <1>1, <3>2, <3>3 DEF Pieces
    <3> HIDE DEF t
    <3> QED
        BY <1>1, <1>2, <1>4, <2>2, <3>1, <3>4 DEF Pieces, Sent
  <2> QED
      BY <2>1, <2>2
<1>6. PICK u \in Seq(Byte), v \in Seq(Byte) : Content(b) = u \o v /\ Content(c) = u \o (x \o v)
  <2>1. CASE b.index = 0
    <3>1. Joined(t) = x \o Joined(s)
        BY <1>1, <2>1, JoinedFront
    <3>2. Content(c) = (x \o Joined(s)) \o b.batch
        BY <1>4, <3>1 DEF Content
    <3>3. Associates(x, Joined(s), b.batch)
        BY <1>1, ConcatAgain
    <3>4. Content(c) = x \o Content(b)
        BY <3>2, <3>3 DEF Content, Associates
    <3>5. x \o Content(b) \in Seq(Byte)
        BY <1>1, ConcatIn
    <3>6. <<>> \in Seq(Byte) /\ Content(b) = <<>> \o Content(b)
          /\ x \o Content(b) = <<>> \o (x \o Content(b))
        BY <1>1, <3>5, NothingJoined
    <3> QED
        BY <1>1, <3>4, <3>6
  <2>2. CASE b.index # 0
    <3> DEFINE f == Joined(Tail(s))
    <3>1. /\ s[1] \in Seq(Byte) /\ Head(s) = s[1] /\ Tail(s) \in Seq(Seq(Byte))
          /\ Joined(s) = s[1] \o f /\ f \in Seq(Byte)
        BY <1>1, <1>2, <2>2, FirstAndRest
    <3>2. Joined(t) = s[1] \o (x \o f)
      <4>1. t = <<s[1], x>> \o Tail(s)
          BY <2>2, <3>1
      <4>2. s[1] \in Seq(Byte) /\ Tail(s) \in Seq(Seq(Byte))
          BY <3>1
      <4> HIDE DEF s, t
      <4> QED
          BY <4>1, <4>2, JoinedFront
    <3> HIDE DEF f
    <3>3. Content(c) = (s[1] \o (x \o f)) \o b.batch /\ Content(b) = (s[1] \o f) \o b.batch
        BY <1>4, <3>1, <3>2 DEF Content
    <3>4. f \o b.batch \in Seq(Byte)
        BY <1>1, <3>1, ConcatIn
    <3>5. /\ (s[1] \o (x \o f)) \o b.batch = s[1] \o (x \o (f \o b.batch))
          /\ (s[1] \o f) \o b.batch = s[1] \o (f \o b.batch)
      <4>1. s[1] \in Seq(Byte) /\ f \in Seq(Byte) /\ b.batch \in Seq(Byte)
          BY <1>1, <3>1
      <4>2. Regroups(s[1], x, f, b.batch)
          BY <4>1, ByteConcatBetween
      <4> QED
          BY <4>2 DEF Regroups
    <3>6. Content(b) = s[1] \o (f \o b.batch) /\ Content(c) = s[1] \o (x \o (f \o b.batch))
        BY <3>3, <3>5
    <3> QED
        BY <3>1, <3>4, <3>6
  <2> QED
      BY <2>1, <2>2
<1>7. c.length = Len(Content(c)) - c.index
  <2>1. Len(Content(b)) = Len(u) + Len(v) /\ Len(Content(c)) = Len(u) + (Len(x) + Len(v))
      BY <1>6, ConcatIn
  <2>2. b.length = Len(Content(b)) - b.index /\ Len(u) \in Nat /\ Len(v) \in Nat
      BY MemberIn DEF Sound
  <2> QED
      BY SMTT(60), <1>1, <1>4, <2>1, <2>2
<1>8. Sound(c)
    BY <1>4, <1>5, <1>7 DEF Sound
<1> QED
    BY <1>5, <1>6, <1>8 DEF c, Inserted

\* A message that is enqueued, to the end or to the front, keeps the order.
LEMMA EnqueueKeeps ==
    ASSUME NEW b, NEW wr, NEW n, NEW P, InOrder(b, wr, n, P), n + 1 \in 1..Len(Size)
    PROVE  /\ InOrder(EnqueueMsgbytes(b, Bytes(n + 1)), wr, n + 1, P)
           /\ InOrder(PrependMsgbytes(b, Bytes(n + 1)), wr, n + 1, P \cup {n + 1})
<1> DEFINE x == Bytes(n + 1)
<1>1. Sound(b) /\ n \in Nat /\ P \in SUBSET Nat /\ \E w : Fits(w, b, wr, n, P)
    BY DEF InOrder
<1>2. PICK w : Fits(w, b, wr, n, P)
    BY <1>1
<1>3. x \in Seq(Byte) /\ x # <<>> /\ Unbroken(x) /\ \A i \in 1..Len(x) : x[i][1] = n + 1
    BY BytesWhole
<1> HIDE DEF x
<1>4. w \in Seq(Byte) /\ b \in Buffer /\ Content(b) \in Seq(Byte) /\ n + 1 \in Nat
      /\ w \o Content(b) \in Seq(Byte)
  <2>1. w \in Seq(Byte) /\ b \in Buffer
      BY <1>1, <1>2 DEF Sound, Fits
  <2>2. Content(b) \in Seq(Byte)
      BY <2>1, BufferFields
  <2> QED
      BY <1>1, <2>1, <2>2, ConcatIn, UpByOne
<1>5. Known(w \o Content(b), n) /\ Ordered(w \o Content(b), P)
    BY <1>2 DEF Fits
<1>6. InOrder(EnqueueMsgbytes(b, x), wr, n + 1, P)
  <2> DEFINE c == EnqueueMsgbytes(b, x)
  <2>1. Sound(c) /\ Content(c) = Content(b) \o x /\ Sent(c) = Sent(b)
      BY <1>1, <1>3, EnqueueAdds
  <2> HIDE DEF c
  <2>2. Known((w \o Content(b)) \o x, n + 1) /\ Ordered((w \o Content(b)) \o x, P)
      BY <1>1, <1>3, <1>4, <1>5, NextAtEnd
  <2>3. Associates(w, Content(b), x)
      BY <1>3, <1>4, ConcatAgain
  <2>4. Fits(w, c, wr, n + 1, P)
      BY <1>2, <2>1, <2>2, <2>3 DEF Fits, Associates
  <2> QED
      BY <1>1, <1>4, <2>1, <2>4, InOrderFrom DEF c
<1>7. InOrder(PrependMsgbytes(b, x), wr, n + 1, P \cup {n + 1})
  <2> DEFINE c == PrependMsgbytes(b, x)
  <2>1. Sound(c) /\ Sent(c) = Sent(b) /\ Inserted(b, c, x)
      BY <1>1, <1>3, PrependAdds
  <2> HIDE DEF c
  <2>2. PICK u \in Seq(Byte), v \in Seq(Byte) : Content(b) = u \o v /\ Content(c) = u \o (x \o v)
      BY <2>1 DEF Inserted
  <2>3. w \o u \in Seq(Byte) /\ x \o v \in Seq(Byte)
      BY <1>3, <1>4, ConcatIn
  <2>4. w \o (u \o v) = (w \o u) \o v
    <3>1. Regroups(w, x, u, v)
        BY <1>3, <1>4, ByteConcatBetween
    <3> QED
        BY <3>1 DEF Regroups
  <2>5. w \o (u \o (x \o v)) = (w \o u) \o (x \o v)
    <3>1. Regroups(w, x, u, x \o v)
        BY <1>3, <1>4, <2>3, ByteConcatBetween
    <3> QED
        BY <3>1 DEF Regroups
  <2>6. Known((w \o u) \o v, n) /\ Ordered((w \o u) \o v, P)
      BY <1>5, <2>2, <2>4
  <2>7. Known((w \o u) \o (x \o v), n + 1) /\ Ordered((w \o u) \o (x \o v), P \cup {n + 1})
      BY <1>1, <1>3, <2>3, <2>6, NextBetween
  <2>8. Fits(w, c, wr, n + 1, P \cup {n + 1})
      BY <1>2, <2>1, <2>2, <2>5, <2>7 DEF Fits
  <2>9. P \cup {n + 1} \in SUBSET Nat
      BY <1>1, <1>4
  <2> QED
      BY <1>4, <2>1, <2>8, <2>9, InOrderFrom DEF c
<1> QED
    BY <1>6, <1>7 DEF x

\* Once a number of pieces have been written, what is written ends with a whole message.
LEMMA PiecesWritten ==
    ASSUME NEW b, NEW wr, NEW n, NEW P, InOrder(b, wr, n, P), NEW c \in Buffer, NEW sent \in Seq(Byte),
           NEW p \in Seq(Seq(Byte)), NEW q \in Seq(Seq(Byte)),
           b.output_msgs = p \o q, Sent(b) \o sent = Joined(p),
           c.output_msgs = q, c.index = 0, c.batch = b.batch, c.length = b.length - Len(sent),
           c.enable_buffering = b.enable_buffering
    PROVE  InOrder(c, wr \o sent, n, P)
<1>1. Sound(b) /\ n \in Nat /\ P \in SUBSET Nat /\ \E w : Fits(w, b, wr, n, P)
    BY DEF InOrder
<1>2. PICK w : Fits(w, b, wr, n, P)
    BY <1>1
<1>0. Parts(p, q)
    BY PartMembers
<1> DEFINE f == Joined(p)
           g == Joined(q)
<1>3. w \in Seq(Byte) /\ b \in Buffer /\ Pieces(b) /\ b.batch \in Seq(Byte) /\ b.length \in Int
      /\ b.index \in Nat /\ Sent(b) \in Seq(Byte) /\ Len(Sent(b)) = b.index
  <2>1. w \in Seq(Byte) /\ b \in Buffer /\ Pieces(b)
      BY <1>1, <1>2 DEF Sound, Fits
  <2> QED
      BY <2>1, BufferFields, SentIn
<1>4. f \in Seq(Byte) /\ g \in Seq(Byte)
    BY JoinedAppend, EmptyIn
<1>5. Joined(b.output_msgs) = f \o g
    BY JoinedConcat
<1>6. \A i \in 1..Len(p) : Unbroken(p[i])
  <2>1. \A i \in 1..Len(p) : i \in 1..Len(p \o q) /\ (p \o q)[i] = p[i]
      BY <1>0 DEF Parts
  <2> QED
      BY <1>3, <2>1 DEF Pieces
<1>7. \A i \in 1..Len(q) : q[i] # <<>> /\ Unbroken(q[i])
  <2>1. \A i \in 1..Len(q) : Len(p) + i \in 1..Len(p \o q) /\ (p \o q)[Len(p) + i] = q[i]
      BY <1>0 DEF Parts
  <2>2. ASSUME NEW i \in 1..Len(q) PROVE q[i] # <<>> /\ Unbroken(q[i])
    <3>1. /\ b.output_msgs[Len(p) + i] # <<>> /\ Unbroken(b.output_msgs[Len(p) + i])
          /\ b.output_msgs[Len(p) + i] = q[i]
        BY <1>3, <2>1 DEF Pieces
    <3> QED
        BY <3>1
  <2> QED
      BY <2>2
<1>8. Pieces(c) /\ Sent(c) = <<>>
  <2>1. CASE q = <<>>
      BY <1>7, <2>1 DEF Pieces, Sent
  <2>2. CASE q # <<>>
    <3>1. 1 \in 1..Len(q) /\ q[1] \in Seq(Byte)
        BY <2>2, FirstAndRest
    <3>2. q[1] # <<>>
        BY <1>7, <3>1
    <3>3. 0 < Len(q[1]) /\ SubSeq(q[1], 1, 0) = <<>>
        BY SMTT(60), <3>1, <3>2
    <3> QED
        BY <1>7, <2>2, <3>3 DEF Pieces, Sent
  <2> QED
      BY <2>1, <2>2
<1>9. Unbroken(f) /\ Unbroken(w)
    BY <1>2, <1>6, UnbrokenJoined DEF Fits
<1> HIDE DEF f, g
<1>10. Unbroken(w \o f) /\ w \o f \in Seq(Byte)
    BY <1>3, <1>4, <1>9, UnbrokenConcat, ConcatIn
<1>11. Content(b) = (f \o g) \o b.batch /\ Content(c) = g \o b.batch
    BY <1>5 DEF Content, g
<1>12. (w \o f) \o Content(c) = w \o Content(b)
  <2>1. Regroups(w, f, g, b.batch)
      BY <1>3, <1>4, ByteConcatBetween
  <2> QED
      BY <1>11, <2>1 DEF Regroups
<1>13. wr \o sent = (w \o f) \o Sent(c)
  <2>1. Associates(w, Sent(b), sent)
      BY <1>3, ConcatAgain
  <2>2. (w \o f) \o <<>> = w \o f
      BY <1>10, NothingJoined
  <2> QED
      BY <1>2, <1>8, <2>1, <2>2 DEF Fits, Associates, f
<1>14. c.length = Len(Content(c)) - c.index
  <2>1. Len(f) = b.index + Len(sent)
      BY <1>3, ConcatIn DEF f
  <2>2. f \o g \in Seq(Byte)
      BY <1>4, ConcatIn
  <2>3. Len(f \o g) = Len(f) + Len(g)
      BY <1>4, ConcatIn
  <2>4. Len(Content(b)) = Len(f \o g) + Len(b.batch) /\ Len(Content(c)) = Len(g) + Len(b.batch)
    <3>1. b.batch \in Seq(Byte)
        BY <1>3
    <3>2. Len((f \o g) \o b.batch) = Len(f \o g) + Len(b.batch)
        BY <2>2, <3>1, ConcatIn
    <3>3. Len(g \o b.batch) = Len(g) + Len(b.batch)
        BY <1>4, <3>1, ConcatIn
    <3> QED
        BY <1>11, <3>2, <3>3
  <2>5. Len(f) \in Nat /\ Len(g) \in Nat /\ Len(b.batch) \in Nat /\ Len(sent) \in Nat
      BY <1>3, <1>4, MemberIn
  <2>6. b.length = Len(Content(b)) - b.index /\ b.index \in Nat /\ b.length \in Int
      BY <1>1, <1>3 DEF Sound
  <2>7. LeftOver(b.index, Len(sent), Len(g), Len(b.batch))
      BY <2>5, <2>6, LeftOverIs
  <2> QED
      BY <2>1, <2>3, <2>4, <2>6, <2>7 DEF LeftOver
<1>15. Sound(c)
    BY <1>1, <1>8, <1>14 DEF Sound
<1>16. Fits(w \o f, c, wr \o sent, n, P)
    BY <1>2, <1>10, <1>12, <1>13 DEF Fits
<1> QED
    BY <1>1, <1>15, <1>16, InOrderFrom

\* What send writes, k pieces of a buffer with at least as many.
LEMMA SendPieces ==
    ASSUME NEW b, NEW wr, NEW n, NEW P, InOrder(b, wr, n, P), NEW k \in 1..Len(b.output_msgs)
    PROVE  LET sent == Unsent([b EXCEPT !.output_msgs = SubSeq(@, 1, k)])
               left == [b EXCEPT !.output_msgs = SubSeq(@, k + 1, Len(@)), !.index = 0]
           IN  InOrder([left EXCEPT !.length = @ - Len(sent)], wr \o sent, n, P)
<1> DEFINE s == b.output_msgs
           p == SubSeq(s, 1, k)
           q == SubSeq(s, k + 1, Len(s))
           d == [b EXCEPT !.output_msgs = SubSeq(@, 1, k)]
           sent == Unsent(d)
           left == [b EXCEPT !.output_msgs = SubSeq(@, k + 1, Len(@)), !.index = 0]
           c == [left EXCEPT !.length = @ - Len(sent)]
<1>1. b \in Buffer /\ Pieces(b) /\ s \in Seq(Seq(Byte)) /\ b.length \in Int
  <2>1. b \in Buffer /\ Pieces(b)
      BY DEF InOrder, Sound
  <2> QED
      BY <2>1, BufferFields
<1>2. k \in 0..Len(s)
    BY SMTT(60), <1>1
<1>3. p \in Seq(Seq(Byte)) /\ q \in Seq(Seq(Byte)) /\ Len(p) = k /\ p \o q = s
  <2>1. Cut(Seq(Byte), s, k)
      BY <1>1, <1>2, CutInTwo
  <2> QED
      BY <2>1 DEF Cut
<1>4. s # <<>> /\ p # <<>> /\ \A i \in 1..Len(p) : i \in 1..Len(s) /\ p[i] = s[i]
  <2>1. \A i \in 1..Len(p) : i \in 1..Len(p \o q) /\ (p \o q)[i] = p[i]
    <3>1. Parts(p, q)
        BY <1>3, PartMembers
    <3> QED
        BY <3>1 DEF Parts
  <2>2. s # <<>> /\ p # <<>>
    <3>1. Len(s) \in Nat
        BY <1>1, MemberIn
    <3>2. k # 0 /\ Len(s) # 0 /\ Len(<<>>) = 0
        BY <3>1, InFirst, EmptyIn
    <3> QED
        BY <1>3, <3>2
  <2> QED
      BY <1>3, <2>1, <2>2
<1>5. p[1] = s[1]
  <2>1. 1 \in 1..Len(p)
      BY <1>3, <1>4, FirstAndRest
  <2> QED
      BY <1>4, <2>1
<1> HIDE DEF p, q
<1>6. d \in Buffer /\ d.output_msgs = p /\ d.index = b.index
    BY <1>1, <1>3 DEF Buffer, p
<1> HIDE DEF d
<1>7. Pieces(d) /\ Sent(d) = Sent(b)
  <2>1. \A i \in 1..Len(p) : p[i] # <<>> /\ Unbroken(p[i])
      BY <1>1, <1>4 DEF Pieces
  <2> QED
      BY <1>1, <1>4, <1>5, <1>6, <2>1 DEF Pieces, Sent
<1>8. sent \in Seq(Byte) /\ Sent(b) \o sent = Joined(p)
    BY <1>6, <1>7, SentUnsent
<1> HIDE DEF sent
<1>9. /\ c \in Buffer /\ c.output_msgs = q /\ c.index = 0 /\ c.batch = b.batch
      /\ c.length = b.length - Len(sent) /\ c.enable_buffering = b.enable_buffering
  <2>1. b.length - Len(sent) \in Int /\ 0 \in Nat
    <3>1. Len(sent) \in Nat
        BY <1>8, MemberIn
    <3> QED
        BY <1>1, <3>1, IntSum
  <2> QED
      BY <1>1, <1>3, <2>1 DEF Buffer, q
<1> HIDE DEF c, s
<1>10. InOrder(c, wr \o sent, n, P)
    BY <1>3, <1>8, <1>9, PiecesWritten DEF s
<1> QED
    BY <1>10 DEF c, sent, d

\* Sending keeps messages whole and in order.
LEMMA SendKeeps ==
    ASSUME NEW b, NEW can, NEW n, NEW P, InOrder(b, written, n, P), Send(b, can)
    PROVE  InOrder(outputbuf', written', n, P)
<1> DEFINE ready == GetBuffer(b)
<1>1. InOrder(ready, written, n, P)
  <2>1. Sound(b)
      BY DEF InOrder
  <2>2. Sound(ready) /\ Content(ready) = Content(b) /\ Sent(ready) = Sent(b)
      BY <2>1, GetBufferKeeps
  <2> QED
      BY <2>2, SameContent
<1>2. CASE alive /\ can
  <2> HIDE DEF ready
  <2>1. CASE ready.output_msgs = <<>>
      BY <1>1, <1>2, <2>1 DEF Send, ready
  <2>2. CASE ready.output_msgs # <<>>
    <3> DEFINE sent(k) == Unsent([ready EXCEPT !.output_msgs = SubSeq(@, 1, k)])
               left(k) == [ready EXCEPT !.output_msgs = SubSeq(@, k + 1, Len(@)), !.index = 0]
    <3>1. PICK k \in 1..Len(ready.output_msgs) :
             /\ written' = written \o sent(k)
             /\ outputbuf' = [left(k) EXCEPT !.length = @ - Len(sent(k))]
        BY <1>2, <2>2 DEF Send, ready
    <3>2. InOrder([left(k) EXCEPT !.length = @ - Len(sent(k))], written \o sent(k), n, P)
        BY <1>1, SendPieces
    <3> HIDE DEF sent, left
    <3> QED
        BY <3>1, <3>2
  <2> QED
      BY <2>1, <2>2
<1>3. CASE ~ (alive /\ can)
    BY <1>3 DEF Send
<1> QED
    BY <1>2, <1>3

\* The next m bytes after the first i.
GoesOn(s, i, m) ==
    /\ SubSeq(s, i + 1, i + m) \in Seq(Byte) /\ Len(SubSeq(s, i + 1, i + m)) = m
    /\ SubSeq(s, 1, i) \o SubSeq(s, i + 1, i + m) = SubSeq(s, 1, i + m)

\* The next m members after the first i go on where those end.
LEMMA SubSeqOn ==
    ASSUME NEW s \in Seq(Byte), NEW i \in Nat, NEW m \in Nat, i + m <= Len(s)
    PROVE  GoesOn(s, i, m)
<1> DEFINE u == SubSeq(s, 1, i)
           v == SubSeq(s, i + 1, i + m)
           z == SubSeq(s, 1, i + m)
<1>1. u \in Seq(Byte) /\ Len(u) = i /\ \A k \in 1..i : u[k] = s[k]
    BY SMTT(60)
<1>2. v \in Seq(Byte) /\ Len(v) = m /\ \A k \in 1..m : v[k] = s[i + k]
    BY SMTT(60)
<1>3. z \in Seq(Byte) /\ Len(z) = i + m /\ \A k \in 1..(i + m) : z[k] = s[k]
    BY SMTT(60)
<1> HIDE DEF u, v, z
<1>4. u \o v \in Seq(Byte) /\ Len(u \o v) = i + m
    BY <1>1, <1>2, ConcatIn
<1>5. ASSUME NEW k \in 1..(i + m) PROVE (u \o v)[k] = s[k]
  <2>0. Parts(u, v)
      BY <1>1, <1>2, PartMembers
  <2>1. CASE k <= i
    <3>1. k \in 1..i
        BY SMTT(60), <2>1
    <3> QED
        BY <1>1, <2>0, <3>1 DEF Parts
  <2>2. CASE k > i
    <3>1. k - i \in 1..m /\ i + (k - i) = k
        BY SMTT(60), <2>2
    <3>2. (u \o v)[Len(u) + (k - i)] = v[k - i]
        BY <1>2, <2>0, <3>1 DEF Parts
    <3>3. v[k - i] = s[i + (k - i)]
        BY <1>2, <3>1
    <3> QED
        BY <1>1, <3>1, <3>2, <3>3
  <2>3. k <= i \/ k > i
      BY SMTT(60)
  <2> QED
      BY <2>1, <2>2, <2>3
<1>6. u \o v = z
    BY <1>3, <1>4, <1>5, SameMembers
<1> QED
    BY <1>2, <1>6 DEF u, v, z, GoesOn

\* What advance_buffer leaves when m bytes of the first piece are sent.
LEMMA AdvanceKeeps ==
    ASSUME NEW b, NEW wr, NEW n, NEW P, InOrder(b, wr, n, P), NEW m \in Nat,
           b.output_msgs # <<>>, b.index + m <= Len(Head(b.output_msgs))
    PROVE  InOrder(AdvanceBuffer(b, m),
                   wr \o SubSeq(Head(b.output_msgs), b.index + 1, b.index + m), n, P)
<1> DEFINE s == b.output_msgs
           h == s[1]
           sent == SubSeq(h, b.index + 1, b.index + m)
           moved == [b EXCEPT !.index = @ + m, !.length = @ - m]
           done == [moved EXCEPT !.output_msgs = Tail(@), !.index = 0]
<1>1. /\ Sound(b) /\ b \in Buffer /\ Pieces(b) /\ n \in Nat /\ P \in SUBSET Nat
      /\ \E w : Fits(w, b, wr, n, P)
    BY DEF InOrder, Sound
<1>2. /\ s \in Seq(Seq(Byte)) /\ b.length \in Int /\ b.index \in Nat /\ b.batch \in Seq(Byte)
      /\ Content(b) \in Seq(Byte) /\ Len(Content(b)) \in Nat
    BY <1>1, BufferFields
<1>3. h \in Seq(Byte) /\ Head(s) = h /\ Tail(s) \in Seq(Seq(Byte)) /\ b.index + m <= Len(h)
    BY <1>2, FirstAndRest
<1>4. Sent(b) = SubSeq(h, 1, b.index) /\ Sent(b) \in Seq(Byte)
    BY <1>1, SentIn DEF Sent
<1> HIDE DEF h
<1>5. /\ sent \in Seq(Byte) /\ Len(sent) = m
      /\ Sent(b) \o sent = SubSeq(h, 1, b.index + m)
  <2>1. /\ sent \in Seq(Byte) /\ Len(sent) = m
        /\ SubSeq(h, 1, b.index) \o sent = SubSeq(h, 1, b.index + m)
    <3>1. GoesOn(h, b.index, m)
        BY <1>2, <1>3, SubSeqOn
    <3> QED
        BY <3>1 DEF GoesOn
  <2> QED
      BY <1>4, <2>1
<1>6. b.index + m \in Nat /\ b.length - m \in Int /\ 0 \in Nat
    BY SMTT(60), <1>2
<1>7. CASE b.index + m = Len(h)
  <2>1. AdvanceBuffer(b, m) = done
    <3>1. moved.index = b.index + m
        BY <1>1 DEF Buffer
    <3> HIDE DEF moved
    <3>2. moved.index = Len(Head(s))
        BY <1>3, <1>7, <3>1
    <3> QED
        BY <3>2 DEF AdvanceBuffer, moved
  <2>2. /\ done \in Buffer /\ done.output_msgs = Tail(s) /\ done.index = 0 /\ done.batch = b.batch
        /\ done.length = b.length - Len(sent) /\ done.enable_buffering = b.enable_buffering
    <3>1. /\ done \in Buffer /\ done.output_msgs = Tail(s) /\ done.index = 0 /\ done.batch = b.batch
          /\ done.length = b.length - m /\ done.enable_buffering = b.enable_buffering
        BY <1>1, <1>3, <1>6 DEF Buffer
    <3> QED
        BY <1>5, <3>1
  <2>3. <<h>> \in Seq(Seq(Byte)) /\ s = <<h>> \o Tail(s)
    <3>1. s = <<s[1]>> \o Tail(s)
        BY SMTT(60), <1>2
    <3>2. <<h>> \in Seq(Seq(Byte))
        BY SMTT(60), <1>3
    <3> QED
        BY <3>1, <3>2 DEF h
  <2>4. SubSeq(h, 1, Len(h)) = h
      BY SMTT(60), <1>3
  <2>5. Sent(b) \o sent = Joined(<<h>>)
      BY <1>3, <1>5, <1>7, <2>4, JoinedOne
  <2> HIDE DEF done, sent
  <2>6. InOrder(done, wr \o sent, n, P)
      BY <1>3, <1>5, <2>2, <2>3, <2>5, PiecesWritten
  <2> QED
      BY <1>3, <2>1, <2>6 DEF sent
<1>8. CASE b.index + m # Len(h)
  <2>1. AdvanceBuffer(b, m) = moved
    <3>1. moved.index = b.index + m
        BY <1>1 DEF Buffer
    <3> HIDE DEF moved
    <3>2. moved.index # Len(Head(s))
        BY <1>3, <1>8, <3>1
    <3> QED
        BY <3>2 DEF AdvanceBuffer, moved
  <2>2. /\ moved \in Buffer /\ moved.output_msgs = s /\ moved.index = b.index + m
        /\ moved.batch = b.batch /\ moved.length = b.length - m
        /\ moved.enable_buffering = b.enable_buffering
      BY <1>1, <1>6 DEF Buffer
  <2> HIDE DEF moved
  <2>3. b.index + m < Len(h)
    <3>1. Len(h) \in Nat
        BY <1>3, MemberIn
    <3> QED
        BY SMTT(60), <1>3, <1>6, <1>8, <3>1
  <2>4. Pieces(moved) /\ Sent(moved) = Sent(b) \o sent /\ Content(moved) = Content(b)
      BY <1>1, <1>5, <2>2, <2>3 DEF Pieces, Sent, Content, h
  <2>5. moved.length = Len(Content(moved)) - moved.index
    <3>1. b.length = Len(Content(b)) - b.index
        BY <1>1 DEF Sound
    <3>2. (Len(Content(b)) - b.index) - m = Len(Content(b)) - (b.index + m)
        BY SMTT(60), <1>2
    <3> QED
        BY <2>2, <2>4, <3>1, <3>2
  <2>6. Sound(moved)
      BY <1>1, <2>2, <2>4, <2>5 DEF Sound
  <2>7. PICK w : Fits(w, b, wr, n, P)
      BY <1>1
  <2>8. w \in Seq(Byte) /\ wr = w \o Sent(b)
      BY <2>7 DEF Fits
  <2> HIDE DEF sent
  <2>9. wr \o sent = w \o Sent(moved)
    <3>1. Associates(w, Sent(b), sent)
        BY <1>4, <1>5, <2>8, ConcatAgain
    <3> QED
        BY <2>4, <2>8, <3>1 DEF Associates
  <2>10. Fits(w, moved, wr \o sent, n, P)
      BY <2>4, <2>7, <2>9 DEF Fits
  <2>11. InOrder(moved, wr \o sent, n, P)
      BY <1>1, <2>6, <2>10, InOrderFrom
  <2> QED
      BY <1>3, <2>1, <2>11 DEF sent
<1> QED
    BY <1>7, <1>8

\* What safe_empty leaves is the beginning of what there was.
LEMMA SafeEmptyKeeps ==
    ASSUME NEW b, NEW wr, NEW n, NEW P, InOrder(b, wr, n, P)
    PROVE  InOrder(SafeEmpty(b), wr, n, P)
<1> DEFINE f == Flush(b)
           s == f.output_msgs
           c == SafeEmpty(b)
<1>1. Sound(b) /\ n \in Nat /\ P \in SUBSET Nat /\ \E w : Fits(w, b, wr, n, P)
    BY DEF InOrder
<1>2. /\ Sound(f) /\ Content(f) = Content(b) /\ Sent(f) = Sent(b) /\ f.batch = <<>>
      /\ f.index = b.index /\ f.enable_buffering = b.enable_buffering /\ f \in Buffer /\ Pieces(f)
    BY <1>1, FlushKeeps DEF Sound
<1>3. s \in Seq(Seq(Byte)) /\ b \in Buffer /\ Pieces(b) /\ b.index \in Nat /\ Joined(s) \in Seq(Byte)
      /\ b.output_msgs \in Seq(Seq(Byte)) /\ Content(b) \in Seq(Byte)
  <2>1. b \in Buffer /\ Pieces(b)
      BY <1>1 DEF Sound
  <2> QED
      BY <1>2, <2>1, BufferFields
<1>4. Unbroken(<<>>) /\ <<>> \in Seq(Byte) /\ Joined(<<>>) = <<>> /\ <<>> \o <<>> = <<>>
      /\ <<>> \in Seq(Seq(Byte)) /\ Len(<<>>) = 0
  <2>1. Unbroken(<<>>) /\ Len(<<>>) = 0
      BY SMTT(60) DEF Unbroken
  <2> QED
      BY <2>1, EmptyIn, JoinedEmpty
<1>5. PICK w : Fits(w, b, wr, n, P)
    BY <1>1
<1>6. w \in Seq(Byte) /\ Known(w \o Content(b), n) /\ Ordered(w \o Content(b), P)
    BY <1>5 DEF Fits
<1>7. ASSUME Sound(c), Sent(c) = Sent(b), NEW y \in Seq(Byte), Content(c) \in Seq(Byte),
             Content(b) = Content(c) \o y
      PROVE  InOrder(c, wr, n, P)
  <2> HIDE DEF c
  <2>1. Associates(w, Content(c), y) /\ w \o Content(c) \in Seq(Byte)
      BY <1>6, <1>7, ConcatAgain, ConcatIn
  <2>2. Known((w \o Content(c)) \o y, n) /\ Ordered((w \o Content(c)) \o y, P)
      BY <1>6, <1>7, <2>1 DEF Associates
  <2>3. Known(w \o Content(c), n) /\ Ordered(w \o Content(c), P)
      BY <1>1, <1>7, <2>1, <2>2, EndDropped
  <2>4. Fits(w, c, wr, n, P)
      BY <1>5, <1>7, <2>3 DEF Fits
  <2> QED
      BY <1>1, <1>7, <2>4, InOrderFrom
<1>8. CASE b.index # 0
  <2> DEFINE h == s[1]
             l == Len(Head(b.output_msgs)) - b.index
  <2>1. s # <<>> /\ b.output_msgs # <<>>
      BY <1>2, <1>3, <1>8 DEF Pieces
  <2>2. h \in Seq(Byte) /\ Head(s) = h /\ Joined(s) = h \o Joined(Tail(s))
        /\ Joined(Tail(s)) \in Seq(Byte) /\ 1 \in 1..Len(s)
      BY <1>3, <2>1, FirstAndRest
  <2>3. Head(b.output_msgs) = h
    <3>1. b.batch \in Seq(Byte)
        BY <1>3, BufferFields
    <3>2. s = b.output_msgs \/ s = Append(b.output_msgs, b.batch)
        BY <1>3 DEF Flush, Buffer
    <3>3. Append(b.output_msgs, b.batch)[1] = Head(b.output_msgs)
          /\ b.output_msgs[1] = Head(b.output_msgs)
        BY SMTT(60), <1>3, <2>1, <3>1
    <3> QED
        BY <3>2, <3>3
  <2>4. Len(h) \in Nat /\ b.index < Len(h) /\ Unbroken(h) /\ h # <<>>
      BY <1>2, <2>1, <2>2, MemberIn DEF Pieces
  <2>5. <<h>> \in Seq(Seq(Byte)) /\ <<h>> # <<>> /\ <<h>>[1] = h /\ \A i \in 1..Len(<<h>>) : i = 1
    <3> HIDE DEF h
    <3> QED
        BY SMTT(60), <2>2
  <2>6. l \in Int
      BY SMTT(60), <1>3, <2>3, <2>4
  <2>7. /\ c \in Buffer /\ c.output_msgs = <<h>> /\ c.index = b.index /\ c.batch = <<>>
        /\ c.length = l /\ c.enable_buffering = b.enable_buffering
    <3>1. c = [f EXCEPT !.output_msgs = <<Head(@)>>, !.length = l]
        BY <1>8 DEF SafeEmpty
    <3> HIDE DEF c, f, l
    <3> QED
        BY <1>2, <2>2, <2>5, <2>6, <3>1 DEF Buffer
  <2> HIDE DEF c
  <2>8. Pieces(c) /\ Sent(c) = Sent(b)
    <3>1. Sent(f) = SubSeq(h, 1, b.index)
        BY <1>2, <2>1 DEF Sent
    <3> HIDE DEF h
    <3>2. Sent(c) = SubSeq(h, 1, b.index)
        BY <2>5, <2>7 DEF Sent
    <3>3. Pieces(c)
        BY <2>4, <2>5, <2>7 DEF Pieces
    <3> QED
        BY <1>2, <3>1, <3>2, <3>3
  <2>9. Content(c) = h
    <3>1. Joined(<<h>>) = h /\ h \o <<>> = h
        BY <2>2, JoinedOne, NothingJoined
    <3> QED
        BY <2>7, <3>1 DEF Content
  <2>10. Content(b) = h \o Joined(Tail(s))
    <3>1. Content(f) = Joined(s)
        BY <1>2, <1>3, NothingJoined DEF Content
    <3> QED
        BY <1>2, <2>2, <3>1
  <2>11. Sound(c)
      BY <1>1, <1>4, <2>3, <2>7, <2>8, <2>9 DEF Sound
  <2> QED
      BY <1>7, <2>2, <2>8, <2>9, <2>10, <2>11 DEF c
<1>9. CASE b.index = 0
  <2>1. /\ c \in Buffer /\ c.output_msgs = <<>> /\ c.index = 0 /\ c.batch = <<>>
        /\ c.length = 0 /\ c.enable_buffering = b.enable_buffering
    <3>1. c = [f EXCEPT !.output_msgs = <<>>, !.length = 0]
        BY <1>9 DEF SafeEmpty
    <3>2. 0 \in Int
        BY SMTT(60)
    <3> HIDE DEF c, f
    <3> QED
        BY <1>2, <1>4, <1>9, <3>1, <3>2 DEF Buffer
  <2> HIDE DEF c
  <2>2. Pieces(c) /\ Sent(c) = <<>> /\ Content(c) = <<>>
    <3>1. \A i \in 1..Len(<<>>) : FALSE
        BY SMTT(60)
    <3> QED
        BY <1>4, <2>1, <3>1 DEF Pieces, Sent, Content
  <2>3. Sent(b) = <<>>
    <3>1. Sent(b) \in Seq(Byte) /\ Len(Sent(b)) = 0
        BY <1>3, <1>9, SentIn
    <3> QED
        BY SMTT(60), <3>1
  <2>4. Sound(c)
    <3>1. 0 = 0 - 0
        BY SMTT(60)
    <3> QED
        BY <1>1, <1>4, <2>1, <2>2, <3>1 DEF Sound
  <2>5. Content(b) = Content(c) \o Content(b) /\ Content(c) \in Seq(Byte)
      BY <1>3, <1>4, <2>2, NothingJoined
  <2>6. Sent(c) = Sent(b)
      BY <2>2, <2>3
  <2> QED
      BY <1>3, <1>7, <2>4, <2>5, <2>6 DEF c
<1> QED
    BY <1>8, <1>9

\* No message in the buffer or on its way is torn apart, at any time.
LEMMA OutputStep ==
    ASSUME OutputInv, [OutputNext]_output
    PROVE  OutputInv'
<1>1. InOrder(outputbuf, written, enqueued, prepended) /\ enqueued <= Len(Size) /\ Sound(outputbuf)
      /\ enqueued \in Nat /\ prepended \in SUBSET Nat
    BY DEF OutputInv, InOrder
<1>2. ASSUME NEW prepend \in BOOLEAN, EnqueueMsg(prepend) PROVE OutputInv'
  <2>1. enqueued' = enqueued + 1 /\ enqueued + 1 \in 1..Len(Size) /\ enqueued + 1 <= Len(Size)
    <3>1. enqueued' = enqueued + 1 /\ enqueued < Len(Size)
        BY <1>2 DEF EnqueueMsg
    <3>2. Len(Size) \in Nat
        BY OutputAssumption, MemberIn
    <3> QED
        BY SMTT(60), <1>1, <3>1, <3>2
  <2>2. CASE prepend
    <3>1. prepended' = prepended \cup {enqueued + 1}
        BY <1>2, <2>1, <2>2 DEF EnqueueMsg
    <3>2. Send(PrependMsgbytes(outputbuf, Bytes(enqueued + 1)), can_send)
        BY <1>2, <2>1, <2>2 DEF EnqueueMsg
    <3>3. InOrder(PrependMsgbytes(outputbuf, Bytes(enqueued + 1)), written, enqueued + 1,
                  prepended \cup {enqueued + 1})
        BY <1>1, <2>1, EnqueueKeeps
    <3>4. InOrder(outputbuf', written', enqueued + 1, prepended \cup {enqueued + 1})
        BY <3>2, <3>3, SendKeeps
    <3> QED
        BY <2>1, <3>1, <3>4 DEF OutputInv
  <2>3. CASE ~prepend
    <3>1. prepended' = prepended
        BY <1>2, <2>3 DEF EnqueueMsg
    <3>2. Send(EnqueueMsgbytes(outputbuf, Bytes(enqueued + 1)), can_send)
        BY <1>2, <2>1, <2>3 DEF EnqueueMsg
    <3>3. InOrder(EnqueueMsgbytes(outputbuf, Bytes(enqueued + 1)), written, enqueued + 1, prepended)
        BY <1>1, <2>1, EnqueueKeeps
    <3>4. InOrder(outputbuf', written', enqueued + 1, prepended)
        BY <3>2, <3>3, SendKeeps
    <3> QED
        BY <2>1, <3>1, <3>4 DEF OutputInv
  <2> QED
      BY <2>2, <2>3
<1>3. ASSUME FlushAllSendBuffers PROVE OutputInv'
  <2>1. InOrder(outputbuf', written', enqueued, prepended)
      BY <1>1, <1>3, SendKeeps DEF FlushAllSendBuffers
  <2> QED
      BY <1>1, <1>3, <2>1 DEF OutputInv, FlushAllSendBuffers
<1>4. ASSUME DisableBuffering PROVE OutputInv'
  <2> DEFINE f == Flush(outputbuf)
             c == [f EXCEPT !.enable_buffering = FALSE]
  <2>1. /\ Sound(f) /\ Content(f) = Content(outputbuf) /\ Sent(f) = Sent(outputbuf)
        /\ f.batch = <<>> /\ f \in Buffer
      BY <1>1, FlushKeeps DEF Sound
  <2> HIDE DEF f
  <2>2. /\ c \in Buffer /\ c.output_msgs = f.output_msgs /\ c.index = f.index
        /\ c.batch = f.batch /\ c.length = f.length
      BY <2>1 DEF Buffer
  <2> HIDE DEF c
  <2>3. Content(c) = Content(f) /\ Sent(c) = Sent(f)
      BY <2>2 DEF Content, Sent
  <2>4. Sound(c)
      BY <2>1, <2>2, <2>3 DEF Sound, Pieces
  <2>5. InOrder(c, written, enqueued, prepended)
      BY <1>1, <2>1, <2>3, <2>4, SameContent
  <2>6. Send(c, can_send)
      BY <1>4 DEF DisableBuffering, c, f
  <2>7. InOrder(outputbuf', written', enqueued, prepended)
      BY <2>5, <2>6, SendKeeps
  <2> QED
      BY <1>1, <1>4, <2>7 DEF OutputInv, DisableBuffering
<1>5. ASSUME ResumeWriting PROVE OutputInv'
  <2>1. InOrder(outputbuf', written', enqueued, prepended)
      BY <1>1, <1>5, SendKeeps DEF ResumeWriting
  <2> QED
      BY <1>1, <1>5, <2>1 DEF OutputInv, ResumeWriting
<1>6. ASSUME NEW m \in DOMAIN Size, BytesSent(Size[m]) PROVE OutputInv'
  <2> DEFINE r == GetBuffer(outputbuf)
             k == Size[m]
  <2>1. k \in Nat
      BY SMTT(60), OutputAssumption
  <2>2. Sound(r) /\ Content(r) = Content(outputbuf) /\ Sent(r) = Sent(outputbuf)
      BY <1>1, GetBufferKeeps
  <2>3. InOrder(r, written, enqueued, prepended)
      BY <1>1, <2>2, SameContent
  <2>4. /\ r.output_msgs # <<>> /\ r.index + k <= Len(Head(r.output_msgs))
        /\ outputbuf' = AdvanceBuffer(r, k)
        /\ written' = written \o SubSeq(Head(r.output_msgs), r.index + 1, r.index + k)
        /\ enqueued' = enqueued /\ prepended' = prepended
      BY <1>6 DEF BytesSent
  <2> HIDE DEF r, k
  <2>5. InOrder(outputbuf', written', enqueued, prepended)
      BY <2>1, <2>3, <2>4, AdvanceKeeps
  <2> QED
      BY <1>1, <2>4, <2>5 DEF OutputInv
<1>7. ASSUME Empty PROVE OutputInv'
    BY <1>1, <1>7, SafeEmptyKeeps DEF OutputInv, Empty
<1>8. ASSUME HoldTimePasses PROVE OutputInv'
  <2> DEFINE c == [outputbuf EXCEPT !.held_long = TRUE]
  <2>1. outputbuf \in Buffer
      BY <1>1 DEF Sound
  <2>2. /\ c \in Buffer /\ c.output_msgs = outputbuf.output_msgs /\ c.index = outputbuf.index
        /\ c.batch = outputbuf.batch /\ c.length = outputbuf.length
        /\ c.enable_buffering = outputbuf.enable_buffering
      BY <2>1 DEF Buffer
  <2> HIDE DEF c
  <2>3. Content(c) = Content(outputbuf) /\ Sent(c) = Sent(outputbuf)
      BY <2>2 DEF Content, Sent
  <2>4. Sound(c)
      BY <1>1, <2>2, <2>3 DEF Sound, Pieces
  <2>5. InOrder(c, written, enqueued, prepended)
      BY <1>1, <2>3, <2>4, SameContent
  <2> QED
      BY <1>1, <1>8, <2>5 DEF OutputInv, HoldTimePasses, c
<1>9. ASSUME MarkForClose PROVE OutputInv'
    BY <1>1, <1>9 DEF OutputInv, MarkForClose
<1>10. ASSUME UNCHANGED output PROVE OutputInv'
    BY <1>1, <1>10 DEF OutputInv, output
<1> QED
    BY <1>2, <1>3, <1>4, <1>5, <1>6, <1>7, <1>8, <1>9, <1>10 DEF OutputNext

\* An empty buffer tears nothing apart.
LEMMA OutputStarts ==
    ASSUME OutputInit
    PROVE  OutputInv
<1>1. /\ outputbuf.output_msgs = <<>> /\ outputbuf.index = 0 /\ outputbuf.length = 0
      /\ outputbuf.batch = <<>> /\ outputbuf.enable_buffering /\ outputbuf \in Buffer
  <2>1. <<>> \in Seq(Byte) /\ <<>> \in Seq(Seq(Byte)) /\ 0 \in Nat /\ 0 \in Int
      BY SMTT(60)
  <2> QED
      BY <2>1 DEF OutputInit, Buffer
<1>2. enqueued = 0 /\ prepended = {} /\ written = <<>>
    BY DEF OutputInit
<1>3. /\ Unbroken(<<>>) /\ Len(<<>>) = 0 /\ 0 = 0 - 0 /\ \A i \in 1..Len(<<>>) : FALSE
      /\ 0 \in Nat
    BY SMTT(60) DEF Unbroken
<1>4. Joined(<<>>) = <<>> /\ <<>> \o <<>> = <<>> /\ <<>> \in Seq(Byte)
    BY EmptyIn, JoinedEmpty
<1>5. Content(outputbuf) = <<>> /\ Sent(outputbuf) = <<>> /\ Pieces(outputbuf)
    BY <1>1, <1>3, <1>4 DEF Content, Sent, Pieces
<1>6. Sound(outputbuf)
    BY <1>1, <1>3, <1>5 DEF Sound
<1>7. Known(<<>>, 0) /\ Ordered(<<>>, {})
    BY <1>3 DEF Known, Ordered
<1>8. Fits(<<>>, outputbuf, written, enqueued, prepended)
    BY <1>2, <1>3, <1>4, <1>5, <1>7 DEF Fits
<1>9. InOrder(outputbuf, written, enqueued, prepended)
    BY <1>2, <1>3, <1>6, <1>8, InOrderFrom
<1>10. 0 <= Len(Size)
  <2>1. Len(Size) \in Nat
      BY OutputAssumption, MemberIn
  <2> QED
      BY SMTT(60), <2>1
<1> QED
    BY <1>2, <1>9, <1>10 DEF OutputInv

\* What the invariant says of the bytes written and to come.
LEMMA OutputInvWhole ==
    ASSUME OutputInv
    PROVE  WholeMessages
<1> DEFINE b == outputbuf
           pending == Unsent(b) \o b.batch
           all == written \o pending
<1>1. Sound(b) /\ b \in Buffer /\ Pieces(b) /\ \E w : Fits(w, b, written, enqueued, prepended)
    BY DEF OutputInv, InOrder, Sound
<1>2. PICK w : Fits(w, b, written, enqueued, prepended)
    BY <1>1
<1>3. w \in Seq(Byte) /\ Unbroken(w) /\ written = w \o Sent(b) /\ Ordered(w \o Content(b), prepended)
    BY <1>2 DEF Fits
<1>4. /\ Sent(b) \in Seq(Byte) /\ Len(Sent(b)) = b.index /\ Unsent(b) \in Seq(Byte)
      /\ Sent(b) \o Unsent(b) = Joined(b.output_msgs)
      /\ b.output_msgs \in Seq(Seq(Byte)) /\ b.batch \in Seq(Byte) /\ b.index \in Nat
      /\ Joined(b.output_msgs) \in Seq(Byte) /\ Content(b) \in Seq(Byte)
    BY <1>1, SentIn, SentUnsent, BufferFields
<1>5. all = w \o Content(b)
  <2>1. Regroups(w, Sent(b), Unsent(b), b.batch)
      BY <1>3, <1>4, ByteConcatBetween
  <2>2. (w \o Sent(b)) \o (Unsent(b) \o b.batch) = w \o ((Sent(b) \o Unsent(b)) \o b.batch)
      BY <2>1 DEF Regroups
  <2> QED
      BY <1>3, <1>4, <2>2 DEF Content
<1>6. Unbroken(all)
  <2>1. Unbroken(Joined(b.output_msgs))
      BY <1>1, <1>4, UnbrokenJoined DEF Pieces
  <2>2. Unbroken(b.batch)
      BY <1>1 DEF Sound
  <2>3. Unbroken(Content(b))
      BY <1>4, <2>1, <2>2, UnbrokenConcat DEF Content
  <2> QED
      BY <1>3, <1>4, <1>5, <2>3, UnbrokenConcat
<1>7. b.length = Len(pending)
  <2>1. b.length = Len(Content(b)) - b.index
      BY <1>1 DEF Sound
  <2>2. Len(Joined(b.output_msgs)) = b.index + Len(Unsent(b))
      BY <1>4, ConcatIn
  <2>3. Len(Content(b)) = Len(Joined(b.output_msgs)) + Len(b.batch)
        /\ Len(pending) = Len(Unsent(b)) + Len(b.batch)
      BY <1>4, ConcatIn DEF Content
  <2>4. Len(Unsent(b)) \in Nat /\ Len(b.batch) \in Nat
      BY <1>4, MemberIn
  <2>5. \A i, j, k \in Nat : ((i + j) + k) - i = j + k
      BY SMTT(60)
  <2>6. ((b.index + Len(Unsent(b))) + Len(b.batch)) - b.index = Len(Unsent(b)) + Len(b.batch)
      BY <1>4, <2>4, <2>5
  <2> QED
      BY <2>1, <2>2, <2>3, <2>6
<1>8. all \in Seq(Byte) /\ Ordered(all, prepended)
    BY <1>3, <1>4, <1>5, ConcatIn
<1> HIDE DEF all, pending
<1>9. /\ all # <<>> => all[1][2] = 1 /\ all[Len(all)][2] = Size[all[Len(all)][1]]
      /\ \A i \in 1..(Len(all) - 1) :
            IF all[i][2] < Size[all[i][1]] THEN all[i + 1] = <<all[i][1], all[i][2] + 1>>
                                           ELSE all[i + 1][2] = 1
    BY <1>6 DEF Unbroken, Follows
<1>10. \A i, j \in DOMAIN all :
          i < j /\ {all[i][1], all[j][1]} \cap prepended = {} => all[i][1] <= all[j][1]
  <2>1. DOMAIN all = 1..Len(all)
      BY SMTT(60), <1>8
  <2> QED
      BY <1>8, <2>1 DEF Ordered
<1> QED
    BY <1>7, <1>9, <1>10 DEF WholeMessages, all, pending

\* Whatever messages are enqueued, to the end or the front, with buffering or without it,
\* however the transport takes the bytes or pauses, and wherever safe_empty falls: what is
\* written and what is still to come are whole messages in their order, and length counts
\* the bytes to come.
THEOREM MessagesAlwaysWhole ==
    OutputSpec => []WholeMessages
<1>1. OutputInit => OutputInv
    BY OutputStarts
<1>2. OutputInv /\ [OutputNext]_output => OutputInv'
    BY OutputStep
<1>3. OutputInv => WholeMessages
    BY OutputInvWhole
<1> QED
    BY <1>1, <1>2, <1>3, PTL DEF OutputSpec

=============================================================================
