----------------------------- MODULE PatchProofs -----------------------------
(***************************************************************************)
(* What TLAPS proves of a proposed patch, for every set of sections a model*)
(* may write and every tree. Loading a patch file gives a settled one: its *)
(* hunks say their own size, and loading it again changes nothing. Loading *)
(* the text of a proposal gives the proposal: the scan of normalize.go is  *)
(* followed turn by turn, with what it has written kept whole. No guarded  *)
(* file is in what is then prepared.                                       *)
(***************************************************************************)
EXTENDS ServicesProofs, Patch

(***************************************************************************)
(* Lists: what joining and cutting them gives, place by place.             *)
(***************************************************************************)

(* The greatest place in a set of places is one of them.                   *)
LEMMA GreatestPlace ==
    ASSUME NEW n \in Nat, NEW S, \A x \in S : x \in 1 .. n, S # {}
    PROVE  Max(S) \in S /\ \A x \in S : x <= Max(S)
<1> DEFINE behind == {m \in Nat : n - m \in S}
<1>1. behind # {} /\ behind \in SUBSET Nat
  <2>1. PICK x \in S : TRUE
    OBVIOUS
  <2>2. n - (n - x) = x /\ n - x \in Nat
    BY <2>1
  <2> QED BY <2>1, <2>2
<1>2. PICK m \in behind : \A k \in behind : m <= k
  <2> HIDE DEF behind
  <2> QED BY <1>1, LeastPlace
<1>3. n - m \in S /\ m \in Nat
  BY <1>2
<1>4. ASSUME NEW x \in S PROVE n - m >= x
  <2>1. n - (n - x) = x /\ n - x \in Nat /\ x \in Nat
    OBVIOUS
  <2>2. m <= n - x
    BY <1>2, <2>1
  <2> QED BY <1>3, <2>1, <2>2
<1>5. Max(S) \in S /\ \A y \in S : Max(S) >= y
  BY <1>3, <1>4 DEF Max
<1>6. \A x \in S : x \in Int
  OBVIOUS
<1> QED BY <1>5, <1>6

(* Two lists with the same lines are the same list.                        *)
LEMMA SameList ==
    ASSUME NEW s, IsList(s), NEW t, IsList(t), Len(s) = Len(t),
           \A i \in 1 .. Len(s) : s[i] = t[i]
    PROVE  s = t
<1> DEFINE S == {s[i] : i \in DOMAIN s}
           T == {t[i] : i \in DOMAIN t}
<1>1. s \in Seq(S) /\ t \in Seq(T)
  BY DEF IsList
<1> HIDE DEF S, T
<1>2. /\ s = [i \in 1 .. Len(s) |-> s[i]]
      /\ t = [i \in 1 .. Len(t) |-> t[i]]
  BY <1>1
<1> QED BY <1>2

(* A joined list has the lines of the first, then those of the second.     *)
LEMMA JoinedList ==
    ASSUME NEW s, IsList(s), NEW t, IsList(t)
    PROVE  /\ IsList(s \o t) /\ Len(s \o t) = Len(s) + Len(t)
           /\ \A i \in 1 .. Len(s) : (s \o t)[i] = s[i]
           /\ \A i \in 1 .. Len(t) : (s \o t)[Len(s) + i] = t[i]
<1> DEFINE S == {s[i] : i \in DOMAIN s} \cup {t[i] : i \in DOMAIN t}
           j == s \o t
<1>1. /\ DOMAIN s = 1 .. Len(s) /\ Len(s) \in Nat
      /\ DOMAIN t = 1 .. Len(t) /\ Len(t) \in Nat
  BY ListPlaces
<1>2. s \in Seq(S) /\ t \in Seq(S)
  <2> DEFINE A == {s[i] : i \in DOMAIN s}
             B == {t[i] : i \in DOMAIN t}
  <2>1. s \in Seq(A) /\ t \in Seq(B)
    BY DEF IsList
  <2> HIDE DEF A, B
  <2>2. s \in Seq(A \cup B) /\ t \in Seq(A \cup B)
    BY <2>1
  <2> QED BY <2>2 DEF A, B
<1> HIDE DEF S
<1>3. /\ j \in Seq(S) /\ Len(j) = Len(s) + Len(t)
      /\ \A i \in 1 .. Len(s) : j[i] = s[i]
      /\ \A i \in 1 .. Len(t) : j[Len(s) + i] = t[i]
  <2>1. /\ j \in Seq(S) /\ Len(j) = Len(s) + Len(t)
        /\ \A i \in 1 .. Len(s) + Len(t) :
              j[i] = IF i <= Len(s) THEN s[i] ELSE t[i - Len(s)]
    BY <1>2, ConcatProperties
  <2> HIDE DEF j
  <2>2. ASSUME NEW i \in 1 .. Len(s) PROVE j[i] = s[i]
    <3>1. i \in 1 .. Len(s) + Len(t) /\ i <= Len(s)
      BY <1>1
    <3> QED BY <2>1, <3>1
  <2>3. ASSUME NEW i \in 1 .. Len(t) PROVE j[Len(s) + i] = t[i]
    <3>1. /\ Len(s) + i \in 1 .. Len(s) + Len(t) /\ ~(Len(s) + i <= Len(s))
          /\ Len(s) + i - Len(s) = i
      BY <1>1
    <3> QED BY <2>1, <3>1
  <2> QED BY <2>1, <2>2, <2>3
<1>4. IsList(j)
  <2> DEFINE T == {j[i] : i \in DOMAIN j}
  <2> HIDE DEF j
  <2>1. j \in [1 .. Len(j) -> S] /\ DOMAIN j = 1 .. Len(j) /\ Len(j) \in Nat
    BY <1>3
  <2>2. j \in [DOMAIN j -> T]
    BY <2>1
  <2> HIDE DEF T
  <2> QED BY <2>1, <2>2, MadeList
<1> HIDE DEF j
<1> QED BY <1>3, <1>4 DEF j

(* A place of a joined list is a place of one of the two.                  *)
LEMMA JoinedPlaces ==
    ASSUME NEW s, IsList(s), NEW t, IsList(t), NEW p \in 1 .. Len(s) + Len(t)
    PROVE  p \in 1 .. Len(s) \/ p - Len(s) \in 1 .. Len(t)
BY ListPlaces

(* The part of a list from line a to line b has those lines.               *)
LEMMA PartOfList ==
    ASSUME NEW s, IsList(s), NEW a \in Nat, NEW b \in Nat, 1 <= a, a <= b + 1, b <= Len(s)
    PROVE  /\ IsList(SubSeq(s, a, b)) /\ Len(SubSeq(s, a, b)) = b - a + 1
           /\ \A i \in 1 .. b - a + 1 : SubSeq(s, a, b)[i] = s[a + i - 1]
<1> DEFINE S == {s[i] : i \in DOMAIN s}
           part == SubSeq(s, a, b)
<1>1. DOMAIN s = 1 .. Len(s) /\ Len(s) \in Nat
  BY ListPlaces
<1>2. \A i \in a .. b : s[i] \in S
  BY <1>1
<1> HIDE DEF S
<1>3. /\ part \in Seq(S) /\ Len(part) = IF a <= b THEN b - a + 1 ELSE 0
      /\ \A i \in 1 .. b - a + 1 : part[i] = s[a + i - 1]
  BY <1>2, SubSeqProperties
<1>4. Len(part) = b - a + 1
  BY <1>3
<1> HIDE DEF part
<1>5. DOMAIN part = 1 .. Len(part) /\ part \in [1 .. Len(part) -> S] /\ Len(part) \in Nat
  BY <1>3
<1>6. IsList(part)
  <2> DEFINE T == {part[i] : i \in DOMAIN part}
  <2>1. part \in [DOMAIN part -> T]
    BY <1>5
  <2> HIDE DEF T
  <2> QED BY <1>5, <2>1, MadeList
<1> QED BY <1>3, <1>4, <1>6 DEF part

(* Counting up from 0.                                                     *)
LEMMA CountsUp ==
    ASSUME NEW n \in Nat, NEW S, 0 \in S, \A k \in 0 .. n - 1 : k \in S => k + 1 \in S
    PROVE  \A k \in 0 .. n : k \in S
<1> DEFINE out == {k \in 0 .. n : k \notin S}
<1> SUFFICES ASSUME out # {} PROVE FALSE
  OBVIOUS
<1>1. PICK k \in out : \A j \in out : k <= j
  <2>1. out \in SUBSET Nat
    OBVIOUS
  <2> HIDE DEF out
  <2> QED BY <2>1, LeastPlace
<1>2. k \in 0 .. n /\ k \notin S /\ k # 0
  OBVIOUS
<1>3. k - 1 \in 0 .. n - 1 /\ k - 1 + 1 = k
  BY <1>2
<1>4. k - 1 \notin S
  BY <1>2, <1>3
<1>5. k - 1 \in out
  BY <1>2, <1>4
<1>6. k <= k - 1
  BY <1>1, <1>5
<1> QED BY <1>2, <1>6

(* The list of one line.                                                   *)
LEMMA OneLine == ASSUME NEW e PROVE IsList(<<e>>) /\ Len(<<e>>) = 1 /\ <<e>>[1] = e
<1>1. <<e>> \in Seq({e}) /\ Len(<<e>>) = 1 /\ DOMAIN <<e>> = 1 .. 1 /\ <<e>>[1] = e
  OBVIOUS
<1>2. {<<e>>[i] : i \in DOMAIN <<e>>} = {e}
  BY <1>1
<1> QED BY <1>1, <1>2 DEF IsList

(* The list of two lines.                                                  *)
LEMMA TwoLines ==
    ASSUME NEW e, NEW f
    PROVE IsList(<<e, f>>) /\ Len(<<e, f>>) = 2 /\ <<e, f>>[1] = e /\ <<e, f>>[2] = f
<1> DEFINE S == {e, f}
<1>1. /\ <<e, f>> \in Seq(S) /\ Len(<<e, f>>) = 2 /\ DOMAIN <<e, f>> = 1 .. 2
      /\ <<e, f>>[1] = e /\ <<e, f>>[2] = f
  OBVIOUS
<1>2. {<<e, f>>[i] : i \in DOMAIN <<e, f>>} = S
  BY <1>1
<1> QED BY <1>1, <1>2 DEF IsList

(* A list with one line joined ends in that line.                          *)
LEMMA JoinedLine ==
    ASSUME NEW s, IsList(s), NEW u, IsList(u), Len(u) = 1
    PROVE  /\ IsList(s \o u) /\ Len(s \o u) = Len(s) + 1
           /\ \A i \in 1 .. Len(s) : (s \o u)[i] = s[i]
           /\ (s \o u)[Len(s) + 1] = u[1]
<1>1. /\ IsList(s \o u) /\ Len(s \o u) = Len(s) + Len(u)
      /\ \A i \in 1 .. Len(s) : (s \o u)[i] = s[i]
  BY JoinedList
<1>2. (s \o u)[Len(s) + 1] = u[1]
  <2> DEFINE one == 1
  <2>1. one \in 1 .. Len(u)
    OBVIOUS
  <2> HIDE DEF one
  <2>2. (s \o u)[Len(s) + one] = u[one]
    BY <2>1, JoinedList
  <2> QED BY <2>2 DEF one
<1> QED BY <1>1, <1>2

(* To append a line is to join the list of that line.                      *)
LEMMA AppendJoins == ASSUME NEW s, IsList(s), NEW e PROVE Append(s, e) = s \o <<e>>
<1>1. PICK a : /\ a = Append(s, e) /\ IsList(a) /\ DOMAIN a = DOMAIN s \cup {Len(s) + 1}
               /\ \A i \in DOMAIN s : a[i] = s[i]
               /\ a[Len(s) + 1] = e
  BY AppendToList
<1>2. DOMAIN s = 1 .. Len(s) /\ Len(s) \in Nat
  BY ListPlaces
<1>3. PICK t : /\ t = s \o <<e>> /\ IsList(t) /\ Len(t) = Len(s) + 1
               /\ \A i \in 1 .. Len(s) : t[i] = s[i]
               /\ t[Len(s) + 1] = e
  <2>1. PICK u : u = <<e>> /\ IsList(u) /\ Len(u) = 1 /\ u[1] = e
    BY OneLine
  <2>2. /\ IsList(s \o u) /\ Len(s \o u) = Len(s) + 1
        /\ \A i \in 1 .. Len(s) : (s \o u)[i] = s[i]
        /\ (s \o u)[Len(s) + 1] = u[1]
    BY <2>1, JoinedLine
  <2> QED BY <2>1, <2>2
<1>4. Len(a) = Len(s) + 1
  <2> DEFINE T == {a[i] : i \in DOMAIN a}
             n == Len(s) + 1
  <2>1. DOMAIN a = 1 .. n /\ n \in Nat
    BY <1>1, <1>2
  <2>2. a \in [DOMAIN a -> T]
    <3> DEFINE S == {a[i] : i \in DOMAIN a}
    <3>1. a \in Seq(S)
      BY <1>1 DEF IsList
    <3> HIDE DEF S
    <3>2. a \in [DOMAIN a -> S]
      BY <3>1
    <3> QED BY <3>2 DEF S
  <2> HIDE DEF T, n
  <2>3. Len(a) = n
    BY <2>1, <2>2, MadeList
  <2> QED BY <2>3 DEF n
<1>5. \A i \in 1 .. Len(a) : a[i] = t[i]
  <2> TAKE i \in 1 .. Len(a)
  <2>1. i \in 1 .. Len(s) \/ i = Len(s) + 1
    BY <1>2, <1>4
  <2> QED BY <1>1, <1>2, <1>3, <2>1
<1>6. a = t
  BY <1>1, <1>3, <1>4, <1>5, SameList
<1> QED BY <1>1, <1>3, <1>6

(* A sequence is a list of its values.                                     *)
LEMMA SeqIsList ==
    ASSUME NEW T, NEW s, s \in Seq(T)
    PROVE  IsList(s) /\ \A i \in 1 .. Len(s) : s[i] \in T
<1>1. DOMAIN s = 1 .. Len(s) /\ s \in [DOMAIN s -> T] /\ Len(s) \in Nat
  OBVIOUS
<1> QED BY <1>1, MadeList

(* f[i] is the first i lists joined.                                       *)
IsFlat(f, ss) ==
    f = [i \in 1 .. Len(ss) |-> IF i = 1 THEN ss[i] ELSE f[i - 1] \o ss[i]]

(* Such a function exists for every list of lists.                         *)
LEMMA FlatExists ==
    ASSUME NEW ss, IsList(ss)
    PROVE  \E f : IsFlat(f, ss)
<1> DEFINE n == Len(ss)
           Upto(k, f) == f = [i \in 1 .. k |-> IF i = 1 THEN ss[i] ELSE f[i - 1] \o ss[i]]
           Some == {k \in 0 .. n : \E f : Upto(k, f)}
<1>1. n \in Nat
  BY ListPlaces
<1>2. 0 \in Some
  <2> DEFINE f == [i \in 1 .. 0 |-> ss[i]]
  <2>1. f = [i \in 1 .. 0 |-> IF i = 1 THEN ss[i] ELSE f[i - 1] \o ss[i]]
    OBVIOUS
  <2> HIDE DEF f
  <2>2. Upto(0, f) /\ 0 \in 0 .. n
    BY <1>1, <2>1
  <2> HIDE DEF Upto
  <2> QED BY <2>2
<1>3. ASSUME NEW k \in 0 .. n - 1, k \in Some PROVE k + 1 \in Some
  <2>1. PICK f : Upto(k, f)
    BY <1>3
  <2> DEFINE e == IF k = 0 THEN ss[1] ELSE f[k] \o ss[k + 1]
             g == [i \in 1 .. k + 1 |-> IF i = k + 1 THEN e ELSE f[i]]
  <2>2. \A i \in 1 .. k + 1 : g[i] = IF i = 1 THEN ss[i] ELSE g[i - 1] \o ss[i]
    <3> TAKE i \in 1 .. k + 1
    <3>1. CASE i = k + 1
      <4>1. g[i] = e
        BY <3>1
      <4>2. CASE k = 0
        BY <3>1, <4>1, <4>2
      <4>3. CASE k # 0
        <5>1. i # 1 /\ i - 1 = k /\ g[k] = f[k]
          BY <1>1, <3>1, <4>3
        <5>2. e = f[k] \o ss[i]
          BY <3>1, <4>3
        <5> HIDE DEF g, e
        <5> QED BY <4>1, <5>1, <5>2
      <4> QED BY <4>2, <4>3
    <3>2. CASE i # k + 1
      <4>1. i \in 1 .. k
        BY <1>1, <3>2
      <4>2. f[i] = IF i = 1 THEN ss[i] ELSE f[i - 1] \o ss[i]
        BY <2>1, <4>1
      <4>3. g[i] = f[i]
        BY <3>2
      <4>4. i # 1 => g[i - 1] = f[i - 1]
        BY <1>1, <4>1
      <4> HIDE DEF g
      <4> QED BY <4>2, <4>3, <4>4
    <3> QED BY <3>1, <3>2
  <2>3. g = [i \in 1 .. k + 1 |-> g[i]]
    OBVIOUS
  <2> HIDE DEF g
  <2>4. Upto(k + 1, g)
    BY <2>2, <2>3
  <2>5. k + 1 \in 0 .. n
    BY <1>1
  <2> HIDE DEF Upto
  <2> QED BY <2>4, <2>5
<1>4. \A k \in 0 .. n : k \in Some
  <2> HIDE DEF Some, n
  <2> QED BY <1>1, <1>2, <1>3, CountsUp
<1>5. n \in Some
  <2>1. n \in 0 .. n
    BY <1>1
  <2> HIDE DEF Some, n
  <2> QED BY <1>4, <2>1
<1> QED BY <1>5 DEF IsFlat

(* The first so many texts of a sequence of them, joined.                  *)
LEMMA FlatGrows ==
    ASSUME NEW ss, IsList(ss), \A n \in DOMAIN ss : IsList(ss[n])
    PROVE  \E g : /\ g[0] = <<>>
                  /\ \A k \in 0 .. Len(ss) - 1 : g[k + 1] = g[k] \o ss[k + 1]
                  /\ FlattenSeq(ss) = g[Len(ss)]
<1> DEFINE f == CHOOSE h : IsFlat(h, ss)
           n == Len(ss)
<1>1. IsFlat(f, ss)
  BY FlatExists
<1>2. FlattenSeq(ss) = IF n = 0 THEN ss ELSE f[n]
  BY DEF FlattenSeq, IsFlat
<1>3. n \in Nat /\ DOMAIN ss = 1 .. n /\ (n = 0 => ss = <<>>)
  BY ListPlaces
<1> HIDE DEF f, n
<1> DEFINE g == [k \in 0 .. n |-> IF k = 0 THEN <<>> ELSE f[k]]
<1>4. g[0] = <<>> /\ (n # 0 => g[n] = f[n])
  BY <1>3
<1>5. ASSUME NEW k \in 0 .. n - 1 PROVE g[k + 1] = g[k] \o ss[k + 1]
  <2>1. k + 1 \in 1 .. n /\ k + 1 # 0 /\ k + 1 - 1 = k
    BY <1>3
  <2>2. f[k + 1] = IF k + 1 = 1 THEN ss[k + 1] ELSE f[k] \o ss[k + 1]
    <3>1. PICK i : i = k + 1 /\ i \in 1 .. n /\ i - 1 = k
      BY <2>1
    <3>2. f[i] = IF i = 1 THEN ss[i] ELSE f[i - 1] \o ss[i]
      BY <1>1, <3>1 DEF IsFlat, n
    <3> QED BY <3>1, <3>2
  <2>3. g[k + 1] = f[k + 1]
    BY <1>3, <2>1
  <2>6. k # 0 => g[k] = f[k]
    BY <1>3
  <2> HIDE DEF g
  <2>4. CASE k = 0
    <3>1. IsList(ss[1])
      BY <1>3, <2>1, <2>4
    <3>2. <<>> \o ss[1] = ss[1]
      <4> DEFINE s == ss[1]
                 T == {s[i] : i \in DOMAIN s}
      <4>1. s \in Seq(T)
        BY <3>1 DEF IsList
      <4> HIDE DEF T, s
      <4>2. <<>> \o s = s
        BY <4>1, ConcatEmptySeq
      <4> QED BY <4>2 DEF s
    <3>3. f[1] = ss[1] /\ g[1] = f[1]
      BY <2>2, <2>3, <2>4
    <3>4. k + 1 = 1
      BY <2>4
    <3>5. g[k] = <<>>
      BY <1>4, <2>4
    <3>6. ss[k + 1] = ss[1] /\ g[k + 1] = g[1]
      BY <3>4
    <3> QED BY <3>2, <3>3, <3>5, <3>6
  <2>5. CASE k # 0
    <3>1. g[k] = f[k] /\ k + 1 # 1
      BY <2>5, <2>6
    <3> QED BY <2>2, <2>3, <3>1
  <2> QED BY <2>4, <2>5
<1>6. FlattenSeq(ss) = g[n]
  <2> HIDE DEF g
  <2> QED BY <1>2, <1>3, <1>4
<1> HIDE DEF g
<1> QED BY <1>4, <1>5, <1>6 DEF n

(***************************************************************************)
(* Lines and the texts they make.                                          *)
(***************************************************************************)

(* What a patch file says of a file or a hunk.                             *)
IsLine(line) ==
    /\ DOMAIN line = {"kind", "path", "ns", "hunk", "old", "new"}
    /\ line = [field \in DOMAIN line |-> line[field]]

(* A text is a list of lines.                                              *)
IsText(lines) == IsList(lines) /\ \A i \in DOMAIN lines : IsLine(lines[i])

(* Two lines that agree in every field are the same line.                  *)
LEMMA SameLine ==
    ASSUME NEW a, IsLine(a), NEW b, IsLine(b), a.kind = b.kind, a.path = b.path,
           a.ns = b.ns, a.hunk = b.hunk, a.old = b.old, a.new = b.new
    PROVE  a = b
<1> DEFINE D == {"kind", "path", "ns", "hunk", "old", "new"}
<1>1. a = [f \in D |-> a[f]] /\ b = [f \in D |-> b[f]]
  BY DEF IsLine
<1>2. \A f \in D : a[f] = b[f]
  OBVIOUS
<1> HIDE DEF D
<1> QED BY <1>1, <1>2

(* Two texts joined are a text.                                            *)
LEMMA JoinedText ==
    ASSUME NEW s, IsText(s), NEW t, IsText(t)
    PROVE  IsText(s \o t)
<1> DEFINE j == s \o t
<1>1. /\ IsList(j) /\ Len(j) = Len(s) + Len(t)
      /\ \A i \in 1 .. Len(s) : j[i] = s[i]
      /\ \A i \in 1 .. Len(t) : j[Len(s) + i] = t[i]
  BY JoinedList DEF IsText
<1>2. /\ DOMAIN s = 1 .. Len(s) /\ Len(s) \in Nat /\ DOMAIN t = 1 .. Len(t) /\ Len(t) \in Nat
      /\ DOMAIN j = 1 .. Len(j)
  BY <1>1, ListPlaces DEF IsText
<1> HIDE DEF j
<1>3. ASSUME NEW p \in 1 .. Len(s) + Len(t) PROVE IsLine(j[p])
  <2>1. CASE p \in 1 .. Len(s)
    BY <1>1, <1>2, <2>1 DEF IsText
  <2>2. CASE p - Len(s) \in 1 .. Len(t)
    <3>1. Len(s) + (p - Len(s)) = p
      BY <1>2
    <3>2. j[Len(s) + (p - Len(s))] = t[p - Len(s)]
      BY <1>1, <2>2
    <3> QED BY <1>2, <2>2, <3>1, <3>2 DEF IsText
  <2> QED BY <2>1, <2>2, JoinedPlaces DEF IsText
<1> QED BY <1>1, <1>2, <1>3 DEF IsText, j

(* A text with two lines joined.                                           *)
LEMMA PlusTwo ==
    ASSUME NEW s, IsText(s), NEW e, IsLine(e), NEW f, IsLine(f)
    PROVE  /\ IsText(s \o <<e, f>>) /\ Len(s \o <<e, f>>) = Len(s) + 2
           /\ \A i \in 1 .. Len(s) : (s \o <<e, f>>)[i] = s[i]
           /\ (s \o <<e, f>>)[Len(s) + 1] = e /\ (s \o <<e, f>>)[Len(s) + 2] = f
<1> DEFINE u == <<e, f>>
<1>1. IsList(u) /\ Len(u) = 2 /\ u[1] = e /\ u[2] = f
  BY TwoLines
<1> HIDE DEF u
<1>2. IsText(u)
  BY <1>1, ListPlaces DEF IsText
<1>3. IsText(s \o u)
  BY <1>2, JoinedText
<1>4. /\ Len(s \o u) = Len(s) + Len(u)
      /\ \A i \in 1 .. Len(s) : (s \o u)[i] = s[i]
      /\ \A i \in 1 .. Len(u) : (s \o u)[Len(s) + i] = u[i]
  <2>1. IsList(s) /\ IsList(u)
    BY <1>1 DEF IsText
  <2>2. Len(s \o u) = Len(s) + Len(u) /\ \A i \in 1 .. Len(s) : (s \o u)[i] = s[i]
    BY <2>1, JoinedList
  <2>3. \A i \in 1 .. Len(u) : (s \o u)[Len(s) + i] = u[i]
    BY <2>1, JoinedList
  <2> QED BY <2>2, <2>3
<1>5. (s \o u)[Len(s) + 1] = e /\ (s \o u)[Len(s) + 2] = f
  <2>1. PICK one : one = 1 /\ one \in 1 .. Len(u)
    BY <1>1
  <2>2. PICK two : two = 2 /\ two \in 1 .. Len(u)
    BY <1>1
  <2>3. (s \o u)[Len(s) + one] = u[one] /\ (s \o u)[Len(s) + two] = u[two]
    BY <1>4, <2>1, <2>2
  <2> QED BY <1>1, <2>1, <2>2, <2>3
<1> QED BY <1>1, <1>3, <1>4, <1>5 DEF u

(* A text behind one line.                                                 *)
LEMMA AfterOne ==
    ASSUME NEW s, IsText(s), NEW e, IsLine(e)
    PROVE  /\ IsText(<<e>> \o s) /\ Len(<<e>> \o s) = Len(s) + 1 /\ (<<e>> \o s)[1] = e
           /\ \A i \in 1 .. Len(s) : (<<e>> \o s)[i + 1] = s[i]
<1>1. PICK u : u = <<e>> /\ IsList(u) /\ Len(u) = 1 /\ u[1] = e
  BY OneLine
<1>2. IsText(u) /\ IsList(s) /\ Len(s) \in Nat
  BY <1>1, ListPlaces DEF IsText
<1>3. IsText(u \o s)
  BY <1>2, JoinedText
<1>4. Len(u \o s) = Len(u) + Len(s) /\ \A i \in 1 .. Len(u) : (u \o s)[i] = u[i]
  BY <1>1, <1>2, JoinedList
<1>5. \A i \in 1 .. Len(s) : (u \o s)[Len(u) + i] = s[i]
  BY <1>1, <1>2, JoinedList
<1>6. (u \o s)[1] = e
  <2>1. PICK one : one = 1 /\ one \in 1 .. Len(u)
    BY <1>1
  <2> QED BY <1>1, <1>4, <2>1
<1>7. \A i \in 1 .. Len(s) : (u \o s)[i + 1] = s[i]
  <2> TAKE i \in 1 .. Len(s)
  <2>1. Len(u) + i = i + 1
    BY <1>1
  <2> QED BY <1>5, <2>1
<1>8. Len(u \o s) = Len(s) + 1
  BY <1>1, <1>2, <1>4
<1> QED BY <1>1, <1>3, <1>6, <1>7, <1>8

(* A text behind three lines.                                              *)
LEMMA AfterThree ==
    ASSUME NEW s, IsText(s), NEW e, IsLine(e), NEW f, IsLine(f), NEW g, IsLine(g)
    PROVE  /\ IsText(<<e, f, g>> \o s) /\ Len(<<e, f, g>> \o s) = Len(s) + 3
           /\ (<<e, f, g>> \o s)[1] = e /\ (<<e, f, g>> \o s)[2] = f
           /\ (<<e, f, g>> \o s)[3] = g
           /\ \A i \in 1 .. Len(s) : (<<e, f, g>> \o s)[i + 3] = s[i]
<1> DEFINE u == <<e, f, g>>
           S == {e, f, g}
<1>1. IsList(u) /\ Len(u) = 3 /\ u[1] = e /\ u[2] = f /\ u[3] = g
  <2>1. u \in Seq(S) /\ Len(u) = 3 /\ DOMAIN u = 1 .. 3 /\ u[1] = e /\ u[2] = f /\ u[3] = g
    OBVIOUS
  <2>2. {u[i] : i \in DOMAIN u} = S
    BY <2>1
  <2> QED BY <2>1, <2>2 DEF IsList
<1> HIDE DEF u, S
<1>2. IsText(u) /\ IsList(s) /\ Len(s) \in Nat
  <2>1. DOMAIN u = 1 .. 3
    BY <1>1, ListPlaces
  <2>2. \A i \in 1 .. 3 : i = 1 \/ i = 2 \/ i = 3
    OBVIOUS
  <2> QED BY <1>1, <2>1, <2>2, ListPlaces DEF IsText
<1>3. IsText(u \o s)
  BY <1>2, JoinedText
<1>4. Len(u \o s) = Len(u) + Len(s) /\ \A i \in 1 .. Len(u) : (u \o s)[i] = u[i]
  <2>1. IsList(u) /\ IsList(s)
    BY <1>1, <1>2
  <2> QED BY <2>1, JoinedList
<1>5. \A i \in 1 .. Len(s) : (u \o s)[Len(u) + i] = s[i]
  <2>1. IsList(u) /\ IsList(s)
    BY <1>1, <1>2
  <2> QED BY <2>1, JoinedList
<1>6. (u \o s)[1] = e /\ (u \o s)[2] = f /\ (u \o s)[3] = g
  <2>1. PICK one, two, three : one = 1 /\ two = 2 /\ three = 3
    OBVIOUS
  <2>2. one \in 1 .. Len(u) /\ two \in 1 .. Len(u) /\ three \in 1 .. Len(u)
    BY <1>1, <2>1
  <2>3. (u \o s)[one] = u[one] /\ (u \o s)[two] = u[two] /\ (u \o s)[three] = u[three]
    BY <1>4, <2>2
  <2> QED BY <1>1, <2>1, <2>3
<1>7. \A i \in 1 .. Len(s) : (u \o s)[i + 3] = s[i]
  <2> TAKE i \in 1 .. Len(s)
  <2>1. Len(u) + i = i + 3
    BY <1>1
  <2> QED BY <1>5, <2>1
<1>8. Len(u \o s) = Len(s) + 3
  BY <1>1, <1>2, <1>4
<1> QED BY <1>3, <1>6, <1>7, <1>8 DEF u

(* Where each of a sequence of texts stands in the text they make.         *)
Stands(ss, text, at) ==
    /\ IsText(text) /\ at[1] = 0 /\ Len(text) = at[Len(ss) + 1]
    /\ \A n \in 1 .. Len(ss) : at[n] \in Nat /\ at[n + 1] = at[n] + Len(ss[n])
    /\ \A n \in 1 .. Len(ss) : \A j \in 1 .. Len(ss[n]) :
          at[n] + j \in 1 .. Len(text) /\ text[at[n] + j] = ss[n][j]
    /\ \A p \in 1 .. Len(text) :
          \E n \in 1 .. Len(ss) : \E j \in 1 .. Len(ss[n]) : p = at[n] + j

(* In a flattened list of texts each text stands at a place of its own,    *)
(* one after another, and nothing else stands there.                       *)
LEMMA FlatPlaces ==
    ASSUME NEW ss, IsList(ss), \A n \in DOMAIN ss : IsText(ss[n])
    PROVE  \E at : Stands(ss, FlattenSeq(ss), at)
<1> DEFINE N == Len(ss)
<1>1. N \in Nat /\ DOMAIN ss = 1 .. N
  BY ListPlaces
<1>2. PICK g : /\ g[0] = <<>>
               /\ \A k \in 0 .. N - 1 : g[k + 1] = g[k] \o ss[k + 1]
               /\ FlattenSeq(ss) = g[N]
  BY FlatGrows DEF IsText
<1> HIDE DEF N
<1> DEFINE at == [n \in 1 .. N + 1 |-> Len(g[n - 1])]
           Placed(k) ==
             /\ IsText(g[k])
             /\ \A n \in 1 .. k : \A j \in 1 .. Len(ss[n]) :
                   at[n] + j \in 1 .. Len(g[k]) /\ g[k][at[n] + j] = ss[n][j]
             /\ \A p \in 1 .. Len(g[k]) :
                   \E n \in 1 .. k : \E j \in 1 .. Len(ss[n]) : p = at[n] + j
           S == {k \in 0 .. N : Placed(k)}
<1>3. \A n \in 1 .. N : at[n] = Len(g[n - 1]) /\ at[n + 1] = Len(g[n])
  <2> TAKE n \in 1 .. N
  <2>1. n \in 1 .. N + 1 /\ n + 1 \in 1 .. N + 1 /\ n + 1 - 1 = n
    BY <1>1
  <2> QED BY <2>1
<1>4. at[1] = 0 /\ at[N + 1] = Len(g[N])
  <2>1. PICK n : n = N + 1 /\ n \in 1 .. N + 1 /\ n - 1 = N
    BY <1>1
  <2>2. at[n] = Len(g[N])
    BY <2>1
  <2>3. PICK o : o = 1 /\ o \in 1 .. N + 1 /\ o - 1 = 0
    BY <1>1
  <2>4. at[o] = Len(g[0])
    BY <2>3
  <2>5. Len(<<>>) = 0
    OBVIOUS
  <2> HIDE DEF at
  <2> QED BY <1>2, <2>1, <2>2, <2>3, <2>4, <2>5
<1> HIDE DEF at
<1>5. 0 \in S
  <2>1. IsList(<<>>) /\ DOMAIN <<>> = {} /\ Len(<<>>) = 0
    BY DEF IsList
  <2>2. IsText(g[0]) /\ Len(g[0]) = 0
    BY <1>2, <2>1 DEF IsText
  <2> QED BY <1>1, <2>2
<1>6. ASSUME NEW k \in 0 .. N - 1, k \in S PROVE k + 1 \in S
  <2> DEFINE s == g[k]
             t == ss[k + 1]
             u == g[k + 1]
             m == Len(s)
  <2>1. Placed(k) /\ k + 1 \in 1 .. N /\ k + 1 \in 0 .. N /\ u = s \o t /\ IsText(s) /\ IsText(t)
    <3>1. Placed(k)
      BY <1>6
    <3>2. k + 1 \in 1 .. N /\ k + 1 \in 0 .. N
      BY <1>1
    <3>3. u = s \o t /\ IsText(t)
      BY <1>1, <1>2, <3>2
    <3>4. IsText(s)
      BY <3>1
    <3> HIDE DEF Placed, s, t, u
    <3> QED BY <3>1, <3>2, <3>3, <3>4
  <2>2. m \in Nat /\ Len(t) \in Nat
    BY <2>1, ListPlaces DEF IsText
  <2>3. at[k + 1] = m
    <3>1. k + 1 - 1 = k
      BY <1>1
    <3> QED BY <1>3, <2>1, <3>1
  <2> HIDE DEF s, t, u
  <2>4. /\ Len(u) = Len(s) + Len(t)
        /\ \A j \in 1 .. Len(s) : u[j] = s[j]
        /\ \A j \in 1 .. Len(t) : u[Len(s) + j] = t[j]
    BY <2>1, JoinedList DEF IsText
  <2>5. IsText(u)
    BY <2>1, JoinedText
  <2>6. ASSUME NEW n \in 1 .. k + 1, NEW j \in 1 .. Len(ss[n])
        PROVE  at[n] + j \in 1 .. Len(u) /\ u[at[n] + j] = ss[n][j]
    <3>1. CASE n = k + 1
      <4>1. ss[n] = t /\ at[n] = m
        BY <2>3, <3>1 DEF t
      <4>2. m + j \in 1 .. Len(u)
        BY <2>2, <2>4, <4>1
      <4>3. u[m + j] = t[j]
        BY <2>4, <4>1
      <4> QED BY <4>1, <4>2, <4>3
    <3>2. CASE n # k + 1
      <4>1. n \in 1 .. k
        BY <1>1, <3>2
      <4>2. at[n] + j \in 1 .. Len(s) /\ s[at[n] + j] = ss[n][j]
        BY <2>1, <4>1 DEF s
      <4> DEFINE p == at[n] + j
      <4> HIDE DEF p, m
      <4>3. p \in 1 .. Len(s) /\ s[p] = ss[n][j]
        BY <4>2 DEF p
      <4>4. p \in 1 .. Len(u)
        BY <2>2, <2>4, <4>3 DEF m
      <4> QED BY <2>4, <4>3, <4>4 DEF p
    <3> QED BY <3>1, <3>2
  <2>7. ASSUME NEW p \in 1 .. Len(u)
        PROVE  \E n \in 1 .. k + 1 : \E j \in 1 .. Len(ss[n]) : p = at[n] + j
    <3>1. CASE p \in 1 .. m
      <4>1. PICK n \in 1 .. k : \E j \in 1 .. Len(ss[n]) : p = at[n] + j
        BY <2>1, <3>1 DEF s
      <4>2. n \in 1 .. k + 1
        BY <1>1
      <4> QED BY <4>1, <4>2
    <3>2. CASE p \notin 1 .. m
      <4> DEFINE j == p - m
      <4>1. j \in 1 .. Len(t) /\ m + j = p
        BY <2>2, <2>4, <3>2
      <4> HIDE DEF j
      <4>2. k + 1 \in 1 .. k + 1 /\ ss[k + 1] = t /\ at[k + 1] = m
        BY <1>1, <2>3 DEF t
      <4> HIDE DEF m
      <4> QED BY <4>1, <4>2
    <3> QED BY <3>1, <3>2
  <2>8. Placed(k + 1)
    BY <2>5, <2>6, <2>7 DEF u
  <2> HIDE DEF Placed
  <2> QED BY <2>1, <2>8
<1>7. \A k \in 0 .. N : k \in S
  <2> HIDE DEF S
  <2> QED BY <1>1, <1>5, <1>6, CountsUp
<1>8. \A k \in 0 .. N : Placed(k)
  <2> HIDE DEF Placed
  <2> QED BY <1>7
<1>9. ASSUME NEW n \in 1 .. N PROVE at[n] \in Nat /\ at[n + 1] = at[n] + Len(ss[n])
  <2> DEFINE k == n - 1
  <2>1. k \in 0 .. N - 1 /\ k \in 0 .. N /\ k + 1 = n
    BY <1>1
  <2> HIDE DEF k
  <2>2. g[n] = g[k] \o ss[n] /\ at[n] = Len(g[k]) /\ at[n + 1] = Len(g[n])
    BY <1>2, <1>3, <2>1 DEF k
  <2>3. IsText(g[k]) /\ IsText(ss[n])
    BY <1>1, <1>8, <2>1
  <2>4. Len(g[k] \o ss[n]) = Len(g[k]) + Len(ss[n]) /\ Len(g[k]) \in Nat
    <3> DEFINE a == g[k]
               b == ss[n]
    <3>1. IsText(a) /\ IsText(b)
      BY <2>3
    <3> HIDE DEF a, b
    <3>2. Len(a \o b) = Len(a) + Len(b) /\ Len(a) \in Nat
      BY <3>1, JoinedList, ListPlaces DEF IsText
    <3> QED BY <3>2 DEF a, b
  <2> QED BY <2>2, <2>4
<1>10. Placed(N)
  <2>1. N \in 0 .. N
    BY <1>1
  <2> HIDE DEF Placed
  <2> QED BY <1>8, <2>1
<1> DEFINE text == FlattenSeq(ss)
<1>11. text = g[N]
  BY <1>2
<1> HIDE DEF text
<1>12. Stands(ss, text, at)
  BY <1>4, <1>9, <1>10, <1>11 DEF Stands, N
<1> QED BY <1>12 DEF text

(***************************************************************************)
(* The file headers (RemapDiffPaths).                                      *)
(***************************************************************************)

(* Correcting the headers twice is correcting them once.                   *)
LEMMA HeaderSettles ==
    ASSUME NEW line, IsLine(line)
    PROVE  RemapHeader(RemapHeader(line)) = RemapHeader(line)
<1> DEFINE matches == SuffixMatches(line.path)
           file == CHOOSE x \in matches : TRUE
<1>1. CASE ~IsHeader(line) \/ line.path = DevNull
  BY <1>1 DEF RemapHeader
<1>2. CASE IsHeader(line) /\ line.path # DevNull /\ line.path \in Tree
  <2> DEFINE fixed == [line EXCEPT !.ns = TRUE]
  <2>1. RemapHeader(line) = fixed
    BY <1>2 DEF RemapHeader
  <2>2. fixed.path = line.path /\ fixed.kind = line.kind /\ [fixed EXCEPT !.ns = TRUE] = fixed
    BY DEF IsLine
  <2> HIDE DEF fixed
  <2>3. RemapHeader(fixed) = fixed
    BY <1>2, <2>2 DEF RemapHeader, IsHeader
  <2> QED BY <2>1, <2>3
<1>3. CASE /\ IsHeader(line) /\ line.path # DevNull /\ line.path \notin Tree
           /\ Cardinality(matches) = 1
  <2> DEFINE fixed == [line EXCEPT !.ns = TRUE, !.path = file]
  <2>1. RemapHeader(line) = fixed
    BY <1>3 DEF RemapHeader
  <2>2. file \in Tree
    <3>1. matches # {}
      BY <1>3, FS_EmptySet
    <3>2. \A x \in matches : x \in Tree
      BY DEF SuffixMatches
    <3> HIDE DEF matches
    <3> QED BY <3>1, <3>2
  <2> HIDE DEF file
  <2>3. fixed.path = file /\ fixed.kind = line.kind /\ [fixed EXCEPT !.ns = TRUE] = fixed
    BY DEF IsLine
  <2> HIDE DEF fixed
  <2>4. RemapHeader(fixed) = fixed
    BY <2>2, <2>3 DEF RemapHeader
  <2> QED BY <2>1, <2>4
<1>4. CASE /\ IsHeader(line) /\ line.path # DevNull /\ line.path \notin Tree
           /\ Cardinality(matches) # 1
  <2>1. RemapHeader(line) = line
    BY <1>4 DEF RemapHeader
  <2> QED BY <2>1
<1> QED BY <1>1, <1>2, <1>3, <1>4

(* Theorem of every patch file: its headers are corrected once, so that    *)
(* preparing a prepared file again finds nothing to correct                *)
(* (RemapDiffPaths).                                                       *)
THEOREM HeadersSettle ==
    ASSUME NEW lines, \A i \in DOMAIN lines : IsLine(lines[i])
    PROVE  RemapDiffPaths(RemapDiffPaths(lines)) = RemapDiffPaths(lines)
<1>1. /\ DOMAIN RemapDiffPaths(lines) = DOMAIN lines
      /\ \A i \in DOMAIN lines : RemapDiffPaths(lines)[i] = RemapHeader(lines[i])
  BY DEF RemapDiffPaths
<1>2. \A i \in DOMAIN lines : RemapHeader(RemapDiffPaths(lines)[i]) = RemapDiffPaths(lines)[i]
  BY <1>1, HeaderSettles
<1> QED BY <1>1, <1>2 DEF RemapDiffPaths

(* Correcting a line changes none but a file header, and no line's kind.   *)
LEMMA RemapHeaderIs ==
    ASSUME NEW line, IsLine(line)
    PROVE  /\ IsLine(RemapHeader(line))
           /\ RemapHeader(line).kind = line.kind
           /\ ~IsHeader(line) => RemapHeader(line) = line
<1> DEFINE file == CHOOSE x \in SuffixMatches(line.path) : TRUE
           a == [line EXCEPT !.ns = TRUE]
           b == [line EXCEPT !.ns = TRUE, !.path = file]
<1>1. RemapHeader(line) \in {line, a, b} /\ (~IsHeader(line) => RemapHeader(line) = line)
  BY DEF RemapHeader
<1> HIDE DEF file
<1>2. IsLine(a) /\ a.kind = line.kind
  BY DEF IsLine
<1>3. IsLine(b) /\ b.kind = line.kind
  BY DEF IsLine
<1> HIDE DEF a, b
<1> QED BY <1>1, <1>2, <1>3

(***************************************************************************)
(* A hunk: where its body ends, and which of its lines are kept.           *)
(***************************************************************************)

(* A line at which the body of the hunk above it ends.                     *)
Opens(line) == line.kind \in {"hunk", "old"}

(* The body of a hunk runs up to the line before the next that opens       *)
(* something.                                                              *)
LEMMA BodyEndIs ==
    ASSUME NEW lines, IsList(lines), NEW i \in 1 .. Len(lines)
    PROVE  /\ BodyEnd(lines, i) \in i .. Len(lines)
           /\ \A j \in i + 1 .. BodyEnd(lines, i) : ~Opens(lines[j])
           /\ BodyEnd(lines, i) < Len(lines) => Opens(lines[BodyEnd(lines, i) + 1])
<1> DEFINE below == {j \in i + 1 .. Len(lines) : lines[j].kind \in {"hunk", "old"}}
           next == IF below # {} THEN Min(below) ELSE 0
<1>1. Len(lines) \in Nat
  BY ListPlaces
<1>2. BodyEnd(lines, i) = IF next = 0 THEN Len(lines) ELSE next - 1
  BY DEF BodyEnd, SelectInSubSeq
<1>3. CASE below = {}
  <2>1. BodyEnd(lines, i) = Len(lines)
    BY <1>2, <1>3
  <2>2. \A j \in i + 1 .. Len(lines) : ~Opens(lines[j])
    BY <1>3 DEF Opens
  <2> QED BY <1>1, <2>1, <2>2
<1>4. CASE below # {}
  <2>1. Min(below) \in below /\ \A k \in below : Min(below) <= k
    <3>1. below \in SUBSET Nat
      BY <1>1
    <3> HIDE DEF below
    <3>2. \E k \in below : \A j \in below : k <= j
      BY <1>4, <3>1, LeastPlace
    <3> QED BY <3>2 DEF Min
  <2> DEFINE n == Min(below)
  <2>2. n \in i + 1 .. Len(lines) /\ Opens(lines[n])
    BY <2>1 DEF Opens
  <2>3. \A j \in i + 1 .. Len(lines) : Opens(lines[j]) => n <= j
    BY <2>1 DEF Opens
  <2>4. next = n
    BY <1>4
  <2> HIDE DEF n, next, below
  <2>5. BodyEnd(lines, i) = n - 1
    BY <1>1, <1>2, <2>2, <2>4
  <2>6. n - 1 \in i .. Len(lines) /\ n - 1 + 1 = n
    BY <1>1, <2>2
  <2>7. \A j \in i + 1 .. n - 1 : ~Opens(lines[j])
    BY <1>1, <2>2, <2>3
  <2> QED BY <2>2, <2>5, <2>6, <2>7
<1> QED BY <1>3, <1>4

(* The only place with that property is where the body ends.               *)
LEMMA BodyEndAt ==
    ASSUME NEW lines, IsList(lines), NEW i \in 1 .. Len(lines),
           NEW e \in i .. Len(lines), \A j \in i + 1 .. e : ~Opens(lines[j]),
           e < Len(lines) => Opens(lines[e + 1])
    PROVE  BodyEnd(lines, i) = e
<1> DEFINE b == BodyEnd(lines, i)
<1>1. /\ b \in i .. Len(lines) /\ \A j \in i + 1 .. b : ~Opens(lines[j])
      /\ b < Len(lines) => Opens(lines[b + 1])
  BY BodyEndIs
<1>2. Len(lines) \in Nat
  BY ListPlaces
<1> HIDE DEF b
<1>3. ~(b < e)
  <2> SUFFICES ASSUME b < e PROVE FALSE
    OBVIOUS
  <2>1. b < Len(lines) /\ b + 1 \in i + 1 .. e
    BY <1>1, <1>2
  <2> QED BY <1>1, <2>1
<1>4. ~(e < b)
  <2> SUFFICES ASSUME e < b PROVE FALSE
    OBVIOUS
  <2>1. e < Len(lines) /\ e + 1 \in i + 1 .. b
    BY <1>1, <1>2
  <2> QED BY <1>1, <2>1
<1> QED BY <1>1, <1>2, <1>3, <1>4 DEF b

(* The body of a hunk is the lines behind its header up to its end.        *)
LEMMA HunkAtIs ==
    ASSUME NEW lines, IsList(lines), NEW i \in 1 .. Len(lines)
    PROVE  /\ IsList(HunkAt(lines, i)) /\ Len(HunkAt(lines, i)) = BodyEnd(lines, i) - i
           /\ \A q \in 1 .. BodyEnd(lines, i) - i : HunkAt(lines, i)[q] = lines[i + q]
<1> DEFINE b == BodyEnd(lines, i)
           a == i + 1
<1>1. b \in i .. Len(lines) /\ Len(lines) \in Nat
  BY BodyEndIs, ListPlaces
<1>2. a \in Nat /\ b \in Nat /\ 1 <= a /\ a <= b + 1 /\ b <= Len(lines)
  BY <1>1
<1>3. b - a + 1 = b - i /\ \A q \in 1 .. b - i : a + q - 1 = i + q
  BY <1>1
<1>4. HunkAt(lines, i) = SubSeq(lines, a, b)
  BY DEF HunkAt
<1> HIDE DEF a, b
<1>5. /\ IsList(SubSeq(lines, a, b)) /\ Len(SubSeq(lines, a, b)) = b - a + 1
      /\ \A q \in 1 .. b - a + 1 : SubSeq(lines, a, b)[q] = lines[a + q - 1]
  BY <1>2, PartOfList
<1> QED BY <1>3, <1>4, <1>5 DEF b

(* A hunk is the same one in every text that agrees up to its end.         *)
LEMMA BodyStays ==
    ASSUME NEW s, IsList(s), NEW t, IsList(t), NEW m \in Nat, m <= Len(s), m <= Len(t),
           \A k \in 1 .. m : s[k] = t[k], NEW i \in 1 .. m,
           \/ BodyEnd(s, i) < m
           \/ BodyEnd(s, i) = m /\ (m < Len(t) => Opens(t[m + 1]))
    PROVE  BodyEnd(t, i) = BodyEnd(s, i) /\ HunkAt(t, i) = HunkAt(s, i)
<1> DEFINE b == BodyEnd(s, i)
<1>1. Len(s) \in Nat /\ Len(t) \in Nat /\ i \in 1 .. Len(s) /\ i \in 1 .. Len(t)
  BY ListPlaces
<1>2. /\ b \in i .. Len(s) /\ \A j \in i + 1 .. b : ~Opens(s[j])
      /\ b < Len(s) => Opens(s[b + 1])
  BY <1>1, BodyEndIs
<1>3. b < m \/ (b = m /\ (m < Len(t) => Opens(t[m + 1])))
  OBVIOUS
<1> HIDE DEF b
<1>4. b \in i .. Len(t) /\ \A j \in i + 1 .. b : ~Opens(t[j])
  <2>1. b \in i .. Len(t)
    BY <1>1, <1>2, <1>3
  <2>2. \A j \in i + 1 .. b : j \in 1 .. m
    BY <1>1, <1>2, <1>3
  <2> QED BY <1>2, <2>1, <2>2
<1>5. b < Len(t) => Opens(t[b + 1])
  <2>1. CASE b < m
    <3>1. b + 1 \in 1 .. m /\ b < Len(s)
      BY <1>1, <1>2, <2>1
    <3> QED BY <1>2, <3>1
  <2>2. CASE ~(b < m)
    BY <1>3, <2>2
  <2> QED BY <2>1, <2>2
<1>6. BodyEnd(t, i) = b
  BY <1>1, <1>4, <1>5, BodyEndAt
<1>7. HunkAt(t, i) = HunkAt(s, i)
  <2>1. /\ IsList(HunkAt(s, i)) /\ Len(HunkAt(s, i)) = b - i
        /\ \A q \in 1 .. b - i : HunkAt(s, i)[q] = s[i + q]
    BY <1>1, HunkAtIs DEF b
  <2>2. /\ IsList(HunkAt(t, i)) /\ Len(HunkAt(t, i)) = b - i
        /\ \A q \in 1 .. b - i : HunkAt(t, i)[q] = t[i + q]
    BY <1>1, <1>6, HunkAtIs
  <2>3. \A q \in 1 .. b - i : i + q \in 1 .. m
    BY <1>1, <1>2, <1>3
  <2> QED BY <2>1, <2>2, <2>3, SameList
<1> QED BY <1>6, <1>7 DEF b

(* How a line of a hunk is kept: a blank context line gets its space back. *)
Clean(line) == IF line.kind = "empty" THEN [line EXCEPT !.kind = "blank"] ELSE line

(* Line i belongs to the body: keepHunkLines keeps it if it comes so far.  *)
Belongs(body, i) == IsHunkBody(body[i]) \/ BlankContext(body, i)

(* A kept line is a hunk line.                                             *)
LEMMA CleanIsHunk ==
    ASSUME NEW body, IsText(body), NEW i \in DOMAIN body, Belongs(body, i)
    PROVE  IsLine(Clean(body[i])) /\ IsHunkBody(Clean(body[i]))
<1>1. IsLine(body[i])
  BY DEF IsText
<1>2. CASE IsHunkBody(body[i])
  BY <1>1, <1>2 DEF Clean, IsHunkBody
<1>3. CASE body[i].kind = "empty"
  <2> DEFINE line == body[i]
             fixed == [line EXCEPT !.kind = "blank"]
  <2> HIDE DEF line
  <2>1. IsLine(line)
    BY <1>1 DEF line
  <2>2. /\ DOMAIN fixed = DOMAIN line /\ fixed.kind = "blank"
        /\ fixed = [field \in DOMAIN fixed |-> fixed[field]]
    BY <2>1 DEF IsLine
  <2>3. IsLine(fixed) /\ IsHunkBody(fixed)
    BY <2>1, <2>2 DEF IsLine, IsHunkBody
  <2> QED BY <1>3, <2>3 DEF Clean, line
<1> QED BY <1>2, <1>3 DEF Belongs, BlankContext

(* keepHunkLines: the leading run of lines that belong to the hunk.        *)
LEMMA KeptLines ==
    ASSUME NEW body, IsText(body)
    PROVE  /\ IsText(KeepHunkLines(body))
           /\ Len(KeepHunkLines(body)) \in 0 .. Len(body)
           /\ \A i \in 1 .. Len(KeepHunkLines(body)) :
                 /\ Belongs(body, i) /\ KeepHunkLines(body)[i] = Clean(body[i])
                 /\ IsHunkBody(KeepHunkLines(body)[i])
           /\ Len(KeepHunkLines(body)) < Len(body) =>
                 ~Belongs(body, Len(KeepHunkLines(body)) + 1)
<1> DEFINE flags == [i \in DOMAIN body |-> Belongs(body, i)]
           open == {k \in 1 .. Len(flags) : ~flags[k]}
           first == SelectInSeq(flags, LAMBDA b : ~b)
           kept == IF first = 0 THEN body ELSE SubSeq(body, 1, first - 1)
           out == KeepHunkLines(body)
<1>1. out = [i \in DOMAIN kept |-> Clean(kept[i])]
  BY DEF KeepHunkLines, Belongs, Clean
<1>2. DOMAIN body = 1 .. Len(body) /\ Len(body) \in Nat /\ IsList(body)
  BY ListPlaces DEF IsText
<1>3. \E n \in 0 .. Len(body) :
         /\ DOMAIN kept = 1 .. n /\ \A i \in 1 .. n : kept[i] = body[i] /\ Belongs(body, i)
         /\ n < Len(body) => ~Belongs(body, n + 1)
  <2>1. Len(flags) = Len(body)
    <3> DEFINE m == Len(body)
               T == {flags[i] : i \in DOMAIN flags}
    <3>1. DOMAIN flags = 1 .. m /\ m \in Nat /\ flags \in [DOMAIN flags -> T]
      BY <1>2
    <3> HIDE DEF flags, T, m
    <3> QED BY <3>1, MadeList DEF m
  <2>2. first = IF open # {} THEN Min(open) ELSE 0
    BY DEF SelectInSeq
  <2>3. \A k : k \in open <=> k \in 1 .. Len(body) /\ ~Belongs(body, k)
    <3>1. \A k \in 1 .. Len(body) : flags[k] = Belongs(body, k)
      BY <1>2
    <3> HIDE DEF flags
    <3> QED BY <2>1, <3>1
  <2> HIDE DEF open, flags
  <2>4. CASE open = {}
    <3>1. kept = body /\ \A k \in 1 .. Len(body) : Belongs(body, k)
      BY <2>2, <2>3, <2>4
    <3>2. Len(body) \in 0 .. Len(body) /\ ~(Len(body) < Len(body))
      BY <1>2
    <3> HIDE DEF kept
    <3> QED BY <1>2, <3>1, <3>2
  <2>5. CASE open # {}
    <3>1. open \in SUBSET Nat
      BY <1>2, <2>3
    <3>2. \E i \in open : \A j \in open : i <= j
      BY <2>5, <3>1, LeastPlace
    <3>3. Min(open) \in open /\ \A j \in open : Min(open) <= j
      BY <3>2 DEF Min
    <3> DEFINE n == first - 1
    <3>4. first \in 1 .. Len(body) /\ first \in open /\ \A j \in open : first <= j
      BY <2>2, <2>3, <2>5, <3>3
    <3> HIDE DEF first
    <3>5. n \in 0 .. Len(body) /\ n \in Nat /\ kept = SubSeq(body, 1, n) /\ n + 1 = first
      BY <1>2, <3>4
    <3>6. \A i \in 1 .. n : Belongs(body, i)
      BY <1>2, <2>3, <3>4
    <3>7. ~Belongs(body, n + 1)
      BY <2>3, <3>4, <3>5
    <3> HIDE DEF n, kept
    <3>8. DOMAIN kept = 1 .. n /\ \A i \in 1 .. n : kept[i] = body[i]
      <4> DEFINE one == 1
      <4>1. one \in Nat /\ 1 <= one /\ one <= n + 1 /\ n <= Len(body)
            /\ n - one + 1 = n /\ \A i \in 1 .. n : one + i - 1 = i
        BY <1>2, <3>5
      <4> HIDE DEF one
      <4>2. /\ IsList(SubSeq(body, one, n)) /\ Len(SubSeq(body, one, n)) = n - one + 1
            /\ \A i \in 1 .. n - one + 1 : SubSeq(body, one, n)[i] = body[one + i - 1]
        BY <1>2, <3>5, <4>1, PartOfList
      <4>3. kept = SubSeq(body, one, n)
        BY <3>5 DEF one
      <4> QED BY <4>1, <4>2, <4>3, ListPlaces
    <3> QED BY <3>5, <3>6, <3>7, <3>8
  <2> QED BY <2>4, <2>5
<1> HIDE DEF kept, out, first, flags, open
<1>4. PICK n \in 0 .. Len(body) :
        /\ DOMAIN kept = 1 .. n /\ \A i \in 1 .. n : kept[i] = body[i] /\ Belongs(body, i)
        /\ n < Len(body) => ~Belongs(body, n + 1)
  BY <1>3
<1>5. /\ DOMAIN out = 1 .. n /\ n \in Nat
      /\ \A i \in 1 .. n : out[i] = Clean(body[i]) /\ i \in DOMAIN body /\ Belongs(body, i)
  BY <1>1, <1>2, <1>4
<1>6. \A i \in 1 .. n : IsLine(out[i]) /\ IsHunkBody(out[i])
  BY <1>5, CleanIsHunk
<1>7. IsList(out) /\ Len(out) = n
  <2> DEFINE T == {out[i] : i \in DOMAIN out}
  <2>1. out \in [DOMAIN out -> T]
    <3>1. out = [i \in DOMAIN out |-> out[i]]
      BY <1>1
    <3> QED BY <3>1
  <2> HIDE DEF T
  <2> QED BY <1>5, <2>1, MadeList
<1> QED BY <1>4, <1>5, <1>6, <1>7 DEF out, IsText

(* The kept lines are those up to the first that does not belong.          *)
LEMMA KeptUpTo ==
    ASSUME NEW body, IsText(body), NEW n \in 0 .. Len(body),
           \A i \in 1 .. n : Belongs(body, i), n < Len(body) => ~Belongs(body, n + 1)
    PROVE  /\ IsText(KeepHunkLines(body)) /\ Len(KeepHunkLines(body)) = n
           /\ \A i \in 1 .. n : KeepHunkLines(body)[i] = Clean(body[i])
<1> DEFINE kept == KeepHunkLines(body)
           m == Len(kept)
<1>1. /\ IsText(kept) /\ m \in 0 .. Len(body)
      /\ \A i \in 1 .. m : Belongs(body, i) /\ kept[i] = Clean(body[i])
      /\ m < Len(body) => ~Belongs(body, m + 1)
  BY KeptLines
<1>2. Len(body) \in Nat
  BY ListPlaces DEF IsText
<1> HIDE DEF m, kept
<1>3. ~(m < n)
  <2> SUFFICES ASSUME m < n PROVE FALSE
    OBVIOUS
  <2>1. m + 1 \in 1 .. n /\ m < Len(body)
    BY <1>1, <1>2
  <2> QED BY <1>1, <2>1
<1>4. ~(n < m)
  <2> SUFFICES ASSUME n < m PROVE FALSE
    OBVIOUS
  <2>1. n + 1 \in 1 .. m /\ n < Len(body)
    BY <1>1, <1>2
  <2> QED BY <1>1, <2>1
<1>5. m = n
  BY <1>1, <1>2, <1>3, <1>4
<1> QED BY <1>1, <1>5 DEF m, kept

(* A body of nothing but hunk lines is kept whole.                         *)
LEMMA HunkIsKept ==
    ASSUME NEW kept, IsText(kept), \A i \in DOMAIN kept : IsHunkBody(kept[i])
    PROVE  KeepHunkLines(kept) = kept
<1> DEFINE n == Len(kept)
<1>1. n \in Nat /\ DOMAIN kept = 1 .. n
  BY ListPlaces DEF IsText
<1>2. n \in 0 .. Len(kept) /\ ~(n < Len(kept)) /\ \A i \in 1 .. n : Belongs(kept, i)
  BY <1>1 DEF Belongs
<1> HIDE DEF n
<1>3. /\ IsText(KeepHunkLines(kept)) /\ Len(KeepHunkLines(kept)) = n
      /\ \A i \in 1 .. n : KeepHunkLines(kept)[i] = Clean(kept[i])
  BY <1>2, KeptUpTo
<1>4. \A i \in 1 .. n : Clean(kept[i]) = kept[i]
  BY <1>1 DEF Clean, IsHunkBody
<1> QED BY <1>3, <1>4, SameList DEF IsText, n

(***************************************************************************)
(* The scan (NormalizeUnifiedDiff): its turns, and what each does.         *)
(***************************************************************************)

(* A scan over a text, one turn of the loop of NormalizeUnifiedDiff at a   *)
(* time.                                                                   *)
ScanStart == [out |-> <<>>, headers |-> 0, at |-> 1]

(* One turn of it: a hunk, or any other line.                              *)
ScanStep(scan, lines) ==
    IF scan.at > Len(lines) THEN scan
    ELSE IF lines[scan.at].kind = "hunk" THEN HunkDone(scan, lines)
    ELSE NonHunkDone(scan, lines)

(* The scan, as what each turn leaves.                                     *)
IsScan(turn, lines) ==
    turn = [k \in 0 .. Len(lines) |->
              IF k = 0 THEN ScanStart ELSE ScanStep(turn[k - 1], lines)]

(* The scan of a text exists: each turn is given by the one before.        *)
LEMMA ScanExists ==
    ASSUME NEW lines, IsList(lines)
    PROVE  \E turn : IsScan(turn, lines)
<1> DEFINE n == Len(lines)
           Upto(k, f) == f = [j \in 0 .. k |->
                                IF j = 0 THEN ScanStart ELSE ScanStep(f[j - 1], lines)]
           Some == {k \in 0 .. n : \E f : Upto(k, f)}
<1>1. n \in Nat
  BY ListPlaces
<1>2. 0 \in Some
  <2> DEFINE f == [j \in 0 .. 0 |-> ScanStart]
  <2>1. f = [j \in 0 .. 0 |-> IF j = 0 THEN ScanStart ELSE ScanStep(f[j - 1], lines)]
    OBVIOUS
  <2> HIDE DEF f
  <2> QED BY <1>1, <2>1
<1>3. ASSUME NEW k \in 0 .. n - 1, k \in Some PROVE k + 1 \in Some
  <2>1. PICK f : Upto(k, f)
    BY <1>3
  <2> DEFINE g == [j \in 0 .. k + 1 |-> IF j = k + 1 THEN ScanStep(f[k], lines) ELSE f[j]]
  <2>2. \A j \in 0 .. k + 1 :
           g[j] = IF j = 0 THEN ScanStart ELSE ScanStep(g[j - 1], lines)
    <3> TAKE j \in 0 .. k + 1
    <3>1. CASE j = k + 1
      <4>1. g[j] = ScanStep(f[k], lines) /\ j # 0 /\ j - 1 = k /\ g[k] = f[k]
        BY <1>1, <3>1
      <4> HIDE DEF g
      <4> QED BY <4>1
    <3>2. CASE j # k + 1
      <4>1. j \in 0 .. k
        BY <1>1, <3>2
      <4>2. f[j] = IF j = 0 THEN ScanStart ELSE ScanStep(f[j - 1], lines)
        BY <2>1, <4>1
      <4>3. g[j] = f[j]
        BY <3>2
      <4>4. j # 0 => g[j - 1] = f[j - 1]
        BY <1>1, <4>1
      <4> HIDE DEF g
      <4> QED BY <4>2, <4>3, <4>4
    <3> QED BY <3>1, <3>2
  <2>3. g = [j \in 0 .. k + 1 |-> g[j]]
    OBVIOUS
  <2> HIDE DEF g
  <2>4. Upto(k + 1, g)
    BY <2>2, <2>3
  <2>5. k + 1 \in 0 .. n
    BY <1>1
  <2> HIDE DEF Upto
  <2> QED BY <2>4, <2>5
<1>4. \A k \in 0 .. n : k \in Some
  <2> HIDE DEF Some, n
  <2> QED BY <1>1, <1>2, <1>3, CountsUp
<1>5. n \in Some
  BY <1>1, <1>4
<1> QED BY <1>5 DEF IsScan

(* A text with a hunk is what the last turn of a scan over it put out.     *)
LEMMA NormalizedIs ==
    ASSUME NEW lines, IsList(lines)
    PROVE  \E turn :
              /\ turn[0] = ScanStart
              /\ \A k \in 0 .. Len(lines) - 1 : turn[k + 1] = ScanStep(turn[k], lines)
              /\ NormalizeUnifiedDiff(lines) =
                    IF Hunks(lines) # {} THEN turn[Len(lines)].out ELSE lines
<1> DEFINE turn == CHOOSE f : IsScan(f, lines)
<1>1. IsScan(turn, lines)
  BY ScanExists
<1>2. NormalizeUnifiedDiff(lines) =
        IF \E i \in DOMAIN lines : lines[i].kind = "hunk" THEN turn[Len(lines)].out ELSE lines
  BY DEF NormalizeUnifiedDiff, IsScan, ScanStep, ScanStart
<1> HIDE DEF turn
<1>3. Len(lines) \in Nat
  BY ListPlaces
<1>4. turn[0] = ScanStart
  BY <1>1, <1>3 DEF IsScan
<1>5. \A k \in 0 .. Len(lines) - 1 : turn[k + 1] = ScanStep(turn[k], lines)
  <2> TAKE k \in 0 .. Len(lines) - 1
  <2>1. k + 1 \in 0 .. Len(lines) /\ k + 1 # 0 /\ k + 1 - 1 = k
    BY <1>3
  <2> QED BY <1>1, <2>1 DEF IsScan
<1>6. Hunks(lines) # {} <=> \E i \in DOMAIN lines : lines[i].kind = "hunk"
  BY DEF Hunks
<1> QED BY <1>2, <1>4, <1>5, <1>6

(* What is left of the hunk whose header is line i.                        *)
Remaining(lines, i) == NormalizedHunk(lines[i], HunkAt(lines, i))

(* The header of the hunk at line i, counting what is kept of it.          *)
Recounted(lines, i) ==
    LET kept == KeepHunkLines(HunkAt(lines, i))
    IN  [lines[i] EXCEPT !.old = OldCount(kept), !.new = NewCount(kept)]

(* Something is left of the hunk at line i.                                *)
Survives(lines, i) ==
    LET kept == KeepHunkLines(HunkAt(lines, i))
    IN  ~(OldCount(kept) = 0 /\ NewCount(kept) = 0)

(* The turns of a scan.                                                    *)
SkipsFence(s, t, lines) ==
    /\ lines[s.at].kind = "fence"
    /\ t.out = s.out /\ t.headers = s.headers /\ t.at = s.at + 1

(* A pair of file headers is copied, and its place remembered.             *)
CopiesHeaders(s, t, lines) ==
    /\ lines[s.at].kind = "old" /\ s.at < Len(lines) /\ lines[s.at + 1].kind = "new"
    /\ t.out = s.out \o <<lines[s.at], lines[s.at + 1]>>
    /\ t.headers = Len(s.out) + 1 /\ t.at = s.at + 2

(* A line outside of a hunk is copied.                                     *)
CopiesLine(s, t, lines) ==
    /\ lines[s.at].kind \notin {"fence", "hunk"}
    /\ t.out = s.out \o <<lines[s.at]>> /\ t.headers = s.headers /\ t.at = s.at + 1

(* A hunk is written with its header recounted.                            *)
KeepsHunk(s, t, lines) ==
    /\ lines[s.at].kind = "hunk" /\ Survives(lines, s.at)
    /\ t.out = s.out \o (<<Recounted(lines, s.at)>> \o KeepHunkLines(HunkAt(lines, s.at)))
    /\ t.headers = 0 /\ t.at = BodyEnd(lines, s.at) + 1

(* A hunk of which nothing is left takes the headers above it along.       *)
CutsHeaders(s, t, lines) ==
    /\ lines[s.at].kind = "hunk" /\ ~Survives(lines, s.at) /\ s.headers > 0
    /\ t.out = SubSeq(s.out, 1, s.headers - 1)
    /\ t.headers = 0 /\ t.at = BodyEnd(lines, s.at) + 1

(* A hunk of which nothing is left, with no headers above it of its own.   *)
DropsHunk(s, t, lines) ==
    /\ lines[s.at].kind = "hunk" /\ ~Survives(lines, s.at) /\ ~(s.headers > 0)
    /\ t.out = s.out /\ t.headers = 0 /\ t.at = BodyEnd(lines, s.at) + 1

(* Each turn is one of these.                                              *)
Turns(s, t, lines) ==
    \/ SkipsFence(s, t, lines) \/ CopiesHeaders(s, t, lines) \/ CopiesLine(s, t, lines)
    \/ KeepsHunk(s, t, lines) \/ CutsHeaders(s, t, lines) \/ DropsHunk(s, t, lines)

(* What a turn leaves: a text so far, where its last headers begin, the    *)
(* next line.                                                              *)
IsState(s) ==
    /\ s = [out |-> s.out, headers |-> s.headers, at |-> s.at]
    /\ IsList(s.out) /\ s.headers \in 0 .. Len(s.out)

(* Every turn is one of the six, and leaves a state.                       *)
LEMMA ScanTurns ==
    ASSUME NEW lines, IsText(lines), NEW s, IsState(s), s.at \in 1 .. Len(lines)
    PROVE  Turns(s, ScanStep(s, lines), lines) /\ IsState(ScanStep(s, lines))
<1> DEFINE t == ScanStep(s, lines)
           i == s.at
<1>1. /\ IsList(lines) /\ Len(lines) \in Nat /\ ~(i > Len(lines)) /\ i \in DOMAIN lines
      /\ IsLine(lines[i])
  BY ListPlaces DEF IsText
<1>2. CASE lines[i].kind = "hunk"
  <2> DEFINE kept == KeepHunkLines(HunkAt(lines, i))
             fixed == Recounted(lines, i)
             norm == Remaining(lines, i)
             rest == IF norm = <<>> /\ s.headers > 0
                       THEN SubSeq(s.out, 1, s.headers - 1) ELSE s.out \o norm
  <2>1. t = HunkDone(s, lines)
    BY <1>1, <1>2 DEF ScanStep
  <2>2. t = [out |-> rest, headers |-> 0, at |-> BodyEnd(lines, i) + 1]
    <3>1. HunkAt(lines, i) = SubSeq(lines, i + 1, BodyEnd(lines, i))
      BY DEF HunkAt
    <3> HIDE DEF t
    <3>2. t = [out |-> rest,
               headers |-> IF norm = <<>> /\ s.headers = 0 THEN s.headers ELSE 0,
               at |-> BodyEnd(lines, i) + 1]
      BY <2>1, <3>1 DEF HunkDone, Remaining
    <3> HIDE DEF rest, norm
    <3> QED BY <3>2
  <2>3. norm = IF Survives(lines, i) THEN <<fixed>> \o kept ELSE <<>>
    BY DEF Remaining, NormalizedHunk, Survives, Recounted
  <2>4. IsText(HunkAt(lines, i))
    <3>1. IsList(HunkAt(lines, i)) /\ Len(HunkAt(lines, i)) = BodyEnd(lines, i) - i
          /\ \A q \in 1 .. BodyEnd(lines, i) - i : HunkAt(lines, i)[q] = lines[i + q]
      BY <1>1, HunkAtIs
    <3>2. \A q \in 1 .. BodyEnd(lines, i) - i : i + q \in DOMAIN lines
      <4>1. BodyEnd(lines, i) \in i .. Len(lines) /\ DOMAIN lines = 1 .. Len(lines)
        BY <1>1, BodyEndIs, ListPlaces
      <4> QED BY <1>1, <4>1
    <3>3. DOMAIN HunkAt(lines, i) = 1 .. BodyEnd(lines, i) - i
      BY <3>1, ListPlaces
    <3> QED BY <3>1, <3>2, <3>3 DEF IsText
  <2>5. IsList(<<fixed>> \o kept) /\ Len(<<fixed>> \o kept) = Len(kept) + 1 /\ Len(kept) \in Nat
    <3>1. IsList(kept) /\ Len(kept) \in Nat
      BY <2>4, KeptLines, ListPlaces DEF IsText
    <3> HIDE DEF kept, fixed
    <3>2. PICK u : u = <<fixed>> /\ IsList(u) /\ Len(u) = 1
      BY OneLine
    <3>3. IsList(u \o kept) /\ Len(u \o kept) = Len(u) + Len(kept)
      BY <3>1, <3>2, JoinedList
    <3> QED BY <3>1, <3>2, <3>3
  <2> HIDE DEF t, kept, fixed, norm
  <2>6. CASE Survives(lines, i)
    <3>1. norm = <<fixed>> \o kept /\ norm # <<>>
      <4> DEFINE u == <<fixed>> \o kept
      <4>1. IsList(u) /\ Len(u) = Len(kept) + 1 /\ Len(kept) \in Nat
        BY <2>5
      <4>2. norm = u
        BY <2>3, <2>6
      <4> HIDE DEF u
      <4>3. u # <<>>
        <5>1. Len(u) \in DOMAIN u
          BY <4>1, ListPlaces
        <5> QED BY <5>1
      <4> QED BY <4>2, <4>3 DEF u
    <3>2. rest = s.out \o (<<fixed>> \o kept)
      BY <3>1
    <3>3. KeepsHunk(s, t, lines)
      BY <1>2, <2>2, <2>6, <3>2 DEF KeepsHunk, fixed, kept
    <3>4. IsList(rest)
      <4> DEFINE u == <<fixed>> \o kept
      <4>1. IsList(u)
        BY <2>5
      <4> HIDE DEF u
      <4>2. IsList(s.out \o u)
        BY <4>1, JoinedList DEF IsState
      <4> QED BY <3>2, <4>2 DEF u
    <3> HIDE DEF rest
    <3>5. IsState(t)
      BY <2>2, <3>4, ListPlaces DEF IsState
    <3> QED BY <3>3, <3>5 DEF t, Turns
  <2>7. CASE ~Survives(lines, i) /\ s.headers > 0
    <3>1. rest = SubSeq(s.out, 1, s.headers - 1)
      BY <2>3, <2>7
    <3>2. CutsHeaders(s, t, lines)
      BY <1>2, <2>2, <2>7, <3>1 DEF CutsHeaders
    <3>3. IsList(rest)
      <4> DEFINE one == 1
                 b == s.headers - 1
      <4>1. one \in Nat /\ b \in Nat /\ 1 <= one /\ one <= b + 1 /\ b <= Len(s.out)
        BY <2>7, ListPlaces DEF IsState
      <4>2. rest = SubSeq(s.out, one, b)
        BY <3>1
      <4> HIDE DEF one, b, rest
      <4> QED BY <4>1, <4>2, PartOfList DEF IsState
    <3> HIDE DEF rest
    <3>4. IsState(t)
      BY <2>2, <3>3, ListPlaces DEF IsState
    <3> QED BY <3>2, <3>4 DEF t, Turns
  <2>8. CASE ~Survives(lines, i) /\ ~(s.headers > 0)
    <3>1. norm = <<>> /\ rest = s.out \o norm
      BY <2>3, <2>8
    <3>2. s.out \o <<>> = s.out
      <4> DEFINE S == {s.out[k] : k \in DOMAIN s.out}
      <4>1. s.out \in Seq(S)
        BY DEF IsState, IsList
      <4> HIDE DEF S
      <4> QED BY <4>1, ConcatEmptySeq
    <3>3. rest = s.out
      BY <3>1, <3>2
    <3>4. DropsHunk(s, t, lines)
      BY <1>2, <2>2, <2>8, <3>3 DEF DropsHunk
    <3> HIDE DEF rest
    <3>5. IsState(t)
      BY <2>2, <3>3, ListPlaces DEF IsState
    <3> QED BY <3>4, <3>5 DEF t, Turns
  <2> QED BY <2>6, <2>7, <2>8
<1>3. CASE lines[i].kind # "hunk"
  <2>1. t = NonHunkDone(s, lines)
    BY <1>1, <1>3 DEF ScanStep
  <2> DEFINE line == lines[i]
             pair == line.kind = "old" /\ i < Len(lines) /\ lines[i + 1].kind = "new"
             out == s.out
             headers == s.headers
  <2>2. s = [out |-> out, headers |-> headers, at |-> i] /\ IsList(out)
        /\ headers \in 0 .. Len(out) /\ Len(out) \in Nat
    BY ListPlaces DEF IsState
  <2>3. CASE line.kind = "fence"
    <3>1. t = [s EXCEPT !.at = @ + 1]
      BY <2>1, <2>3 DEF NonHunkDone
    <3> HIDE DEF t, out, headers
    <3>2. t.out = out /\ t.headers = headers /\ t.at = i + 1
          /\ t = [out |-> t.out, headers |-> t.headers, at |-> t.at]
      BY <2>2, <3>1
    <3>3. SkipsFence(s, t, lines) /\ IsState(t)
      BY <2>2, <2>3, <3>2 DEF SkipsFence, IsState, out, headers
    <3> QED BY <3>3 DEF t, Turns
  <2>4. CASE line.kind # "fence" /\ pair
    <3> DEFINE two == <<line, lines[i + 1]>>
    <3>1. t = [out |-> out \o two, headers |-> Len(out) + 1, at |-> i + 2]
      BY <2>1, <2>4 DEF NonHunkDone
    <3>2. PICK u : u = two /\ IsList(u) /\ Len(u) = 2
      <4> DEFINE below == lines[i + 1]
      <4> HIDE DEF line, below
      <4>1. IsList(<<line, below>>) /\ Len(<<line, below>>) = 2
        BY TwoLines
      <4> QED BY <4>1 DEF below
    <3>3. IsList(out \o u) /\ Len(out \o u) = Len(out) + Len(u)
      BY <2>2, <3>2, JoinedList
    <3> HIDE DEF t, two
    <3>4. IsState(t)
      BY <2>2, <3>1, <3>2, <3>3 DEF IsState
    <3>5. CopiesHeaders(s, t, lines)
      BY <2>4, <3>1 DEF CopiesHeaders, two
    <3> QED BY <3>4, <3>5 DEF t, Turns
  <2>5. CASE line.kind # "fence" /\ ~pair
    <3>1. t = [s EXCEPT !.out = Append(@, line), !.at = @ + 1]
      BY <2>1, <2>5 DEF NonHunkDone
    <3> DEFINE grown == Append(s.out, line)
    <3>2. t = [s EXCEPT !.out = grown, !.at = i + 1]
      BY <3>1
    <3>3. grown = s.out \o <<line>>
      BY <2>2, AppendJoins
    <3>4. PICK u : u = <<line>> /\ IsList(u) /\ Len(u) = 1
      BY OneLine
    <3>5. IsList(out \o u) /\ Len(out \o u) = Len(out) + 1
      BY <2>2, <3>4, JoinedLine
    <3>6. grown = out \o u
      BY <3>3, <3>4
    <3> HIDE DEF t, grown, out, headers
    <3>7. t.out = grown /\ t.headers = headers /\ t.at = i + 1
          /\ t = [out |-> t.out, headers |-> t.headers, at |-> t.at]
      <4> DEFINE v == [s EXCEPT !.out = grown]
                 w == [v EXCEPT !.at = i + 1]
      <4>1. v = [out |-> grown, headers |-> headers, at |-> i]
        BY <2>2
      <4>2. w = t
        BY <3>2
      <4> HIDE DEF v
      <4>3. w = [out |-> grown, headers |-> headers, at |-> i + 1]
        BY <4>1
      <4> QED BY <4>2, <4>3
    <3>8. IsState(t)
      BY <2>2, <3>5, <3>6, <3>7 DEF IsState
    <3>9. CopiesLine(s, t, lines)
      BY <1>3, <2>5, <3>3, <3>7 DEF CopiesLine, headers
    <3> QED BY <3>8, <3>9 DEF t, Turns
  <2> QED BY <2>3, <2>4, <2>5
<1> QED BY <1>2, <1>3

(* Line is the header in force above line q.                               *)
Over(text, q, line) ==
    \E h \in 1 .. q - 1 : /\ text[h].kind = "new" /\ text[h] = line
                          /\ \A j \in h + 1 .. q - 1 : text[j].kind # "new"

(* Line is the header in force above line q, and a scan does not cut it:   *)
(* the first hunk below it survives.                                       *)
Governs(lines, q, line) ==
    \E h \in 1 .. q - 1 :
       /\ lines[h].kind = "new" /\ lines[h] = line
       /\ \A j \in h + 1 .. q - 1 : lines[j].kind # "new"
       /\ \A i \in h + 1 .. q - 1 :
             lines[i].kind = "hunk" /\ ~Survives(lines, i) =>
                \E j \in h + 1 .. i - 1 : lines[j].kind = "hunk"

(* The last file header above line q has no hunk below it yet.             *)
Opened(lines, q) ==
    \E p \in 1 .. q - 1 : /\ lines[p].kind = "new"
                          /\ \A j \in p + 1 .. q - 1 : lines[j].kind # "hunk"

(* No file header stands in a hunk.                                        *)
Plain(lines) ==
    \A i \in Hunks(lines) : \A j \in i + 1 .. BodyEnd(lines, i) : lines[j].kind # "new"

(* The hunk of text at line q is what is left of the one at line i.        *)
From(lines, i, text, q) ==
    /\ Survives(lines, i)
    /\ text[q] = Recounted(lines, i)
    /\ HunkAt(text, q) = KeepHunkLines(HunkAt(lines, i))
    /\ Plain(lines) => \A line : Governs(lines, i, line) => Over(text, q, line)

(* A recounted header is still that hunk's.                                *)
LEMMA RecountedIs ==
    ASSUME NEW lines, NEW i, IsLine(lines[i])
    PROVE  /\ IsLine(Recounted(lines, i))
           /\ Recounted(lines, i).kind = lines[i].kind
           /\ Recounted(lines, i).hunk = lines[i].hunk
           /\ Recounted(lines, i).old = OldCount(KeepHunkLines(HunkAt(lines, i)))
           /\ Recounted(lines, i).new = NewCount(KeepHunkLines(HunkAt(lines, i)))
<1> DEFINE kept == KeepHunkLines(HunkAt(lines, i))
           o == OldCount(kept)
           n == NewCount(kept)
           line == lines[i]
           r == [line EXCEPT !.old = o, !.new = n]
<1>1. Recounted(lines, i) = r
  BY DEF Recounted
<1>2. IsLine(line)
  OBVIOUS
<1> HIDE DEF o, n, line
<1>3. /\ DOMAIN r = {"kind", "path", "ns", "hunk", "old", "new"}
      /\ r.kind = line.kind /\ r.hunk = line.hunk /\ r.old = o /\ r.new = n
      /\ r = [field \in DOMAIN r |-> r[field]]
  BY <1>2 DEF IsLine
<1> HIDE DEF r
<1>4. IsLine(r)
  BY <1>3 DEF IsLine
<1> QED BY <1>1, <1>3, <1>4 DEF o, n, line, kept

(* It stays that when the text goes on, or ends, after its lines.          *)
LEMMA FromStays ==
    ASSUME NEW s, IsList(s), NEW t, IsList(t), NEW m \in Nat, m <= Len(s), m <= Len(t),
           \A k \in 1 .. m : s[k] = t[k], NEW q \in 1 .. m,
           \/ BodyEnd(s, q) < m
           \/ BodyEnd(s, q) = m /\ (m < Len(t) => Opens(t[m + 1])),
           NEW lines, NEW i, From(lines, i, s, q)
    PROVE  From(lines, i, t, q)
<1>1. HunkAt(t, q) = HunkAt(s, q)
  BY BodyStays
<1>2. ASSUME NEW line, Over(s, q, line) PROVE Over(t, q, line)
  <2>1. PICK h \in 1 .. q - 1 : /\ s[h].kind = "new" /\ s[h] = line
                                /\ \A j \in h + 1 .. q - 1 : s[j].kind # "new"
    BY <1>2 DEF Over
  <2>2. h \in 1 .. m /\ \A j \in h + 1 .. q - 1 : j \in 1 .. m
    OBVIOUS
  <2> QED BY <2>1, <2>2 DEF Over
<1>3. t[q] = s[q]
  OBVIOUS
<1> QED BY <1>1, <1>2, <1>3 DEF From

(* The turns that copy, and the one that keeps, as one sequence added.     *)
Copies(s, t, lines) ==
    \E u : /\ IsList(u) /\ Len(u) \in 1 .. 2 /\ s.at + Len(u) - 1 <= Len(lines)
           /\ \A j \in 1 .. Len(u) :
                 u[j] = lines[s.at + j - 1] /\ u[j].kind \notin {"hunk", "fence"}
           /\ t.out = s.out \o u /\ t.at = s.at + Len(u)
           /\ \/ t.headers = s.headers
              \/ /\ t.headers = Len(s.out) + 1 /\ u[1].kind = "old"
                 /\ Len(u) = 2 /\ u[2].kind = "new"

(* A turn that copies joins one line or two to what is out.                *)
LEMMA TurnCopies ==
    ASSUME NEW lines, IsText(lines), NEW s, IsState(s), s.at \in 1 .. Len(lines), NEW t,
           CopiesHeaders(s, t, lines) \/ CopiesLine(s, t, lines)
    PROVE  Copies(s, t, lines)
<1> DEFINE i == s.at
           first == lines[i]
           second == lines[i + 1]
<1>0. Len(lines) \in Nat
  BY ListPlaces DEF IsText
<1>1. CASE CopiesHeaders(s, t, lines)
  <2> DEFINE w == <<first, second>>
  <2>1. /\ first.kind = "old" /\ i < Len(lines) /\ second.kind = "new"
        /\ t.out = s.out \o w /\ t.headers = Len(s.out) + 1 /\ t.at = i + 2
    BY <1>1 DEF CopiesHeaders
  <2>2. IsList(w) /\ Len(w) = 2 /\ w[1] = first /\ w[2] = second
    <3> HIDE DEF first, second
    <3> QED BY TwoLines
  <2> HIDE DEF w
  <2>3. \A j \in 1 .. Len(w) : w[j] = lines[i + j - 1] /\ w[j].kind \notin {"hunk", "fence"}
    <3> TAKE j \in 1 .. Len(w)
    <3>1. CASE j = 1
      <4>1. i + j - 1 = i
        BY <3>1
      <4> QED BY <2>1, <2>2, <3>1, <4>1
    <3>2. CASE j = 2
      <4>1. i + j - 1 = i + 1
        BY <3>2
      <4> QED BY <2>1, <2>2, <3>2, <4>1
    <3> QED BY <2>2, <3>1, <3>2
  <2>4. Len(w) \in 1 .. 2 /\ i + Len(w) - 1 <= Len(lines)
    BY <1>0, <2>1, <2>2
  <2> HIDE DEF second
  <2> QED BY <2>1, <2>2, <2>3, <2>4 DEF Copies
<1>2. CASE CopiesLine(s, t, lines)
  <2> DEFINE w == <<first>>
  <2>1. /\ first.kind \notin {"hunk", "fence"} /\ t.out = s.out \o w
        /\ t.headers = s.headers /\ t.at = i + 1
    BY <1>2 DEF CopiesLine
  <2>2. IsList(w) /\ Len(w) = 1 /\ w[1] = first
    <3> HIDE DEF first
    <3> QED BY OneLine
  <2> HIDE DEF w
  <2>3. \A j \in 1 .. Len(w) : w[j] = lines[i + j - 1] /\ w[j].kind \notin {"hunk", "fence"}
    <3> TAKE j \in 1 .. Len(w)
    <3>1. j = 1 /\ i + j - 1 = i
      BY <2>2
    <3> QED BY <2>1, <2>2, <3>1
  <2>4. Len(w) \in 1 .. 2 /\ i + Len(w) - 1 <= Len(lines)
    BY <1>0, <2>2
  <2> QED BY <2>1, <2>2, <2>3, <2>4 DEF Copies
<1> QED BY <1>1, <1>2

(* What a turn that keeps a hunk has put out.                              *)
Keeps(s, t, lines) ==
    LET kept == KeepHunkLines(HunkAt(lines, s.at))
    IN  \E u : /\ IsText(u) /\ Len(u) = Len(kept) + 1 /\ u[1] = Recounted(lines, s.at)
               /\ \A j \in 1 .. Len(kept) : u[j + 1] = kept[j]
               /\ t.out = s.out \o u

(* The body of a hunk in a text is a text.                                 *)
LEMMA BodyIsText ==
    ASSUME NEW lines, IsText(lines), NEW i \in 1 .. Len(lines)
    PROVE  IsText(HunkAt(lines, i))
<1>1. IsList(HunkAt(lines, i)) /\ Len(HunkAt(lines, i)) = BodyEnd(lines, i) - i
      /\ \A q \in 1 .. BodyEnd(lines, i) - i : HunkAt(lines, i)[q] = lines[i + q]
  BY HunkAtIs DEF IsText
<1>2. \A q \in 1 .. BodyEnd(lines, i) - i : i + q \in DOMAIN lines
  <2>1. BodyEnd(lines, i) \in i .. Len(lines) /\ DOMAIN lines = 1 .. Len(lines)
    BY BodyEndIs, ListPlaces DEF IsText
  <2> QED BY <2>1
<1>3. DOMAIN HunkAt(lines, i) = 1 .. BodyEnd(lines, i) - i
  BY <1>1, ListPlaces
<1> QED BY <1>1, <1>2, <1>3 DEF IsText

(* A turn that keeps a hunk joins its header and its kept lines.           *)
LEMMA TurnKeeps ==
    ASSUME NEW lines, IsText(lines), NEW s, IsState(s), s.at \in 1 .. Len(lines), NEW t,
           KeepsHunk(s, t, lines)
    PROVE  Keeps(s, t, lines)
<1> DEFINE i == s.at
           kept == KeepHunkLines(HunkAt(lines, i))
           fixed == Recounted(lines, i)
           w == <<fixed>> \o kept
<1>1. IsText(kept) /\ IsLine(fixed)
  <2>1. IsText(HunkAt(lines, i)) /\ IsLine(lines[i])
    BY BodyIsText, ListPlaces DEF IsText
  <2> QED BY <2>1, KeptLines, RecountedIs
<1>2. t.out = s.out \o w
  BY DEF KeepsHunk
<1>3. IsList(kept) /\ DOMAIN kept = 1 .. Len(kept) /\ Len(kept) \in Nat
  BY <1>1, ListPlaces DEF IsText
<1> HIDE DEF kept, fixed
<1>4. PICK one : one = <<fixed>> /\ IsList(one) /\ Len(one) = 1 /\ one[1] = fixed
  BY OneLine
<1>5. /\ IsList(one \o kept) /\ Len(one \o kept) = Len(one) + Len(kept)
      /\ \A j \in 1 .. Len(one) : (one \o kept)[j] = one[j]
      /\ \A j \in 1 .. Len(kept) : (one \o kept)[Len(one) + j] = kept[j]
  BY <1>3, <1>4, JoinedList
<1>6. w = one \o kept
  BY <1>4
<1> HIDE DEF w
<1>7. IsList(w) /\ Len(w) = Len(kept) + 1 /\ w[1] = fixed
      /\ \A j \in 1 .. Len(kept) : w[j + 1] = kept[j]
  <2>1. \A j \in 1 .. Len(kept) : w[1 + j] = kept[j]
    BY <1>4, <1>5, <1>6
  <2>2. IsList(w) /\ Len(w) = Len(kept) + 1
    BY <1>3, <1>4, <1>5, <1>6
  <2>3. w[1] = fixed
    <3> DEFINE n == 1
    <3>1. n \in 1 .. Len(one)
      BY <1>4
    <3> HIDE DEF n
    <3>2. (one \o kept)[n] = one[n]
      BY <1>5, <3>1
    <3> QED BY <1>4, <1>6, <3>2 DEF n
  <2> QED BY <2>1, <2>2, <2>3
<1>8. IsText(w)
  <2> SUFFICES ASSUME NEW p \in 1 .. Len(kept) + 1 PROVE IsLine(w[p])
    BY <1>7, ListPlaces DEF IsText
  <2>1. CASE p = 1
    BY <1>1, <1>7, <2>1
  <2>2. CASE p # 1
    <3> DEFINE j == p - 1
    <3>1. j \in 1 .. Len(kept) /\ j + 1 = p
      BY <1>3, <2>2
    <3> HIDE DEF j
    <3>2. w[j + 1] = kept[j] /\ IsLine(kept[j])
      BY <1>1, <1>3, <1>7, <3>1 DEF IsText
    <3> QED BY <3>1, <3>2
  <2> QED BY <2>1, <2>2
<1> QED BY <1>2, <1>7, <1>8 DEF Keeps, kept, fixed

(***************************************************************************)
(* What a scan has written is whole: each hunk of it is left of one of the *)
(* file's, ends where it ended, and stands under the same header.          *)
(***************************************************************************)

(* What is out after some turns: every hunk of it is what is left of one   *)
(* of the text, whole; nothing can be added to the body of a hunk; and the *)
(* header in force is the one in force in the text.                        *)
Whole(lines, s) ==
    /\ IsState(s) /\ IsText(s.out) /\ s.at \in 1 .. Len(lines) + 1
    /\ \A q \in 1 .. Len(s.out) : s.out[q].kind # "fence"
    /\ s.headers > 0 =>
          /\ s.out[s.headers].kind = "old"
          /\ \A q \in s.headers + 1 .. Len(s.out) : s.out[q].kind # "hunk"
          /\ Opened(lines, s.at)
    /\ s.at <= Len(lines) /\ ~Opens(lines[s.at]) =>
          \A q \in Hunks(s.out) : BodyEnd(s.out, q) < Len(s.out)
    /\ \A q \in Hunks(s.out) : \E i \in Hunks(lines) : From(lines, i, s.out, q)
    /\ Plain(lines) =>
          \A line : Governs(lines, s.at, line) => Over(s.out, Len(s.out) + 1, line)

(* Joining lines leaves every hunk that was out as it was, when they open  *)
(* something or every hunk has ended.                                      *)
LEMMA GrownText ==
    ASSUME NEW out, IsText(out), NEW u, IsText(u), Len(u) >= 1,
           Opens(u[1]) \/ \A q \in Hunks(out) : BodyEnd(out, q) < Len(out)
    PROVE  /\ IsText(out \o u) /\ Len(out \o u) = Len(out) + Len(u)
           /\ \A j \in 1 .. Len(out) : (out \o u)[j] = out[j]
           /\ \A j \in 1 .. Len(u) : (out \o u)[Len(out) + j] = u[j]
           /\ \A q \in Hunks(out) :
                 /\ q \in Hunks(out \o u) /\ BodyEnd(out \o u, q) = BodyEnd(out, q)
                 /\ BodyEnd(out, q) < Len(out \o u)
                 /\ \A lines, i : From(lines, i, out, q) => From(lines, i, out \o u, q)
<1> DEFINE text == out \o u
           m == Len(out)
<1>1. /\ IsList(text) /\ Len(text) = Len(out) + Len(u)
      /\ \A j \in 1 .. Len(out) : text[j] = out[j]
      /\ \A j \in 1 .. Len(u) : text[Len(out) + j] = u[j]
  BY JoinedList DEF IsText
<1>2. /\ m \in Nat /\ DOMAIN out = 1 .. m /\ Len(u) \in Nat /\ DOMAIN u = 1 .. Len(u)
      /\ DOMAIN text = 1 .. Len(text) /\ m <= Len(out) /\ m < Len(text)
  BY <1>1, ListPlaces DEF IsText
<1> HIDE DEF text
<1>3. IsText(text)
  <2> SUFFICES ASSUME NEW p \in 1 .. Len(out) + Len(u) PROVE IsLine(text[p])
    BY <1>1, <1>2 DEF IsText
  <2>1. CASE p \in 1 .. Len(out)
    BY <1>1, <1>2, <2>1 DEF IsText
  <2>2. CASE p - Len(out) \in 1 .. Len(u)
    <3> DEFINE j == p - Len(out)
    <3>1. j \in 1 .. Len(u) /\ Len(out) + j = p
      BY <1>2, <2>2
    <3> HIDE DEF j
    <3> QED BY <1>1, <1>2, <3>1 DEF IsText
  <2> QED BY <2>1, <2>2, JoinedPlaces DEF IsText
<1>4. text[m + 1] = u[1]
  <2> DEFINE one == 1
  <2>1. one \in 1 .. Len(u)
    BY <1>2
  <2> HIDE DEF one
  <2>2. text[Len(out) + one] = u[one]
    BY <1>1, <2>1
  <2> QED BY <2>2 DEF one
<1>5. ASSUME NEW q \in Hunks(out)
      PROVE /\ q \in Hunks(text) /\ BodyEnd(text, q) = BodyEnd(out, q)
            /\ BodyEnd(out, q) < Len(text)
            /\ \A lines, i : From(lines, i, out, q) => From(lines, i, text, q)
  <2>1. q \in 1 .. m /\ out[q].kind = "hunk"
    BY <1>2 DEF Hunks
  <2>2. BodyEnd(out, q) \in q .. m
    BY <2>1, BodyEndIs DEF IsText
  <2>3. \/ BodyEnd(out, q) < m
        \/ BodyEnd(out, q) = m /\ (m < Len(text) => Opens(text[m + 1]))
    BY <1>2, <1>4, <2>2
  <2>8. m \in Nat /\ m <= Len(out) /\ m <= Len(text) /\ \A k \in 1 .. m : out[k] = text[k]
    BY <1>1, <1>2
  <2>4. q \in Hunks(text)
    BY <1>1, <1>2, <2>1 DEF Hunks
  <2>5. IsList(out) /\ IsList(text)
    BY <1>1 DEF IsText
  <2>6. BodyEnd(text, q) = BodyEnd(out, q)
    <3> HIDE DEF m
    <3> QED BY <2>1, <2>3, <2>5, <2>8, BodyStays
  <2>7. ASSUME NEW lines, NEW i, From(lines, i, out, q) PROVE From(lines, i, text, q)
    <3> HIDE DEF m
    <3> QED BY <2>1, <2>3, <2>5, <2>7, <2>8, FromStays
  <2> QED BY <1>2, <2>2, <2>4, <2>6, <2>7
<1> QED BY <1>1, <1>3, <1>5 DEF text

(* A turn that copies keeps what is out whole.                             *)
LEMMA CopiesIsWhole ==
    ASSUME NEW lines, IsText(lines), NEW s, Whole(lines, s), s.at \in 1 .. Len(lines),
           NEW t, IsState(t), Copies(s, t, lines)
    PROVE  /\ Whole(lines, t) /\ t.at > s.at
           /\ \A q \in Hunks(s.out) : q \in Hunks(t.out) /\ t.out[q] = s.out[q]
           /\ \A k \in Hunks(lines) : k < t.at => k < s.at
<1> DEFINE i == s.at
           out == s.out
           m == Len(out)
<1>1. PICK u : /\ IsList(u) /\ Len(u) \in 1 .. 2 /\ i + Len(u) - 1 <= Len(lines)
               /\ \A j \in 1 .. Len(u) :
                     u[j] = lines[i + j - 1] /\ u[j].kind \notin {"hunk", "fence"}
               /\ t.out = out \o u /\ t.at = i + Len(u)
               /\ \/ t.headers = s.headers
                  \/ /\ t.headers = m + 1 /\ u[1].kind = "old"
                     /\ Len(u) = 2 /\ u[2].kind = "new"
  BY DEF Copies
<1>2. /\ Len(lines) \in Nat /\ DOMAIN lines = 1 .. Len(lines) /\ m \in Nat /\ Len(u) \in Nat
      /\ DOMAIN out = 1 .. m /\ s.headers \in 0 .. m /\ i \in 1 .. Len(lines)
      /\ DOMAIN u = 1 .. Len(u)
  BY <1>1, ListPlaces DEF IsText, Whole, IsState
<1>3. IsText(u)
  <2> SUFFICES ASSUME NEW j \in 1 .. Len(u) PROVE IsLine(u[j])
    BY <1>1, <1>2 DEF IsText
  <2>1. i + j - 1 \in 1 .. Len(lines)
    BY <1>1, <1>2
  <2> QED BY <1>1, <1>2, <2>1 DEF IsText
<1>4. u[1] = lines[i]
  <2> DEFINE one == 1
  <2>1. one \in 1 .. Len(u) /\ i + one - 1 = i
    BY <1>1, <1>2
  <2> HIDE DEF one
  <2>2. u[one] = lines[i]
    BY <1>1, <2>1
  <2> QED BY <2>2 DEF one
<1>5. Opens(u[1]) \/ \A q \in Hunks(out) : BodyEnd(out, q) < Len(out)
  BY <1>2, <1>4 DEF Whole
<1>6. /\ IsText(out \o u) /\ Len(out \o u) = Len(out) + Len(u)
      /\ \A j \in 1 .. Len(out) : (out \o u)[j] = out[j]
      /\ \A j \in 1 .. Len(u) : (out \o u)[Len(out) + j] = u[j]
      /\ \A q \in Hunks(out) :
            /\ q \in Hunks(out \o u) /\ BodyEnd(out \o u, q) = BodyEnd(out, q)
            /\ BodyEnd(out, q) < Len(out \o u)
            /\ \A text, k : From(text, k, out, q) => From(text, k, out \o u, q)
  <2>1. IsText(out) /\ Len(u) >= 1
    BY <1>1, <1>2 DEF Whole
  <2> HIDE DEF out
  <2> QED BY <1>3, <1>5, <2>1, GrownText
<1> DEFINE text == t.out
<1>7. text = out \o u
  BY <1>1
<1>8. ASSUME NEW p \in 1 .. Len(text), p \notin 1 .. m
      PROVE  p - m \in 1 .. Len(u) /\ text[p] = u[p - m]
  <2> DEFINE j == p - m
  <2>1. j \in 1 .. Len(u) /\ m + j = p
    BY <1>2, <1>6, <1>7, <1>8
  <2> HIDE DEF j
  <2>2. text[p] = u[j]
    BY <1>6, <1>7, <2>1
  <2> QED BY <2>1, <2>2 DEF j
<1>9. Hunks(text) = Hunks(out)
  <2>1. ASSUME NEW p \in Hunks(text) PROVE p \in Hunks(out)
    <3>1. p \in 1 .. Len(text) /\ text[p].kind = "hunk"
      BY <1>6, <1>7, ListPlaces DEF Hunks, IsText
    <3>2. p \in 1 .. m
      BY <1>1, <1>8, <3>1
    <3> QED BY <1>2, <1>6, <1>7, <3>1, <3>2 DEF Hunks
  <2>2. \A p \in Hunks(out) : p \in Hunks(text)
    BY <1>6, <1>7
  <2> QED BY <2>1, <2>2
<1>10. t.at \in 1 .. Len(lines) + 1
  BY <1>1, <1>2
<1>11. \A q \in 1 .. Len(text) : text[q].kind # "fence"
  <2> TAKE q \in 1 .. Len(text)
  <2>1. CASE q \in 1 .. m
    BY <1>6, <1>7, <2>1 DEF Whole
  <2>2. CASE q \notin 1 .. m
    BY <1>1, <1>8, <2>2
  <2> QED BY <2>1, <2>2
<1>21. ASSUME NEW k \in i .. t.at - 1
       PROVE  /\ lines[k].kind # "hunk" /\ k - i + 1 \in 1 .. Len(u)
              /\ lines[k] = u[k - i + 1]
  <2> DEFINE j == k - i + 1
  <2>1. j \in 1 .. Len(u) /\ i + j - 1 = k
    <3>1. t.at = i + Len(u) /\ Len(u) \in Nat /\ i \in Int
      BY <1>1, <1>2
    <3>2. PICK n : n = Len(u)
      OBVIOUS
    <3>3. k \in i .. i + n - 1 /\ n \in Nat
      BY <3>1, <3>2
    <3> HIDE DEF i
    <3>4. k - i + 1 \in 1 .. n /\ i + (k - i + 1) - 1 = k
      BY <3>1, <3>3
    <3> QED BY <3>2, <3>4
  <2> HIDE DEF j
  <2>2. u[j] = lines[k] /\ u[j].kind # "hunk"
    BY <1>1, <2>1
  <2> QED BY <2>1, <2>2 DEF j
<1>22. t.headers > 0 => Opened(lines, t.at)
  <2> SUFFICES ASSUME t.headers > 0 PROVE Opened(lines, t.at)
    OBVIOUS
  <2>1. CASE t.headers = s.headers
    <3>1. PICK p \in 1 .. i - 1 : /\ lines[p].kind = "new"
                                  /\ \A j \in p + 1 .. i - 1 : lines[j].kind # "hunk"
      BY <2>1 DEF Whole, Opened
    <3>2. i < t.at /\ i \in Int /\ t.at \in Int
      BY <1>1, <1>2
    <3>3. p \in 1 .. t.at - 1
      BY <3>2
    <3>4. ASSUME NEW j \in p + 1 .. t.at - 1 PROVE lines[j].kind # "hunk"
      <4>1. j \in p + 1 .. i - 1 \/ j \in i .. t.at - 1
        BY <3>2
      <4> QED BY <1>21, <3>1, <4>1
    <3> QED BY <3>1, <3>3, <3>4 DEF Opened
  <2>2. CASE t.headers = m + 1 /\ Len(u) = 2 /\ u[2].kind = "new"
    <3>1. PICK two : two = 2 /\ two \in 1 .. Len(u)
      BY <2>2
    <3>2. u[two] = lines[i + two - 1]
      BY <1>1, <3>1
    <3>3. t.at = i + two /\ i \in Int /\ i >= 1
      BY <1>1, <1>2, <2>2, <3>1
    <3>4. PICK p : p = i + two - 1
      OBVIOUS
    <3>5. PICK a : a = t.at
      OBVIOUS
    <3>6. p \in 1 .. a - 1 /\ \A j \in p + 1 .. a - 1 : FALSE
      <4> HIDE DEF i
      <4> QED BY <3>1, <3>3, <3>4, <3>5
    <3>7. lines[p].kind = "new"
      BY <2>2, <3>1, <3>2, <3>4
    <3> QED BY <3>5, <3>6, <3>7 DEF Opened
  <2> QED BY <1>1, <2>1, <2>2
<1>12. t.headers > 0 =>
          /\ text[t.headers].kind = "old"
          /\ \A q \in t.headers + 1 .. Len(text) : text[q].kind # "hunk"
  <2> SUFFICES ASSUME t.headers > 0
               PROVE  /\ text[t.headers].kind = "old"
                      /\ \A q \in t.headers + 1 .. Len(text) : text[q].kind # "hunk"
    OBVIOUS
  <2>1. ASSUME NEW q \in 1 .. Len(text), q \notin 1 .. m PROVE text[q].kind # "hunk"
    BY <1>1, <1>8, <2>1
  <2>2. CASE t.headers = s.headers
    <3>1. t.headers \in 1 .. m
      BY <1>2, <2>2
    <3>2. text[t.headers].kind = "old"
      BY <1>6, <1>7, <2>2, <3>1 DEF Whole
    <3>3. ASSUME NEW q \in t.headers + 1 .. Len(text) PROVE text[q].kind # "hunk"
      <4>1. q \in 1 .. Len(text)
        BY <1>2, <1>6, <1>7, <3>1
      <4>2. CASE q \in 1 .. m
        <5>1. q \in s.headers + 1 .. Len(out) /\ s.headers > 0
          BY <1>2, <2>2, <3>1, <4>2
        <5>2. out[q].kind # "hunk"
          BY <5>1 DEF Whole
        <5> QED BY <1>6, <1>7, <4>2, <5>2
      <4>3. CASE q \notin 1 .. m
        BY <2>1, <4>1, <4>3
      <4> QED BY <4>2, <4>3
    <3> QED BY <3>2, <3>3
  <2>3. CASE t.headers = m + 1 /\ u[1].kind = "old"
    <3>1. m + 1 \in 1 .. Len(text) /\ m + 1 \notin 1 .. m /\ m + 1 - m = 1
      BY <1>1, <1>2, <1>6, <1>7
    <3>2. text[m + 1] = u[1]
      <4> DEFINE p == m + 1
      <4>1. p \in 1 .. Len(text) /\ p \notin 1 .. m /\ p - m = 1
        BY <3>1
      <4> HIDE DEF p
      <4>2. text[p] = u[p - m]
        BY <1>8, <4>1
      <4> QED BY <4>1, <4>2 DEF p
    <3>3. ASSUME NEW q \in t.headers + 1 .. Len(text) PROVE text[q].kind # "hunk"
      <4>1. q \in 1 .. Len(text) /\ q \notin 1 .. m
        BY <1>2, <1>6, <1>7, <2>3
      <4> QED BY <2>1, <4>1
    <3> QED BY <2>3, <3>2, <3>3
  <2> QED BY <1>1, <2>2, <2>3
<1>13. \A q \in Hunks(text) : BodyEnd(text, q) < Len(text)
  BY <1>6, <1>7, <1>9
<1>14. \A q \in Hunks(text) : \E k \in Hunks(lines) : From(lines, k, text, q)
  BY <1>6, <1>7, <1>9 DEF Whole
<1>15. ASSUME Plain(lines), NEW line, Governs(lines, t.at, line)
       PROVE  Over(text, Len(text) + 1, line)
  <2>1. PICK h \in 1 .. t.at - 1 :
          /\ lines[h].kind = "new" /\ lines[h] = line
          /\ \A j \in h + 1 .. t.at - 1 : lines[j].kind # "new"
          /\ \A k \in h + 1 .. t.at - 1 :
                lines[k].kind = "hunk" /\ ~Survives(lines, k) =>
                   \E j \in h + 1 .. k - 1 : lines[j].kind = "hunk"
    BY <1>15 DEF Governs
  <2>2. \A p \in m + 1 .. Len(text) :
           /\ p - m \in 1 .. Len(u) /\ text[p] = lines[i + (p - m) - 1]
           /\ i + (p - m) - 1 \in i .. t.at - 1
    <3> TAKE p \in m + 1 .. Len(text)
    <3>1. p \in 1 .. Len(text) /\ p \notin 1 .. m
      BY <1>2, <1>6, <1>7
    <3> DEFINE j == p - m
    <3>2. j \in 1 .. Len(u) /\ text[p] = u[j]
      BY <1>8, <3>1
    <3> HIDE DEF j
    <3>3. u[j] = lines[i + j - 1] /\ i + j - 1 \in i .. t.at - 1
      <4>1. u[j] = lines[i + j - 1]
        BY <1>1, <3>2
      <4>2. i + j - 1 \in i .. t.at - 1
        <5> DEFINE n == Len(u)
                   a == t.at
                   k == i
        <5>1. a = k + n /\ n \in Nat /\ j \in 1 .. n /\ k \in Int
          BY <1>1, <1>2, <3>2
        <5> HIDE DEF a, n, k
        <5>2. k + j - 1 \in k .. a - 1
          BY <5>1
        <5> QED BY <5>2 DEF a, k
      <4> QED BY <4>1, <4>2
    <3> QED BY <3>2, <3>3 DEF j
  <2>3. CASE h \in 1 .. i - 1
    <3>1. Governs(lines, i, line)
      <4>1. \A j \in h + 1 .. i - 1 : j \in h + 1 .. t.at - 1
        BY <1>1, <1>2
      <4> QED BY <2>1, <2>3, <4>1 DEF Governs
    <3>2. Over(out, m + 1, line)
      BY <1>15, <3>1 DEF Whole
    <3>3. PICK g \in 1 .. m : /\ out[g].kind = "new" /\ out[g] = line
                              /\ \A j \in g + 1 .. m : out[j].kind # "new"
      <4>1. m + 1 - 1 = m
        BY <1>2
      <4> QED BY <3>2, <4>1 DEF Over
    <3>4. \A j \in g + 1 .. Len(text) : text[j].kind # "new"
      <4> TAKE j \in g + 1 .. Len(text)
      <4>1. CASE j \in g + 1 .. m
        <5>1. j \in 1 .. Len(out)
          BY <1>2, <4>1
        <5> QED BY <1>6, <1>7, <3>3, <4>1, <5>1
      <4>2. CASE j \in m + 1 .. Len(text)
        <5> DEFINE k == i + (j - m) - 1
        <5>1. text[j] = lines[k] /\ k \in i .. t.at - 1
          BY <2>2, <4>2
        <5> HIDE DEF k
        <5>2. k \in h + 1 .. t.at - 1
          BY <1>1, <1>2, <2>3, <5>1
        <5> QED BY <2>1, <5>1, <5>2
      <4>3. j \in g + 1 .. m \/ j \in m + 1 .. Len(text)
        BY <1>2, <1>6, <1>7
      <4> QED BY <4>1, <4>2, <4>3
    <3>5. g \in 1 .. Len(text) + 1 - 1 /\ Len(text) + 1 - 1 = Len(text) /\ text[g] = out[g]
      BY <1>2, <1>6, <1>7
    <3> QED BY <3>3, <3>4, <3>5 DEF Over
  <2>4. CASE h \in i .. t.at - 1
    <3> DEFINE j == h - i + 1
               p == m + j
    <3>1. j \in 1 .. Len(u) /\ i + j - 1 = h
      <4>1. i \in Int /\ h \in i .. t.at - 1 /\ t.at = i + Len(u) /\ Len(u) \in Nat
        BY <1>1, <1>2, <2>4
      <4> HIDE DEF i
      <4> QED BY <4>1
    <3>2. p \in 1 .. Len(text) /\ p - m = j /\ p \in m + 1 .. Len(text)
      <4> DEFINE n == Len(text)
      <4>1. n = m + Len(u)
        BY <1>6, <1>7
      <4> HIDE DEF j, n, m
      <4> QED BY <1>2, <3>1, <4>1 DEF n
    <3> HIDE DEF j, p
    <3>3. text[p] = lines[h]
      <4>1. text[p] = lines[i + (p - m) - 1]
        BY <2>2, <3>2
      <4> QED BY <3>1, <3>2, <4>1
    <3>4. \A q \in p + 1 .. Len(text) : text[q].kind # "new"
      <4> TAKE q \in p + 1 .. Len(text)
      <4> DEFINE k == i + (q - m) - 1
      <4>1. q \in m + 1 .. Len(text)
        BY <1>2, <3>2, <1>6, <1>7
      <4>2. text[q] = lines[k] /\ k \in i .. t.at - 1
        BY <2>2, <4>1
      <4>3. k > h
        <5>1. p - m = j /\ i + j - 1 = h
          BY <3>1, <3>2
        <5>2. p \in Int /\ q \in Int /\ q > p
          BY <3>2
        <5>3. i \in Int /\ m \in Int
          BY <1>2
        <5> HIDE DEF m, i
        <5>4. i + (q - m) - 1 > h
          BY <5>1, <5>2, <5>3
        <5> QED BY <5>4
      <4> HIDE DEF k
      <4>4. k \in h + 1 .. t.at - 1
        BY <1>1, <1>2, <2>4, <4>2, <4>3
      <4> QED BY <2>1, <4>2, <4>4
    <3>5. p \in 1 .. Len(text) + 1 - 1 /\ Len(text) + 1 - 1 = Len(text)
      BY <1>2, <1>6, <1>7, <3>2
    <3> QED BY <2>1, <3>3, <3>4, <3>5 DEF Over
  <2>5. h \in 1 .. i - 1 \/ h \in i .. t.at - 1
    BY <1>1, <1>2
  <2> QED BY <2>3, <2>4, <2>5
<1>16. IsText(text)
  BY <1>6, <1>7
<1>17. Whole(lines, t)
  BY <1>10, <1>11, <1>12, <1>13, <1>14, <1>15, <1>16, <1>22 DEF Whole
<1>18. t.at > i
  BY <1>1, <1>2
<1>19. \A q \in Hunks(out) : q \in Hunks(text) /\ text[q] = out[q]
  BY <1>2, <1>6, <1>7, <1>9 DEF Hunks
<1>20. ASSUME NEW k \in Hunks(lines), k < t.at, ~(k < i) PROVE FALSE
  <2>1. k \in Int /\ t.at \in Int /\ i \in Int
    BY <1>1, <1>2 DEF Hunks
  <2>2. k \in i .. t.at - 1
    BY <1>20, <2>1
  <2> QED BY <1>21, <2>2 DEF Hunks
<1> QED BY <1>17, <1>18, <1>19, <1>20

(* A turn that skips a fence keeps what is out whole.                      *)
LEMMA FenceIsWhole ==
    ASSUME NEW lines, IsText(lines), NEW s, Whole(lines, s), s.at \in 1 .. Len(lines),
           NEW t, IsState(t), SkipsFence(s, t, lines)
    PROVE  Whole(lines, t)
<1> DEFINE i == s.at
<1>1. /\ lines[i].kind = "fence" /\ t.out = s.out /\ t.headers = s.headers /\ t.at = i + 1
      /\ Len(lines) \in Nat
  BY ListPlaces DEF SkipsFence, IsText
<1>2. t.at \in 1 .. Len(lines) + 1
  BY <1>1
<1>3. \A q \in Hunks(s.out) : BodyEnd(s.out, q) < Len(s.out)
  BY <1>1 DEF Whole, Opens
<1>4. ASSUME Plain(lines), NEW line, Governs(lines, t.at, line)
      PROVE  Over(t.out, Len(t.out) + 1, line)
  <2>1. PICK h \in 1 .. i :
          /\ lines[h].kind = "new" /\ lines[h] = line
          /\ \A j \in h + 1 .. i : lines[j].kind # "new"
          /\ \A k \in h + 1 .. i :
                lines[k].kind = "hunk" /\ ~Survives(lines, k) =>
                   \E j \in h + 1 .. k - 1 : lines[j].kind = "hunk"
    <3>1. t.at - 1 = i
      BY <1>1
    <3> QED BY <1>4, <3>1 DEF Governs
  <2>2. h \in 1 .. i - 1 /\ \A j \in h + 1 .. i - 1 : j \in h + 1 .. i
    BY <1>1, <2>1
  <2>3. Governs(lines, i, line)
    BY <2>1, <2>2 DEF Governs
  <2> QED BY <1>1, <1>4, <2>3 DEF Whole
<1>5. t.headers > 0 => Opened(lines, t.at)
  <2> SUFFICES ASSUME s.headers > 0 PROVE Opened(lines, t.at)
    BY <1>1
  <2>1. PICK p \in 1 .. i - 1 : /\ lines[p].kind = "new"
                                /\ \A j \in p + 1 .. i - 1 : lines[j].kind # "hunk"
    BY DEF Whole, Opened
  <2>2. p \in 1 .. t.at - 1 /\ \A j \in p + 1 .. t.at - 1 : j \in p + 1 .. i - 1 \/ j = i
    BY <1>1
  <2> QED BY <1>1, <2>1, <2>2 DEF Opened
<1> QED BY <1>1, <1>2, <1>3, <1>4, <1>5 DEF Whole

(* After a hunk the scan stands at the end of its body.                    *)
LEMMA AfterHunk ==
    ASSUME NEW lines, IsText(lines), NEW i \in 1 .. Len(lines), lines[i].kind = "hunk"
    PROVE  /\ BodyEnd(lines, i) + 1 \in 1 .. Len(lines) + 1
           /\ BodyEnd(lines, i) + 1 > i
           /\ BodyEnd(lines, i) + 1 <= Len(lines) => Opens(lines[BodyEnd(lines, i) + 1])
           /\ Plain(lines) => \A line : Governs(lines, BodyEnd(lines, i) + 1, line) =>
                                        Governs(lines, i, line)
           /\ Plain(lines) /\ ~Survives(lines, i) /\ Opened(lines, i) =>
                 \A line : ~Governs(lines, BodyEnd(lines, i) + 1, line)
           /\ \A k \in Hunks(lines) : k < BodyEnd(lines, i) + 1 => k <= i
<1> DEFINE b == BodyEnd(lines, i)
<1>1. /\ b \in i .. Len(lines) /\ Len(lines) \in Nat
      /\ b < Len(lines) => Opens(lines[b + 1])
  BY BodyEndIs, ListPlaces DEF IsText
<1>2. i \in Hunks(lines)
  BY ListPlaces DEF Hunks, IsText
<1>3. ASSUME Plain(lines), NEW line, Governs(lines, b + 1, line)
      PROVE  /\ Governs(lines, i, line)
             /\ ~(~Survives(lines, i) /\ Opened(lines, i))
  <2>1. \A j \in i + 1 .. b : lines[j].kind # "new"
    BY <1>2, <1>3 DEF Plain
  <2> HIDE DEF b
  <2>2. b + 1 - 1 = b
    BY <1>1
  <2>3. PICK h \in 1 .. b :
          /\ lines[h].kind = "new" /\ lines[h] = line
          /\ \A j \in h + 1 .. b : lines[j].kind # "new"
          /\ \A k \in h + 1 .. b :
                lines[k].kind = "hunk" /\ ~Survives(lines, k) =>
                   \E j \in h + 1 .. k - 1 : lines[j].kind = "hunk"
    <3>1. PICK c : c = b + 1 /\ c - 1 = b
      BY <1>1
    <3>2. Governs(lines, c, line)
      BY <1>3, <3>1
    <3> QED BY <3>1, <3>2 DEF Governs
  <2>4. h # i
    BY <2>3
  <2>5. h \in 1 .. i - 1
    BY <1>1, <2>1, <2>3, <2>4
  <2>6. \A j \in h + 1 .. i - 1 : j \in h + 1 .. b
    BY <1>1
  <2>7. Governs(lines, i, line)
    BY <2>3, <2>5, <2>6 DEF Governs
  <2>8. ASSUME ~Survives(lines, i), Opened(lines, i) PROVE FALSE
    <3>1. PICK p \in 1 .. i - 1 : /\ lines[p].kind = "new"
                                  /\ \A j \in p + 1 .. i - 1 : lines[j].kind # "hunk"
      BY <2>8 DEF Opened
    <3>2. p \notin h + 1 .. b
      BY <2>3, <3>1
    <3>3. p <= h
      BY <1>1, <2>5, <3>2
    <3>4. i \in h + 1 .. b
      BY <1>1, <2>5
    <3>5. PICK j \in h + 1 .. i - 1 : lines[j].kind = "hunk"
      BY <2>3, <2>8, <3>4
    <3>6. j \in p + 1 .. i - 1
      BY <2>5, <3>3
    <3> QED BY <3>1, <3>5, <3>6
  <2> QED BY <2>7, <2>8
<1>4. ASSUME NEW k \in Hunks(lines), k < b + 1 PROVE k <= i
  <2>1. \A j \in i + 1 .. b : ~Opens(lines[j])
    BY BodyEndIs DEF IsText
  <2> HIDE DEF b
  <2>2. k \in 1 .. Len(lines) /\ Opens(lines[k])
    BY ListPlaces DEF Hunks, Opens, IsText
  <2>3. k \notin i + 1 .. b
    BY <2>1, <2>2
  <2> QED BY <1>1, <1>4, <2>2, <2>3
<1> HIDE DEF b
<1> QED BY <1>1, <1>3, <1>4 DEF b

(* A turn that drops a hunk keeps what is out whole.                       *)
LEMMA DropIsWhole ==
    ASSUME NEW lines, IsText(lines), NEW s, Whole(lines, s), s.at \in 1 .. Len(lines),
           NEW t, IsState(t), DropsHunk(s, t, lines)
    PROVE  Whole(lines, t)
<1> DEFINE i == s.at
<1>1. /\ lines[i].kind = "hunk" /\ t.out = s.out /\ t.headers = 0
      /\ t.at = BodyEnd(lines, i) + 1 /\ ~Survives(lines, i)
  BY DEF DropsHunk
<1>2. t.at \in 1 .. Len(lines) + 1 /\ (t.at <= Len(lines) => Opens(lines[t.at]))
  BY <1>1, AfterHunk
<1>3. Plain(lines) => \A line : Governs(lines, t.at, line) => Governs(lines, i, line)
  BY <1>1, AfterHunk
<1> QED BY <1>1, <1>2, <1>3 DEF Whole

(* A turn that cuts headers keeps what is out whole, and cuts no hunk.     *)
LEMMA CutIsWhole ==
    ASSUME NEW lines, IsText(lines), NEW s, Whole(lines, s), s.at \in 1 .. Len(lines),
           NEW t, IsState(t), CutsHeaders(s, t, lines)
    PROVE  /\ Whole(lines, t) /\ Len(t.out) = s.headers - 1
           /\ \A k \in 1 .. Len(t.out) : t.out[k] = s.out[k]
<1> DEFINE i == s.at
           out == s.out
           text == t.out
           b == s.headers - 1
<1>1. /\ lines[i].kind = "hunk" /\ text = SubSeq(out, 1, b) /\ t.headers = 0
      /\ t.at = BodyEnd(lines, i) + 1 /\ ~Survives(lines, i) /\ s.headers > 0
  BY DEF CutsHeaders
<1>2. t.at \in 1 .. Len(lines) + 1 /\ (t.at <= Len(lines) => Opens(lines[t.at]))
  BY <1>1, AfterHunk
<1>3. Plain(lines) => \A line : ~Governs(lines, t.at, line)
  <2>1. Opened(lines, i)
    BY <1>1 DEF Whole
  <2> QED BY <1>1, <2>1, AfterHunk
<1>4. /\ IsList(out) /\ Len(out) \in Nat /\ DOMAIN out = 1 .. Len(out)
      /\ s.headers \in 1 .. Len(out) /\ out[b + 1].kind = "old"
  <2>1. b + 1 = s.headers
    BY <1>1, ListPlaces DEF Whole, IsState
  <2> QED BY <1>1, <2>1, ListPlaces DEF Whole, IsState
<1>5. /\ IsList(text) /\ Len(text) = b /\ DOMAIN text = 1 .. b /\ b \in Nat
      /\ \A k \in 1 .. b : text[k] = out[k]
  <2> DEFINE one == 1
  <2>1. /\ one \in Nat /\ b \in Nat /\ 1 <= one /\ one <= b + 1 /\ b <= Len(out)
        /\ b - one + 1 = b /\ text = SubSeq(out, one, b) /\ \A k \in 1 .. b : one + k - 1 = k
    BY <1>1, <1>4
  <2> HIDE DEF one, b, text, out
  <2>2. /\ IsList(SubSeq(out, one, b)) /\ Len(SubSeq(out, one, b)) = b - one + 1
        /\ \A k \in 1 .. b - one + 1 : SubSeq(out, one, b)[k] = out[one + k - 1]
    BY <1>4, <2>1, PartOfList
  <2>3. IsList(text) /\ Len(text) = b
    BY <2>1, <2>2
  <2>4. \A k \in 1 .. b : text[k] = out[k]
    BY <2>1, <2>2
  <2> QED BY <2>1, <2>3, <2>4, ListPlaces
<1> HIDE DEF text
<1>6. IsText(text)
  <2>1. \A k \in 1 .. b : k \in DOMAIN out
    BY <1>4
  <2> QED BY <1>5, <2>1 DEF IsText, Whole
<1>7. \A q \in 1 .. Len(text) : text[q].kind # "fence"
  <2>1. \A k \in 1 .. b : k \in 1 .. Len(out)
    BY <1>4
  <2> QED BY <1>5, <2>1 DEF Whole
<1>8. ASSUME NEW q \in Hunks(text) PROVE \E k \in Hunks(lines) : From(lines, k, text, q)
  <2>1. q \in 1 .. b /\ q \in Hunks(out) /\ q \in 1 .. Len(out)
    BY <1>4, <1>5 DEF Hunks
  <2>2. PICK k \in Hunks(lines) : From(lines, k, out, q)
    BY <2>1 DEF Whole
  <2>3. BodyEnd(out, q) \in q .. b
    <3>1. BodyEnd(out, q) \in q .. Len(out)
          /\ \A j \in q + 1 .. BodyEnd(out, q) : ~Opens(out[j])
      BY <1>4, <2>1, BodyEndIs
    <3>2. Opens(out[b + 1])
      BY <1>4 DEF Opens
    <3>3. ~(b + 1 <= BodyEnd(out, q))
      <4> SUFFICES ASSUME b + 1 <= BodyEnd(out, q) PROVE FALSE
        OBVIOUS
      <4>1. b + 1 \in q + 1 .. BodyEnd(out, q)
        BY <1>4, <1>5, <2>1, <3>1
      <4> QED BY <3>1, <3>2, <4>1
    <3> HIDE DEF b
    <3> QED BY <1>5, <3>1, <3>3
  <2>4. \/ BodyEnd(out, q) < b
        \/ BodyEnd(out, q) = b /\ (b < Len(text) => Opens(text[b + 1]))
    <3> HIDE DEF b
    <3> QED BY <1>5, <2>3
  <2>5. b <= Len(out) /\ b <= Len(text) /\ \A k2 \in 1 .. b : out[k2] = text[k2]
    BY <1>4, <1>5
  <2> HIDE DEF b, out
  <2> QED BY <1>4, <1>5, <2>1, <2>2, <2>4, <2>5, FromStays
<1>9. ASSUME Plain(lines), NEW line, Governs(lines, t.at, line)
      PROVE  Over(text, Len(text) + 1, line)
  BY <1>3, <1>9
<1>10. ~(t.headers > 0)
  BY <1>1
<1>11. t.at <= Len(lines) => Opens(lines[t.at])
  BY <1>2
<1>12. text = t.out
  BY DEF text
<1>13. Whole(lines, t)
  BY <1>2, <1>6, <1>7, <1>8, <1>9, <1>10, <1>11, <1>12 DEF Whole
<1> QED BY <1>5, <1>12, <1>13

(* A turn that keeps a hunk keeps what is out whole, that hunk included.   *)
LEMMA KeepIsWhole ==
    ASSUME NEW lines, IsText(lines), NEW s, Whole(lines, s), s.at \in 1 .. Len(lines),
           NEW t, IsState(t), KeepsHunk(s, t, lines)
    PROVE  /\ Whole(lines, t)
           /\ \A q \in Hunks(s.out) : q \in Hunks(t.out) /\ t.out[q] = s.out[q]
           /\ Len(s.out) + 1 \in Hunks(t.out)
           /\ t.out[Len(s.out) + 1] = Recounted(lines, s.at)
<1> DEFINE i == s.at
           out == s.out
           m == Len(out)
           text == t.out
           kept == KeepHunkLines(HunkAt(lines, i))
           fixed == Recounted(lines, i)
<1>1. /\ lines[i].kind = "hunk" /\ t.headers = 0 /\ t.at = BodyEnd(lines, i) + 1
      /\ Survives(lines, i)
  BY DEF KeepsHunk
<1>2. t.at \in 1 .. Len(lines) + 1 /\ (t.at <= Len(lines) => Opens(lines[t.at]))
  BY <1>1, AfterHunk
<1>3. i \in Hunks(lines) /\ IsLine(lines[i])
  BY <1>1, ListPlaces DEF Hunks, IsText
<1>4. fixed.kind = "hunk" /\ IsLine(fixed)
  BY <1>1, <1>3, RecountedIs
<1>5. IsText(kept) /\ \A j \in 1 .. Len(kept) : IsHunkBody(kept[j])
  BY BodyIsText, KeptLines
<1>6. PICK u : /\ IsText(u) /\ Len(u) = Len(kept) + 1 /\ u[1] = fixed
               /\ \A j \in 1 .. Len(kept) : u[j + 1] = kept[j]
               /\ text = out \o u
  <2>1. IsState(s)
    BY DEF Whole
  <2>2. Keeps(s, t, lines)
    BY <2>1, TurnKeeps
  <2> QED BY <2>2 DEF Keeps
<1> HIDE DEF kept, fixed, text
<1>7. Len(kept) \in Nat /\ DOMAIN kept = 1 .. Len(kept) /\ Len(u) \in Nat /\ Len(u) >= 1
      /\ IsText(out) /\ m \in Nat /\ DOMAIN out = 1 .. m
  BY <1>5, <1>6, ListPlaces DEF IsText, Whole
<1>8. /\ IsText(out \o u) /\ Len(out \o u) = Len(out) + Len(u)
      /\ \A j \in 1 .. Len(out) : (out \o u)[j] = out[j]
      /\ \A j \in 1 .. Len(u) : (out \o u)[Len(out) + j] = u[j]
      /\ \A q \in Hunks(out) :
            /\ q \in Hunks(out \o u) /\ BodyEnd(out \o u, q) = BodyEnd(out, q)
            /\ BodyEnd(out, q) < Len(out \o u)
            /\ \A other, k : From(other, k, out, q) => From(other, k, out \o u, q)
  <2>1. Opens(u[1])
    BY <1>4, <1>6 DEF Opens
  <2> HIDE DEF out
  <2> QED BY <1>6, <1>7, <2>1, GrownText
<1>9. /\ IsText(text) /\ Len(text) = m + Len(kept) + 1 /\ DOMAIN text = 1 .. Len(text)
      /\ IsList(text)
  <2>1. IsText(text)
    BY <1>6, <1>8
  <2>2. Len(text) = m + Len(kept) + 1
    <3>1. Len(text) = m + Len(u) /\ Len(u) = Len(kept) + 1
      BY <1>6, <1>8
    <3> HIDE DEF m
    <3> QED BY <1>7, <3>1
  <2> QED BY <2>1, <2>2, ListPlaces DEF IsText
<1>10. text[m + 1] = fixed
  <2> DEFINE one == 1
  <2>1. one \in 1 .. Len(u)
    BY <1>7
  <2> HIDE DEF one
  <2>2. text[Len(out) + one] = u[one]
    BY <1>6, <1>8, <2>1
  <2> QED BY <1>6, <2>2 DEF one
<1>11. \A j \in 1 .. Len(kept) : text[m + 1 + j] = kept[j]
  <2> TAKE j \in 1 .. Len(kept)
  <2> DEFINE k == j + 1
  <2>1. k \in 1 .. Len(u) /\ m + k = m + 1 + j
    <3>1. Len(u) = Len(kept) + 1
      BY <1>6
    <3> HIDE DEF m
    <3> QED BY <1>7, <3>1
  <2>2. u[k] = kept[j]
    BY <1>6
  <2> HIDE DEF k
  <2>3. text[Len(out) + k] = u[k]
    BY <1>6, <1>8, <2>1
  <2> QED BY <2>1, <2>2, <2>3
<1>12. ASSUME NEW p \in m + 2 .. Len(text) PROVE IsHunkBody(text[p])
  <2> DEFINE j == p - m - 1
  <2>1. j \in 1 .. Len(kept) /\ m + 1 + j = p
    <3>1. Len(text) = m + Len(kept) + 1
      BY <1>9
    <3> HIDE DEF m
    <3> QED BY <1>7, <3>1
  <2> HIDE DEF j
  <2>2. text[p] = kept[j]
    BY <1>11, <2>1
  <2> QED BY <1>5, <2>1, <2>2
<1>13. \A p \in 1 .. Len(text) : p \in 1 .. m \/ p = m + 1 \/ p \in m + 2 .. Len(text)
  BY <1>7, <1>9
<1>14. \A p \in 1 .. Len(text) : text[p].kind # "fence"
  <2> TAKE p \in 1 .. Len(text)
  <2>1. CASE p \in 1 .. m
    BY <1>6, <1>8, <2>1 DEF Whole
  <2>2. CASE p = m + 1
    BY <1>4, <1>10, <2>2
  <2>3. CASE p \in m + 2 .. Len(text)
    BY <1>12, <2>3 DEF IsHunkBody
  <2> QED BY <1>13, <2>1, <2>2, <2>3
<1>15. BodyEnd(text, m + 1) = Len(text)
  <2>1. m + 1 \in 1 .. Len(text) /\ Len(text) \in m + 1 .. Len(text)
        /\ \A j \in m + 1 + 1 .. Len(text) : j \in m + 2 .. Len(text)
    BY <1>7, <1>9
  <2>2. \A j \in m + 1 + 1 .. Len(text) : ~Opens(text[j])
    BY <1>12, <2>1 DEF IsHunkBody, Opens
  <2>3. ~(Len(text) < Len(text))
    BY <1>7, <1>9
  <2> DEFINE q == m + 1
             e == Len(text)
  <2> HIDE DEF m
  <2> QED BY <1>9, <2>1, <2>2, <2>3, BodyEndAt
<1>16. HunkAt(text, m + 1) = kept
  <2> DEFINE q == m + 1
             body == HunkAt(text, q)
  <2>1. q \in 1 .. Len(text) /\ BodyEnd(text, q) - q = Len(kept)
    BY <1>7, <1>9, <1>15
  <2>2. /\ IsList(body) /\ Len(body) = Len(kept)
        /\ \A j \in 1 .. Len(kept) : body[j] = text[q + j]
    BY <1>9, <2>1, HunkAtIs
  <2> HIDE DEF body
  <2>3. \A j \in 1 .. Len(kept) : body[j] = kept[j]
    BY <1>11, <2>2
  <2>4. body = kept
    BY <1>5, <2>2, <2>3, SameList DEF IsText
  <2> QED BY <2>4 DEF body
<1>17. ASSUME Plain(lines), NEW line, Governs(lines, i, line)
       PROVE  Over(text, m + 1, line) /\ Over(text, Len(text) + 1, line)
  <2>1. Over(out, m + 1, line)
    BY <1>17 DEF Whole
  <2>2. PICK h \in 1 .. m : /\ out[h].kind = "new" /\ out[h] = line
                            /\ \A j \in h + 1 .. m : out[j].kind # "new"
    <3>1. m + 1 - 1 = m
      BY <1>7
    <3> QED BY <2>1, <3>1 DEF Over
  <2>3. \A j \in 1 .. m : text[j] = out[j]
    BY <1>6, <1>8
  <2>4. \A j \in h + 1 .. m : j \in 1 .. m
    BY <1>7
  <2>5. Over(text, m + 1, line)
    <3>1. m + 1 - 1 = m
      BY <1>7
    <3> QED BY <2>2, <2>3, <2>4, <3>1 DEF Over
  <2>6. \A j \in h + 1 .. Len(text) : text[j].kind # "new"
    <3> TAKE j \in h + 1 .. Len(text)
    <3>1. CASE j \in 1 .. m
      <4>1. j \in h + 1 .. m
        BY <1>7, <3>1
      <4> QED BY <2>2, <2>3, <3>1, <4>1
    <3>2. CASE j = m + 1
      BY <1>4, <1>10, <3>2
    <3>3. CASE j \in m + 2 .. Len(text)
      BY <1>12, <3>3 DEF IsHunkBody
    <3>4. j \in 1 .. Len(text)
      BY <1>9
    <3> QED BY <1>13, <3>1, <3>2, <3>3, <3>4
  <2>7. h \in 1 .. Len(text) + 1 - 1 /\ Len(text) + 1 - 1 = Len(text)
    BY <1>7, <1>9
  <2> QED BY <2>2, <2>3, <2>5, <2>6, <2>7 DEF Over
<1>18. From(lines, i, text, m + 1)
  BY <1>1, <1>10, <1>16, <1>17 DEF From, fixed, kept
<1>19. ASSUME NEW q \in Hunks(text) PROVE \E k \in Hunks(lines) : From(lines, k, text, q)
  <2>1. q \in 1 .. Len(text) /\ text[q].kind = "hunk"
    BY <1>9 DEF Hunks
  <2>2. CASE q \in 1 .. m
    <3>1. q \in Hunks(out)
      BY <1>6, <1>7, <1>8, <2>1, <2>2 DEF Hunks
    <3>2. PICK k \in Hunks(lines) : From(lines, k, out, q)
      BY <3>1 DEF Whole
    <3> QED BY <1>6, <1>8, <3>1, <3>2
  <2>3. CASE q = m + 1
    BY <1>3, <1>18, <2>3
  <2>4. CASE q \in m + 2 .. Len(text)
    BY <1>12, <2>1, <2>4 DEF IsHunkBody
  <2> QED BY <1>13, <2>1, <2>2, <2>3, <2>4
<1>20. Plain(lines) => \A line : Governs(lines, t.at, line) => Over(text, Len(text) + 1, line)
  BY <1>1, <1>17, AfterHunk
<1>21. Whole(lines, t)
  BY <1>1, <1>2, <1>9, <1>14, <1>19, <1>20 DEF Whole, text
<1>22. \A q \in Hunks(out) : q \in Hunks(text) /\ text[q] = out[q]
  BY <1>6, <1>7, <1>8 DEF Hunks
<1>23. m + 1 \in Hunks(text)
  BY <1>4, <1>7, <1>9, <1>10 DEF Hunks
<1> QED BY <1>10, <1>21, <1>22, <1>23 DEF text, fixed

(* No hunk that survives is lost.                                          *)
Recovered(lines, s) ==
    \A i \in Hunks(lines) :
       i < s.at /\ Survives(lines, i) => \E q \in Hunks(s.out) : s.out[q].hunk = lines[i].hunk

(* Every turn keeps what is out whole and recovers the hunks it passed.    *)
LEMMA TurnIsWhole ==
    ASSUME NEW lines, IsText(lines), NEW s, Whole(lines, s), Recovered(lines, s),
           s.at \in 1 .. Len(lines), NEW t, t = ScanStep(s, lines)
    PROVE  Whole(lines, t) /\ Recovered(lines, t) /\ t.at > s.at
<1>1. IsState(t) /\ Turns(s, t, lines)
  BY ScanTurns DEF Whole
<1>2. CASE SkipsFence(s, t, lines)
  <2>1. Whole(lines, t)
    BY <1>1, <1>2, FenceIsWhole
  <2>2. t.at > s.at
    BY <1>2 DEF SkipsFence
  <2>3. \A k \in Hunks(lines) : k < t.at => k < s.at
    <3> TAKE k \in Hunks(lines)
    <3>1. k # s.at /\ t.at = s.at + 1 /\ k \in Int
      BY <1>2, ListPlaces DEF SkipsFence, Hunks, IsText
    <3> QED BY <3>1
  <2>4. Recovered(lines, t)
    BY <1>2, <2>3 DEF SkipsFence, Recovered
  <2> QED BY <2>1, <2>2, <2>4
<1>3. CASE CopiesHeaders(s, t, lines) \/ CopiesLine(s, t, lines)
  <2>1. Copies(s, t, lines)
    BY <1>3, TurnCopies DEF Whole
  <2>2. /\ Whole(lines, t) /\ t.at > s.at
        /\ \A q \in Hunks(s.out) : q \in Hunks(t.out) /\ t.out[q] = s.out[q]
        /\ \A k \in Hunks(lines) : k < t.at => k < s.at
    BY <1>1, <2>1, CopiesIsWhole
  <2>3. Recovered(lines, t)
    <3> SUFFICES ASSUME NEW i \in Hunks(lines), i < t.at, Survives(lines, i)
                 PROVE  \E q \in Hunks(t.out) : t.out[q].hunk = lines[i].hunk
      BY DEF Recovered
    <3>1. PICK q \in Hunks(s.out) : s.out[q].hunk = lines[i].hunk
      BY <2>2 DEF Recovered
    <3> QED BY <2>2, <3>1
  <2> QED BY <2>2, <2>3
<1>4. CASE KeepsHunk(s, t, lines) \/ CutsHeaders(s, t, lines) \/ DropsHunk(s, t, lines)
  <2>1. lines[s.at].kind = "hunk" /\ t.at = BodyEnd(lines, s.at) + 1
    BY <1>4 DEF KeepsHunk, CutsHeaders, DropsHunk
  <2>2. t.at > s.at /\ \A k \in Hunks(lines) : k < t.at => k <= s.at
    BY <2>1, AfterHunk
  <2>3. CASE KeepsHunk(s, t, lines)
    <3>1. /\ Whole(lines, t)
          /\ \A q \in Hunks(s.out) : q \in Hunks(t.out) /\ t.out[q] = s.out[q]
          /\ Len(s.out) + 1 \in Hunks(t.out)
          /\ t.out[Len(s.out) + 1] = Recounted(lines, s.at)
      BY <1>1, <2>3, KeepIsWhole
    <3>2. Recounted(lines, s.at).hunk = lines[s.at].hunk
      BY RecountedIs, ListPlaces DEF IsText
    <3>3. Recovered(lines, t)
      <4> SUFFICES ASSUME NEW i \in Hunks(lines), i < t.at, Survives(lines, i)
                   PROVE  \E q \in Hunks(t.out) : t.out[q].hunk = lines[i].hunk
        BY DEF Recovered
      <4>1. CASE i = s.at
        BY <3>1, <3>2, <4>1
      <4>2. CASE i < s.at
        <5>1. PICK q \in Hunks(s.out) : s.out[q].hunk = lines[i].hunk
          BY <4>2 DEF Recovered
        <5> QED BY <3>1, <5>1
      <4>3. i = s.at \/ i < s.at
        <5>1. i \in Int /\ i <= s.at
          BY <2>2, ListPlaces DEF Hunks, IsText
        <5> QED BY <5>1
      <4> QED BY <4>1, <4>2, <4>3
    <3> QED BY <2>2, <3>1, <3>3
  <2>4. CASE CutsHeaders(s, t, lines) \/ DropsHunk(s, t, lines)
    <3>1. ~Survives(lines, s.at)
      BY <2>4 DEF CutsHeaders, DropsHunk
    <3>2. /\ Whole(lines, t)
          /\ \A q \in Hunks(s.out) : q \in Hunks(t.out) /\ t.out[q] = s.out[q]
      <4>1. CASE CutsHeaders(s, t, lines)
        <5>1. /\ Whole(lines, t) /\ Len(t.out) = s.headers - 1
              /\ \A k \in 1 .. Len(t.out) : t.out[k] = s.out[k]
          BY <1>1, <4>1, CutIsWhole
        <5>2. s.headers > 0
          BY <4>1 DEF CutsHeaders
        <5>3. ASSUME NEW q \in Hunks(s.out) PROVE q \in Hunks(t.out) /\ t.out[q] = s.out[q]
          <6>1. q \in 1 .. Len(s.out) /\ s.out[q].kind = "hunk" /\ s.headers \in 0 .. Len(s.out)
                /\ Len(s.out) \in Nat
            BY ListPlaces DEF Hunks, Whole, IsState
          <6>2. q # s.headers /\ q \notin s.headers + 1 .. Len(s.out)
            BY <5>2, <6>1 DEF Whole
          <6>3. q \in 1 .. Len(t.out)
            BY <5>1, <6>1, <6>2
          <6> QED BY <5>1, <6>1, <6>3, ListPlaces DEF Hunks, Whole, IsText
        <5> QED BY <5>1, <5>3
      <4>2. CASE DropsHunk(s, t, lines)
        <5>1. Whole(lines, t)
          BY <1>1, <4>2, DropIsWhole
        <5> QED BY <4>2, <5>1 DEF DropsHunk
      <4> QED BY <2>4, <4>1, <4>2
    <3>3. Recovered(lines, t)
      <4> SUFFICES ASSUME NEW i \in Hunks(lines), i < t.at, Survives(lines, i)
                   PROVE  \E q \in Hunks(t.out) : t.out[q].hunk = lines[i].hunk
        BY DEF Recovered
      <4>1. i < s.at
        <5>1. i \in Int /\ i <= s.at /\ i # s.at
          BY <2>2, <3>1, ListPlaces DEF Hunks, IsText
        <5> QED BY <5>1
      <4>2. PICK q \in Hunks(s.out) : s.out[q].hunk = lines[i].hunk
        BY <4>1 DEF Recovered
      <4> QED BY <3>2, <4>2
    <3> QED BY <2>2, <3>2, <3>3
  <2> QED BY <1>4, <2>3, <2>4
<1> QED BY <1>1, <1>2, <1>3, <1>4 DEF Turns

(* Nothing is out at the start, which is whole.                            *)
LEMMA StartIsWhole ==
    ASSUME NEW lines, IsText(lines) PROVE Whole(lines, ScanStart) /\ Recovered(lines, ScanStart)
<1> DEFINE s == ScanStart
<1>1. s.out = <<>> /\ s.headers = 0 /\ s.at = 1
      /\ s = [out |-> s.out, headers |-> s.headers, at |-> s.at]
  BY DEF ScanStart
<1>2. IsList(<<>>) /\ Len(<<>>) = 0 /\ DOMAIN <<>> = {}
  BY DEF IsList
<1>3. Len(lines) \in Nat /\ DOMAIN lines = 1 .. Len(lines)
  BY ListPlaces DEF IsText
<1> HIDE DEF s
<1>4. IsState(s) /\ IsText(s.out) /\ s.at \in 1 .. Len(lines) + 1
  BY <1>1, <1>2, <1>3 DEF IsState, IsText
<1>5. Hunks(s.out) = {} /\ \A q \in 1 .. Len(s.out) : FALSE
  BY <1>1, <1>2 DEF Hunks
<1>6. \A line : ~Governs(lines, s.at, line)
  BY <1>1 DEF Governs
<1>7. Whole(lines, s)
  BY <1>1, <1>4, <1>5, <1>6 DEF Whole
<1>8. Recovered(lines, s)
  BY <1>1, <1>3 DEF Recovered, Hunks
<1> QED BY <1>7, <1>8 DEF s

(* A text with a hunk, normalized: every hunk of it whole, none lost.      *)
LEMMA NormalizedIsWhole ==
    ASSUME NEW lines, IsText(lines), Hunks(lines) # {}
    PROVE  \E s : /\ s.out = NormalizeUnifiedDiff(lines) /\ s.at = Len(lines) + 1
                  /\ Whole(lines, s) /\ Recovered(lines, s)
<1> DEFINE n == Len(lines)
<1>1. PICK turn :
        /\ turn[0] = ScanStart
        /\ \A k \in 0 .. n - 1 : turn[k + 1] = ScanStep(turn[k], lines)
        /\ NormalizeUnifiedDiff(lines) =
              IF Hunks(lines) # {} THEN turn[n].out ELSE lines
  BY NormalizedIs DEF IsText
<1> DEFINE S == {k \in 0 .. n : /\ Whole(lines, turn[k]) /\ Recovered(lines, turn[k])
                                /\ turn[k].at >= k + 1 \/ turn[k].at = n + 1}
<1>2. n \in Nat
  BY ListPlaces DEF IsText
<1>3. 0 \in S
  <2>1. ScanStart.at >= 0 + 1
    BY DEF ScanStart
  <2>2. Whole(lines, ScanStart) /\ Recovered(lines, ScanStart)
    BY StartIsWhole
  <2> QED BY <1>1, <1>2, <2>1, <2>2
<1>4. ASSUME NEW k \in 0 .. n - 1, k \in S PROVE k + 1 \in S
  <2> DEFINE s == turn[k]
             t == turn[k + 1]
  <2>1. t = ScanStep(s, lines)
    BY <1>1
  <2>2. /\ Whole(lines, s) /\ Recovered(lines, s)
        /\ s.at >= k + 1 \/ s.at = n + 1
        /\ s.at \in 1 .. n + 1
    BY <1>4 DEF Whole
  <2> HIDE DEF s, t
  <2>3. ASSUME s.at \in 1 .. n
        PROVE  Whole(lines, t) /\ Recovered(lines, t) /\ (t.at >= k + 1 + 1 \/ t.at = n + 1)
    <3>1. Whole(lines, t) /\ Recovered(lines, t) /\ t.at > s.at
      BY <2>1, <2>2, <2>3, TurnIsWhole
    <3>2. t.at \in Int
      BY <1>2, <3>1 DEF Whole
    <3>3. t.at >= k + 1 + 1
      BY <1>2, <2>2, <2>3, <3>1, <3>2
    <3> QED BY <3>1, <3>3
  <2>4. ASSUME s.at = n + 1
        PROVE  Whole(lines, t) /\ Recovered(lines, t) /\ (t.at >= k + 1 + 1 \/ t.at = n + 1)
    <3>1. t = s
      BY <1>2, <2>1, <2>4 DEF ScanStep
    <3> QED BY <2>2, <2>4, <3>1
  <2>5. k + 1 \in 0 .. n
    BY <1>2
  <2>6. s.at \in 1 .. n \/ s.at = n + 1
    BY <1>2, <2>2
  <2> QED BY <2>3, <2>4, <2>5, <2>6 DEF t
<1>5. \A k \in 0 .. n : k \in S
  <2> HIDE DEF S, n
  <2> QED BY <1>2, <1>3, <1>4, CountsUp
<1>6. n \in S
  BY <1>2, <1>5
<1>7. Whole(lines, turn[n]) /\ Recovered(lines, turn[n])
      /\ (turn[n].at >= n + 1 \/ turn[n].at = n + 1)
  BY <1>6
<1>8. turn[n].at = n + 1
  <2>1. turn[n].at \in 1 .. n + 1
    BY <1>7 DEF Whole
  <2> QED BY <1>2, <1>7, <2>1
<1> QED BY <1>1, <1>7, <1>8

(***************************************************************************)
(* Preparing again: a loaded file is settled, and a settled file stays.    *)
(***************************************************************************)

(* A text there is nothing left to repair in.                              *)
Settled(text) ==
    /\ IsText(text)
    /\ \A q \in 1 .. Len(text) : text[q].kind # "fence"
    /\ \A q \in Hunks(text) :
          LET body == HunkAt(text, q)
          IN  /\ \A j \in DOMAIN body : IsHunkBody(body[j])
              /\ ~(OldCount(body) = 0 /\ NewCount(body) = 0)
              /\ text[q].old = OldCount(body) /\ text[q].new = NewCount(body)

(* A whole text is settled.                                                *)
LEMMA WholeIsSettled ==
    ASSUME NEW lines, IsText(lines), NEW s, Whole(lines, s)
    PROVE  Settled(s.out)
<1> DEFINE out == s.out
<1>1. ASSUME NEW q \in Hunks(out)
      PROVE  LET body == HunkAt(out, q)
             IN  /\ \A j \in DOMAIN body : IsHunkBody(body[j])
                 /\ ~(OldCount(body) = 0 /\ NewCount(body) = 0)
                 /\ out[q].old = OldCount(body) /\ out[q].new = NewCount(body)
  <2>1. PICK i \in Hunks(lines) : From(lines, i, out, q)
    BY DEF Whole
  <2>2. i \in 1 .. Len(lines) /\ IsLine(lines[i])
    BY ListPlaces DEF Hunks, IsText
  <2> DEFINE kept == KeepHunkLines(HunkAt(lines, i))
  <2>3. HunkAt(out, q) = kept /\ out[q] = Recounted(lines, i)
        /\ ~(OldCount(kept) = 0 /\ NewCount(kept) = 0)
    BY <2>1 DEF From, Survives
  <2>4. Recounted(lines, i).old = OldCount(kept) /\ Recounted(lines, i).new = NewCount(kept)
    BY <2>2, RecountedIs
  <2>5. IsText(kept) /\ \A j \in 1 .. Len(kept) : IsHunkBody(kept[j])
    BY <2>2, BodyIsText, KeptLines
  <2> HIDE DEF kept
  <2>6. \A j \in DOMAIN kept : IsHunkBody(kept[j])
    BY <2>5, ListPlaces DEF IsText
  <2> QED BY <2>3, <2>4, <2>6
<1> QED BY <1>1 DEF Whole, Settled

(* A scan over a settled text copies it.                                   *)
Copied(text, s) ==
    /\ IsState(s) /\ s.at \in 1 .. Len(text) + 1 /\ Len(s.out) = s.at - 1
    /\ \A k \in 1 .. s.at - 1 : s.out[k] = text[k]

(* Arithmetic of a place behind what is out.                               *)
LEMMA Shifted ==
    ASSUME NEW i \in Nat, NEW m, m = i - 1, NEW n \in Nat, NEW k \in 1 .. i + n - 1,
           k \notin 1 .. m
    PROVE  k - m \in 1 .. n /\ m + (k - m) = k /\ i + (k - m) - 1 = k
OBVIOUS

(* Every turn over a settled text copies it.                               *)
LEMMA SettledTurn ==
    ASSUME NEW text, Settled(text), NEW s, Copied(text, s), s.at \in 1 .. Len(text),
           NEW t, t = ScanStep(s, text)
    PROVE  Copied(text, t) /\ t.at > s.at
<1> DEFINE i == s.at
           out == s.out
<1>1. IsState(t) /\ Turns(s, t, text) /\ IsText(text)
  BY ScanTurns DEF Settled, Copied
<1>2. /\ Len(text) \in Nat /\ DOMAIN text = 1 .. Len(text) /\ IsList(out) /\ Len(out) = i - 1
      /\ \A k \in 1 .. i - 1 : out[k] = text[k]
  BY <1>1, ListPlaces DEF IsText, Copied, IsState
<1>3. ASSUME NEW u, IsList(u), Len(u) >= 1, t.out = out \o u, t.at = i + Len(u),
             i + Len(u) - 1 <= Len(text), \A j \in 1 .. Len(u) : u[j] = text[i + j - 1]
      PROVE  Copied(text, t) /\ t.at > i
  <2>1. /\ Len(out \o u) = Len(out) + Len(u)
        /\ \A j \in 1 .. Len(out) : (out \o u)[j] = out[j]
        /\ \A j \in 1 .. Len(u) : (out \o u)[Len(out) + j] = u[j]
    <3> HIDE DEF out
    <3>1. IsList(out) /\ IsList(u)
      BY <1>2, <1>3
    <3>2. Len(out \o u) = Len(out) + Len(u) /\ \A j \in 1 .. Len(out) : (out \o u)[j] = out[j]
      BY <3>1, JoinedList
    <3>3. \A j \in 1 .. Len(u) : (out \o u)[Len(out) + j] = u[j]
      BY <3>1, JoinedList
    <3> QED BY <3>2, <3>3
  <2>2. Len(u) \in Nat
    BY <1>3, ListPlaces
  <2> DEFINE n == Len(u)
             m == Len(out)
  <2>3. /\ n \in Nat /\ n >= 1 /\ m = i - 1 /\ t.at = i + n /\ i + n - 1 <= Len(text)
        /\ Len(t.out) = m + n /\ i \in 1 .. Len(text)
    BY <1>2, <1>3, <2>1, <2>2
  <2>4. ASSUME NEW k \in 1 .. i + n - 1 PROVE t.out[k] = text[k]
    <3>1. CASE k \in 1 .. m
      <4>1. k \in 1 .. i - 1
        BY <2>3, <3>1
      <4> QED BY <1>2, <1>3, <2>1, <3>1, <4>1
    <3>2. CASE k \notin 1 .. m
      <4>4. n \in Nat /\ m = i - 1 /\ i \in Nat /\ k \in 1 .. i + n - 1 /\ k \notin 1 .. m
        BY <1>2, <2>3, <3>2
      <4> HIDE DEF n, m
      <4>1. PICK j : j \in 1 .. n /\ m + j = k /\ i + j - 1 = k
        <5>1. k - m \in 1 .. n /\ m + (k - m) = k /\ i + (k - m) - 1 = k
          BY <4>4, Shifted
        <5> QED BY <5>1
      <4>2. (out \o u)[m + j] = u[j] /\ u[j] = text[i + j - 1]
        BY <1>3, <2>1, <4>1 DEF n, m
      <4> QED BY <1>3, <4>1, <4>2
    <3> QED BY <3>1, <3>2
  <2> HIDE DEF n, m
  <2>5. t.at \in 1 .. Len(text) + 1 /\ Len(t.out) = t.at - 1 /\ t.at - 1 = i + n - 1 /\ t.at > i
    BY <1>2, <2>3
  <2> QED BY <1>1, <2>4, <2>5 DEF Copied
<1>4. ~SkipsFence(s, t, text)
  BY DEF SkipsFence, Settled
<1>5. CASE CopiesHeaders(s, t, text) \/ CopiesLine(s, t, text)
  <2>1. Copies(s, t, text)
    BY <1>1, <1>5, TurnCopies DEF Copied
  <2>2. PICK u : /\ IsList(u) /\ Len(u) \in 1 .. 2 /\ i + Len(u) - 1 <= Len(text)
                 /\ \A j \in 1 .. Len(u) : u[j] = text[i + j - 1]
                 /\ t.out = out \o u /\ t.at = i + Len(u)
    BY <2>1 DEF Copies
  <2>3. Len(u) >= 1
    <3>1. PICK n \in 1 .. 2 : Len(u) = n
      BY <2>2
    <3>2. n >= 1
      OBVIOUS
    <3> QED BY <3>1, <3>2
  <2> QED BY <1>3, <2>2, <2>3
<1>6. CASE text[i].kind = "hunk"
  <2> DEFINE body == HunkAt(text, i)
             kept == KeepHunkLines(body)
  <2>1. i \in Hunks(text)
    BY <1>2, <1>6 DEF Hunks
  <2>2. /\ \A j \in DOMAIN body : IsHunkBody(body[j])
        /\ ~(OldCount(body) = 0 /\ NewCount(body) = 0)
        /\ text[i].old = OldCount(body) /\ text[i].new = NewCount(body)
    BY <2>1 DEF Settled
  <2>3. IsText(body) /\ Len(body) = BodyEnd(text, i) - i
        /\ \A j \in 1 .. BodyEnd(text, i) - i : body[j] = text[i + j]
    BY <1>1, <1>2, BodyIsText, HunkAtIs DEF IsText
  <2> HIDE DEF body
  <2>4. kept = body
    BY <2>2, <2>3, HunkIsKept DEF IsText
  <2>5. Survives(text, i)
    BY <2>2, <2>4 DEF Survives, body
  <2>6. KeepsHunk(s, t, text)
    BY <1>1, <1>6, <2>5
       DEF Turns, SkipsFence, CopiesHeaders, CopiesLine, CutsHeaders, DropsHunk
  <2>7. PICK u : /\ IsText(u) /\ Len(u) = Len(kept) + 1 /\ u[1] = Recounted(text, i)
                 /\ \A j \in 1 .. Len(kept) : u[j + 1] = kept[j]
                 /\ t.out = out \o u
    <3>1. Keeps(s, t, text)
      BY <1>1, <2>6, TurnKeeps DEF Copied
    <3> QED BY <3>1 DEF Keeps, body
  <2>8. Recounted(text, i) = text[i]
    <3> DEFINE line == text[i]
               o == OldCount(body)
               n == NewCount(body)
    <3>1. Recounted(text, i) = [line EXCEPT !.old = o, !.new = n]
      BY <2>4 DEF Recounted, body
    <3>2. IsLine(line) /\ line.old = o /\ line.new = n
      BY <1>1, <1>2, <2>2 DEF IsText
    <3> HIDE DEF line, o, n
    <3>3. [line EXCEPT !.old = o, !.new = n] = line
      BY <3>2 DEF IsLine
    <3> QED BY <3>1, <3>3 DEF line
  <2>9. t.at = BodyEnd(text, i) + 1 /\ BodyEnd(text, i) \in i .. Len(text)
    BY <1>1, <2>6, BodyEndIs DEF KeepsHunk, IsText
  <2> DEFINE b == BodyEnd(text, i)
  <2> HIDE DEF kept, b
  <2>10. Len(u) = b - i + 1 /\ b \in i .. Len(text) /\ t.at = b + 1
    BY <2>3, <2>4, <2>7, <2>9 DEF b
  <2>11. Len(u) >= 1 /\ i + Len(u) - 1 <= Len(text) /\ t.at = i + Len(u) /\ IsList(u)
    BY <1>2, <2>7, <2>10 DEF IsText
  <2>12. \A j \in 1 .. Len(u) : u[j] = text[i + j - 1]
    <3> TAKE j \in 1 .. Len(u)
    <3>1. CASE j = 1
      <4>1. i + j - 1 = i
        BY <3>1
      <4> QED BY <2>7, <2>8, <3>1, <4>1
    <3>2. CASE j # 1
      <4> DEFINE k == j - 1
      <4>1. k \in 1 .. b - i /\ k + 1 = j /\ i + k = i + j - 1
        BY <1>2, <2>10, <3>2
      <4> HIDE DEF k
      <4>2. kept[k] = text[i + k] /\ Len(kept) = b - i
        BY <2>3, <2>4, <4>1 DEF b
      <4>3. u[k + 1] = kept[k]
        BY <2>7, <4>1, <4>2
      <4> QED BY <4>1, <4>2, <4>3
    <3> QED BY <3>1, <3>2
  <2> QED BY <1>3, <2>7, <2>11, <2>12
<1>7. text[i].kind # "hunk" => CopiesHeaders(s, t, text) \/ CopiesLine(s, t, text)
  BY <1>1, <1>4 DEF Turns, KeepsHunk, CutsHeaders, DropsHunk
<1> QED BY <1>5, <1>6, <1>7

(* Normalising a settled text changes nothing.                             *)
LEMMA SettledIsNormalized ==
    ASSUME NEW text, Settled(text)
    PROVE  NormalizeUnifiedDiff(text) = text
<1> DEFINE n == Len(text)
<1>1. PICK turn :
        /\ turn[0] = ScanStart
        /\ \A k \in 0 .. n - 1 : turn[k + 1] = ScanStep(turn[k], text)
        /\ NormalizeUnifiedDiff(text) =
              IF Hunks(text) # {} THEN turn[n].out ELSE text
  BY NormalizedIs DEF IsText, Settled
<1> DEFINE S == {k \in 0 .. n : /\ Copied(text, turn[k])
                                /\ turn[k].at >= k + 1 \/ turn[k].at = n + 1}
<1>2. n \in Nat /\ IsList(text) /\ IsText(text)
  BY ListPlaces DEF IsText, Settled
<1>3. 0 \in S
  <2>1. ScanStart.at >= 0 + 1 /\ ScanStart.at = 1 /\ ScanStart.out = <<>>
    BY DEF ScanStart
  <2>2. IsState(ScanStart)
    BY <1>2, StartIsWhole DEF Whole
  <2>3. Len(<<>>) = 1 - 1 /\ \A k \in 1 .. 1 - 1 : FALSE
    OBVIOUS
  <2>4. Copied(text, ScanStart)
    BY <1>2, <2>1, <2>2, <2>3 DEF Copied
  <2> QED BY <1>1, <1>2, <2>1, <2>4
<1>4. ASSUME NEW k \in 0 .. n - 1, k \in S PROVE k + 1 \in S
  <2> DEFINE s == turn[k]
             t == turn[k + 1]
  <2>1. t = ScanStep(s, text)
    BY <1>1
  <2>2. /\ Copied(text, s)
        /\ s.at >= k + 1 \/ s.at = n + 1
        /\ s.at \in 1 .. n + 1
    BY <1>4 DEF Copied
  <2> HIDE DEF s, t
  <2>3. ASSUME s.at \in 1 .. n
        PROVE  Copied(text, t) /\ (t.at >= k + 1 + 1 \/ t.at = n + 1)
    <3>1. Copied(text, t) /\ t.at > s.at
      BY <2>1, <2>2, <2>3, SettledTurn
    <3>2. t.at \in Int
      BY <1>2, <3>1 DEF Copied
    <3>3. t.at >= k + 1 + 1
      BY <1>2, <2>2, <2>3, <3>1, <3>2
    <3> QED BY <3>1, <3>3
  <2>4. ASSUME s.at = n + 1
        PROVE  Copied(text, t) /\ (t.at >= k + 1 + 1 \/ t.at = n + 1)
    <3>1. t = s
      BY <1>2, <2>1, <2>4 DEF ScanStep
    <3> QED BY <2>2, <2>4, <3>1
  <2>5. k + 1 \in 0 .. n
    BY <1>2
  <2>6. s.at \in 1 .. n \/ s.at = n + 1
    BY <1>2, <2>2
  <2> QED BY <2>3, <2>4, <2>5, <2>6 DEF t
<1>5. \A k \in 0 .. n : k \in S
  <2> HIDE DEF S, n
  <2> QED BY <1>2, <1>3, <1>4, CountsUp
<1>6. n \in S
  BY <1>2, <1>5
<1>7. Copied(text, turn[n]) /\ (turn[n].at >= n + 1 \/ turn[n].at = n + 1)
  BY <1>6
<1> DEFINE s == turn[n]
<1>8. s.at = n + 1
  <2>1. s.at \in 1 .. n + 1
    BY <1>7 DEF Copied
  <2> QED BY <1>2, <1>7, <2>1
<1>9. s.out = text
  <2>1. IsList(s.out) /\ Len(s.out) = n /\ \A k \in 1 .. n : s.out[k] = text[k]
    <3>1. s.at - 1 = n
      BY <1>2, <1>8
    <3> QED BY <1>7, <3>1 DEF Copied, IsState
  <2> HIDE DEF s
  <2> QED BY <1>2, <2>1, SameList
<1> QED BY <1>1, <1>9

(* Correcting paths leaves every hunk where it is and as it is.            *)
LEMMA RemapIs ==
    ASSUME NEW lines, IsText(lines)
    PROVE  /\ IsText(RemapDiffPaths(lines)) /\ Len(RemapDiffPaths(lines)) = Len(lines)
           /\ \A k \in 1 .. Len(lines) :
                 /\ RemapDiffPaths(lines)[k] = RemapHeader(lines[k])
                 /\ RemapDiffPaths(lines)[k].kind = lines[k].kind
           /\ Hunks(RemapDiffPaths(lines)) = Hunks(lines)
           /\ \A q \in Hunks(lines) :
                 /\ RemapDiffPaths(lines)[q] = lines[q]
                 /\ (\A j \in DOMAIN HunkAt(lines, q) : IsHunkBody(HunkAt(lines, q)[j])) =>
                       HunkAt(RemapDiffPaths(lines), q) = HunkAt(lines, q)
<1> DEFINE t == RemapDiffPaths(lines)
           n == Len(lines)
<1>1. DOMAIN lines = 1 .. n /\ n \in Nat /\ IsList(lines)
  BY ListPlaces DEF IsText
<1>2. DOMAIN t = 1 .. n /\ \A k \in 1 .. n : t[k] = RemapHeader(lines[k])
  BY <1>1 DEF RemapDiffPaths
<1>3. \A k \in 1 .. n : /\ IsLine(t[k]) /\ t[k].kind = lines[k].kind
                        /\ ~IsHeader(lines[k]) => t[k] = lines[k]
  BY <1>1, <1>2, RemapHeaderIs DEF IsText
<1>4. IsList(t) /\ Len(t) = n
  <2> DEFINE T == {t[k] : k \in DOMAIN t}
  <2>1. t \in [DOMAIN t -> T]
    <3>1. t = [k \in DOMAIN t |-> t[k]]
      BY DEF RemapDiffPaths
    <3> QED BY <3>1
  <2> HIDE DEF T, t, n
  <2> QED BY <1>1, <1>2, <2>1, MadeList
<1> HIDE DEF t, n
<1>5. IsText(t)
  BY <1>2, <1>3, <1>4 DEF IsText
<1>6. Hunks(t) = Hunks(lines)
  BY <1>1, <1>2, <1>3 DEF Hunks
<1>7. ASSUME NEW q \in Hunks(lines)
      PROVE  /\ t[q] = lines[q]
             /\ (\A j \in DOMAIN HunkAt(lines, q) : IsHunkBody(HunkAt(lines, q)[j])) =>
                   HunkAt(t, q) = HunkAt(lines, q)
  <2>1. q \in 1 .. n /\ lines[q].kind = "hunk"
    BY <1>1 DEF Hunks
  <2>2. t[q] = lines[q]
    BY <1>3, <2>1 DEF IsHeader
  <2> DEFINE b == BodyEnd(lines, q)
  <2>3. b \in q .. n /\ (\A j \in q + 1 .. b : ~Opens(lines[j]))
        /\ (b < n => Opens(lines[b + 1]))
    BY <1>1, <2>1, BodyEndIs DEF n
  <2> HIDE DEF b
  <2>4. BodyEnd(t, q) = b
    <3>1. \A j \in q + 1 .. b : j \in 1 .. n
      BY <1>1, <2>1, <2>3
    <3>2. \A j \in q + 1 .. b : ~Opens(t[j])
      BY <1>3, <2>3, <3>1 DEF Opens
    <3>3. b < n => Opens(t[b + 1])
      <4> SUFFICES ASSUME b < n PROVE Opens(t[b + 1])
        OBVIOUS
      <4>1. b + 1 \in 1 .. n
        BY <1>1, <2>1, <2>3
      <4> QED BY <1>3, <2>3, <4>1 DEF Opens
    <3> QED BY <1>4, <2>1, <2>3, <3>2, <3>3, BodyEndAt
  <2>5. ASSUME \A j \in DOMAIN HunkAt(lines, q) : IsHunkBody(HunkAt(lines, q)[j])
        PROVE  HunkAt(t, q) = HunkAt(lines, q)
    <3>1. IsList(HunkAt(lines, q)) /\ Len(HunkAt(lines, q)) = b - q
          /\ \A j \in 1 .. b - q : HunkAt(lines, q)[j] = lines[q + j]
      BY <1>1, <2>1, HunkAtIs DEF b, n
    <3>2. IsList(HunkAt(t, q)) /\ Len(HunkAt(t, q)) = b - q
          /\ \A j \in 1 .. b - q : HunkAt(t, q)[j] = t[q + j]
      BY <1>4, <2>1, <2>4, HunkAtIs
    <3>3. \A j \in 1 .. b - q : HunkAt(t, q)[j] = HunkAt(lines, q)[j]
      <4> TAKE j \in 1 .. b - q
      <4>1. q + j \in 1 .. n
        BY <1>1, <2>1, <2>3
      <4>2. IsHunkBody(lines[q + j])
        BY <2>5, <3>1, ListPlaces
      <4>3. t[q + j] = lines[q + j]
        BY <1>3, <4>1, <4>2 DEF IsHunkBody, IsHeader
      <4> QED BY <3>1, <3>2, <4>3
    <3> QED BY <3>1, <3>2, <3>3, SameList
  <2> QED BY <2>2, <2>5
<1> QED BY <1>2, <1>3, <1>4, <1>5, <1>6, <1>7 DEF t, n

(* Correcting the paths of a settled text leaves it settled.               *)
LEMMA RemapKeepsSettled ==
    ASSUME NEW text, Settled(text)
    PROVE  Settled(RemapDiffPaths(text))
<1> DEFINE t == RemapDiffPaths(text)
<1>1. /\ IsText(t) /\ Len(t) = Len(text)
      /\ \A k \in 1 .. Len(text) : t[k].kind = text[k].kind
      /\ Hunks(t) = Hunks(text)
      /\ \A q \in Hunks(text) :
            /\ t[q] = text[q]
            /\ (\A j \in DOMAIN HunkAt(text, q) : IsHunkBody(HunkAt(text, q)[j])) =>
                  HunkAt(t, q) = HunkAt(text, q)
  BY RemapIs DEF Settled
<1> HIDE DEF t
<1>2. \A q \in 1 .. Len(t) : t[q].kind # "fence"
  BY <1>1 DEF Settled
<1>3. ASSUME NEW q \in Hunks(t)
      PROVE  LET body == HunkAt(t, q)
             IN  /\ \A j \in DOMAIN body : IsHunkBody(body[j])
                 /\ ~(OldCount(body) = 0 /\ NewCount(body) = 0)
                 /\ t[q].old = OldCount(body) /\ t[q].new = NewCount(body)
  <2> DEFINE body == HunkAt(text, q)
  <2>1. /\ \A j \in DOMAIN body : IsHunkBody(body[j])
        /\ ~(OldCount(body) = 0 /\ NewCount(body) = 0)
        /\ text[q].old = OldCount(body) /\ text[q].new = NewCount(body)
    BY <1>1 DEF Settled
  <2>2. HunkAt(t, q) = body /\ t[q] = text[q]
    BY <1>1, <2>1
  <2> HIDE DEF body
  <2> QED BY <2>1, <2>2
<1> QED BY <1>1, <1>2, <1>3 DEF Settled, t

(* What LoadPreparedPatch makes of a patch file.                           *)
Loaded(lines) == RemapDiffPaths(NormalizeUnifiedDiff(lines))

(* Theorem of every patch file: once loaded, each of its hunks holds hunk  *)
(* lines only, its header counts them, and they count for something; and   *)
(* loading a loaded file again changes nothing, so that the patch a record *)
(* keeps is the one applied when it is verified (NormalizeUnifiedDiff,     *)
(* RemapDiffPaths, loadPreparedPatch).                                     *)
THEOREM LoadingSettles ==
    ASSUME NEW lines, IsText(lines)
    PROVE  /\ Hunks(lines) # {} => Settled(Loaded(lines))
           /\ Loaded(Loaded(lines)) = Loaded(lines)
<1> DEFINE out == NormalizeUnifiedDiff(lines)
<1>1. CASE Hunks(lines) # {}
  <2>1. Settled(out)
    <3>1. PICK s : s.out = out /\ Whole(lines, s)
      BY <1>1, NormalizedIsWhole
    <3> HIDE DEF out
    <3> QED BY <3>1, WholeIsSettled
  <2>2. Settled(RemapDiffPaths(out))
    BY <2>1, RemapKeepsSettled
  <2>3. NormalizeUnifiedDiff(RemapDiffPaths(out)) = RemapDiffPaths(out)
    BY <2>2, SettledIsNormalized
  <2>4. RemapDiffPaths(RemapDiffPaths(out)) = RemapDiffPaths(out)
    BY <2>1, HeadersSettle DEF Settled, IsText
  <2> QED BY <2>2, <2>3, <2>4 DEF Loaded
<1>2. CASE Hunks(lines) = {}
  <2>1. \A text : IsText(text) /\ Hunks(text) = {} => NormalizeUnifiedDiff(text) = text
    <3> SUFFICES ASSUME NEW text, IsText(text), Hunks(text) = {}
                 PROVE  NormalizeUnifiedDiff(text) = text
      OBVIOUS
    <3>1. PICK turn : NormalizeUnifiedDiff(text) =
                         IF Hunks(text) # {} THEN turn[Len(text)].out ELSE text
      BY NormalizedIs DEF IsText
    <3> QED BY <3>1
  <2> DEFINE t == RemapDiffPaths(lines)
  <2>2. IsText(t) /\ Hunks(t) = {}
    BY <1>2, RemapIs
  <2>3. RemapDiffPaths(t) = t
    BY HeadersSettle DEF IsText
  <2>4. NormalizeUnifiedDiff(lines) = lines
    BY <1>2, <2>1
  <2> HIDE DEF t
  <2>5. NormalizeUnifiedDiff(t) = t
    BY <2>1, <2>2
  <2>6. Loaded(lines) = t /\ Loaded(t) = t
    BY <2>3, <2>4, <2>5 DEF Loaded, t
  <2> QED BY <1>2, <2>6
<1> QED BY <1>1, <1>2

(***************************************************************************)
(* A hunk as a model damages it, and what is kept of it.                   *)
(***************************************************************************)

(* A line of a hunk's body, field by field.                                *)
LEMMA BodyLineIs ==
    ASSUME NEW id, NEW kind
    PROVE  /\ IsLine(BodyLine(id, kind)) /\ BodyLine(id, kind).kind = kind
           /\ BodyLine(id, kind).hunk = id /\ BodyLine(id, kind).path = DevNull
           /\ BodyLine(id, kind).ns = Line("text").ns
           /\ BodyLine(id, kind).old = 0 /\ BodyLine(id, kind).new = 0
           /\ IsLine(Line(kind)) /\ Line(kind).kind = kind
<1> DEFINE line == Line(kind)
           said == [line EXCEPT !.hunk = id]
<1>1. IsLine(line) /\ line.kind = kind /\ line.path = DevNull /\ line.ns = Line("text").ns
      /\ line.old = 0 /\ line.new = 0
  BY DEF IsLine, Line
<1> HIDE DEF line
<1>2. IsLine(said)
  BY <1>1 DEF IsLine
<1>3. said.kind = kind /\ said.hunk = id /\ said.path = DevNull /\ said.ns = Line("text").ns
      /\ said.old = 0 /\ said.new = 0
  BY <1>1 DEF IsLine
<1> QED BY <1>1, <1>2, <1>3 DEF BodyLine, line

(* Keeping a line of a body gives back only the space of an empty one.     *)
LEMMA CleanBodyLine ==
    ASSUME NEW id, NEW kind, kind # "empty"
    PROVE  /\ Clean(BodyLine(id, kind)) = BodyLine(id, kind)
           /\ Clean(BodyLine(id, "empty")) = BodyLine(id, "blank")
<1>1. Clean(BodyLine(id, kind)) = BodyLine(id, kind)
  BY BodyLineIs DEF Clean
<1> DEFINE c == BodyLine(id, "empty")
           b == BodyLine(id, "blank")
           d == [c EXCEPT !.kind = "blank"]
<1>2. Clean(c) = d
  BY BodyLineIs DEF Clean
<1>3. /\ IsLine(c) /\ c.hunk = id /\ c.path = DevNull /\ c.ns = Line("text").ns
      /\ c.old = 0 /\ c.new = 0
  BY BodyLineIs
<1>4. /\ IsLine(b) /\ b.kind = "blank" /\ b.hunk = id /\ b.path = DevNull /\ b.ns = Line("text").ns
      /\ b.old = 0 /\ b.new = 0
  BY BodyLineIs
<1> HIDE DEF c, b
<1>5. IsLine(d)
  BY <1>3 DEF IsLine
<1>6. d.kind = "blank" /\ d.hunk = c.hunk /\ d.path = c.path /\ d.ns = c.ns
      /\ d.old = c.old /\ d.new = c.new
  BY <1>3 DEF IsLine
<1> HIDE DEF d
<1>7. d = b
  BY <1>3, <1>4, <1>5, <1>6, SameLine
<1> QED BY <1>1, <1>2, <1>7 DEF c, b

(* What can be kept of a hunk: see Legible.                                *)
LegibleOf(h, id) == SubSeq(Body(h, id), 1, Left(h))

(* The body of a hunk, and the same as it is written.                      *)
LEMMA BodiesAre ==
    ASSUME NEW h, IsProposedHunk(h), NEW id
    PROVE  /\ IsText(Body(h, id)) /\ Len(Body(h, id)) = Len(h.body)
           /\ IsText(Written(h, id)) /\ Len(Written(h, id)) = Len(h.body)
           /\ Len(h.body) \in Nat /\ DOMAIN h.body = 1 .. Len(h.body)
           /\ \A i \in 1 .. Len(h.body) :
                 /\ Body(h, id)[i] = BodyLine(id, h.body[i])
                 /\ Written(h, id)[i] =
                       BodyLine(id, IF h.trimmed /\ h.body[i] = "blank" THEN "empty" ELSE h.body[i])
                 /\ h.body[i] \in HunkKinds
<1> DEFINE b == h.body
           n == Len(b)
           whole == Body(h, id)
           cut == Written(h, id)
           Trim(kind) == IF h.trimmed /\ kind = "blank" THEN "empty" ELSE kind
<1>1. n \in Nat /\ DOMAIN b = 1 .. n /\ \A i \in 1 .. n : b[i] \in HunkKinds
  BY DEF IsProposedHunk
<1>2. whole = [i \in 1 .. n |-> BodyLine(id, b[i])]
  BY <1>1 DEF Body
<1>3. cut = [i \in 1 .. n |-> BodyLine(id, Trim(b[i]))]
  BY <1>1 DEF Written
<1> HIDE DEF whole, cut, n, Trim
<1>4. IsText(whole) /\ Len(whole) = n
  <2> DEFINE T == {whole[i] : i \in DOMAIN whole}
  <2>1. DOMAIN whole = 1 .. n /\ whole \in [DOMAIN whole -> T]
    BY <1>2
  <2> HIDE DEF T
  <2>2. IsList(whole) /\ Len(whole) = n
    BY <1>1, <2>1, MadeList
  <2>3. \A i \in 1 .. n : IsLine(whole[i])
    BY <1>2, BodyLineIs
  <2> QED BY <2>1, <2>2, <2>3 DEF IsText
<1>5. IsText(cut) /\ Len(cut) = n
  <2> DEFINE T == {cut[i] : i \in DOMAIN cut}
  <2>1. DOMAIN cut = 1 .. n /\ cut \in [DOMAIN cut -> T]
    BY <1>3
  <2> HIDE DEF T
  <2>2. IsList(cut) /\ Len(cut) = n
    BY <1>1, <2>1, MadeList
  <2>3. \A i \in 1 .. n : IsLine(cut[i])
    BY <1>3, BodyLineIs
  <2> QED BY <2>1, <2>2, <2>3 DEF IsText
<1> QED BY <1>1, <1>2, <1>3, <1>4, <1>5 DEF whole, cut, n, Trim

(* A hunk with a line counts.                                              *)
LEMMA ChangeCounts ==
    ASSUME NEW kept, IsList(kept), NEW j \in DOMAIN kept,
           kept[j].kind \in HunkKinds
    PROVE  ~(OldCount(kept) = 0 /\ NewCount(kept) = 0)
<1>1. ASSUME NEW kinds PROVE IsFiniteSet({i \in DOMAIN kept : kept[i].kind \in kinds})
  <2>1. DOMAIN kept = 1 .. Len(kept) /\ Len(kept) \in Nat
    BY ListPlaces
  <2>2. IsFiniteSet(DOMAIN kept)
    BY <2>1, FS_Interval
  <2> QED BY <2>2, FS_Subset
<1>2. ASSUME NEW kinds, kept[j].kind \in kinds PROVE CountOf(kept, kinds) # 0
  <2> DEFINE S == {i \in DOMAIN kept : kept[i].kind \in kinds}
  <2>1. IsFiniteSet(S) /\ S # {}
    BY <1>1, <1>2
  <2> HIDE DEF S
  <2>2. Cardinality(S) # 0
    BY <2>1, FS_EmptySet
  <2> QED BY <2>2 DEF CountOf, S
<1> QED BY <1>2 DEF OldCount, NewCount, HunkKinds

(* No lines count for nothing.                                             *)
LEMMA NothingCounted == OldCount(<<>>) = 0 /\ NewCount(<<>>) = 0
<1>1. \A kinds : {i \in DOMAIN <<>> : <<>>[i].kind \in kinds} = {}
  OBVIOUS
<1> QED BY <1>1, FS_EmptySet DEF OldCount, NewCount, CountOf

(* How many lines of a hunk stand before the one that no hunk can hold.    *)
Cut(h) == IF h.damage = "broken" THEN h.at ELSE Len(h.body)

(* Those that are left end at the last of them that is not blank when the  *)
(* blank ones lost their space, and at the last of them otherwise.         *)
LEMMA LeftIs ==
    ASSUME NEW h, IsProposedHunk(h)
    PROVE  /\ Len(h.body) \in Nat /\ Cut(h) \in 0 .. Len(h.body) /\ Left(h) \in 0 .. Cut(h)
           /\ ~h.trimmed => Left(h) = Cut(h)
           /\ h.trimmed =>
                 /\ Left(h) > 0 => h.body[Left(h)] # "blank"
                 /\ \A i \in Left(h) + 1 .. Cut(h) : h.body[i] = "blank"
<1> DEFINE n == Len(h.body)
           cut == Cut(h)
           ends == {i \in 1 .. cut : h.body[i] # "blank"}
           last == SelectLastInSubSeq(h.body, 1, cut, LAMBDA kind : kind # "blank")
<1>1. n \in Nat /\ cut \in 0 .. n
  BY DEF IsProposedHunk, Cut
<1>2. Left(h) = IF h.trimmed THEN last ELSE cut
  BY DEF Left, Cut
<1>3. last = IF ends # {} THEN Max(ends) ELSE 0
  BY DEF SelectLastInSubSeq
<1> HIDE DEF last, n, cut
<1>4. CASE ends = {}
  <2>1. last = 0 /\ \A i \in 0 + 1 .. cut : h.body[i] = "blank"
    BY <1>3, <1>4
  <2>2. 0 \in 0 .. cut /\ cut \in 0 .. cut /\ ~(0 > 0)
    BY <1>1
  <2> QED BY <1>1, <1>2, <2>1, <2>2 DEF n, cut
<1>5. CASE ends # {}
  <2>1. Max(ends) \in ends /\ \A x \in ends : x <= Max(ends)
    <3>1. cut \in Nat /\ \A x \in ends : x \in 1 .. cut
      BY <1>1
    <3> HIDE DEF ends
    <3> QED BY <1>5, <3>1, GreatestPlace
  <2>2. last \in 1 .. cut /\ h.body[last] # "blank" /\ last \in 0 .. cut
    BY <1>1, <1>3, <1>5, <2>1
  <2>3. ASSUME NEW i \in last + 1 .. cut PROVE h.body[i] = "blank"
    <3> SUFFICES ASSUME h.body[i] # "blank" PROVE FALSE
      OBVIOUS
    <3>1. i \in 1 .. cut
      BY <1>1, <2>2
    <3>2. i \in ends
      BY <3>1
    <3>3. i <= last
      BY <1>3, <1>5, <2>1, <3>2
    <3> QED BY <1>1, <2>2, <3>3
  <2>4. cut \in 0 .. cut
    BY <1>1
  <2> QED BY <1>1, <1>2, <2>2, <2>3, <2>4 DEF n, cut
<1> QED BY <1>4, <1>5

(* What is left of a hunk, line by line.                                   *)
LEMMA LegibleIs ==
    ASSUME NEW h, IsProposedHunk(h), NEW id
    PROVE  /\ IsText(LegibleOf(h, id)) /\ Len(LegibleOf(h, id)) = Left(h)
           /\ \A i \in 1 .. Left(h) : LegibleOf(h, id)[i] = BodyLine(id, h.body[i])
<1> DEFINE n == Len(h.body)
           last == Left(h)
           body == Body(h, id)
           part == SubSeq(body, 1, last)
           one == 1
<1>1. /\ n \in Nat /\ IsText(body) /\ Len(body) = n
      /\ \A i \in 1 .. n : body[i] = BodyLine(id, h.body[i])
  BY BodiesAre
<1>2. last \in 0 .. n
  BY LeftIs
<1>3. LegibleOf(h, id) = part
  BY DEF LegibleOf
<1> HIDE DEF n, last, body
<1>4. /\ one \in Nat /\ last \in Nat /\ 1 <= one /\ one <= last + 1 /\ last <= Len(body)
      /\ last - one + 1 = last /\ \A i \in 1 .. last : one + i - 1 = i
  BY <1>1, <1>2
<1>5. part = SubSeq(body, one, last)
  OBVIOUS
<1> HIDE DEF one, part
<1>6. /\ IsList(SubSeq(body, one, last)) /\ Len(SubSeq(body, one, last)) = last - one + 1
      /\ \A i \in 1 .. last - one + 1 : SubSeq(body, one, last)[i] = body[one + i - 1]
  BY <1>1, <1>4, PartOfList DEF IsText
<1>7. IsList(part) /\ Len(part) = last
  BY <1>4, <1>5, <1>6
<1>8. \A i \in 1 .. last : part[i] = body[i] /\ i \in 1 .. n
  BY <1>1, <1>2, <1>4, <1>5, <1>6
<1>9. \A i \in 1 .. last : part[i] = BodyLine(id, h.body[i]) /\ IsLine(part[i])
  BY <1>1, <1>8, BodyLineIs
<1>10. IsText(part)
  BY <1>7, <1>9, ListPlaces DEF IsText
<1> QED BY <1>3, <1>7, <1>9, <1>10 DEF last

(* A text starts with the hunk's written lines up to the one no hunk can   *)
(* hold, and nothing but empty lines stands before the next such line.     *)
Reads(text, h, id) ==
    /\ Cut(h) <= Len(text)
    /\ \A i \in 1 .. Cut(h) : text[i] = Written(h, id)[i]
    /\ \E e \in Cut(h) .. Len(text) :
          /\ \A i \in Cut(h) + 1 .. e : text[i].kind = "empty"
          /\ e < Len(text) => text[e + 1].kind \in {"text", "fence"}

(* What is kept of such a text is what can be kept of the hunk.            *)
LEMMA KeptLegible ==
    ASSUME NEW h, IsProposedHunk(h), NEW id, NEW text, IsText(text), Reads(text, h, id)
    PROVE  KeepHunkLines(text) = LegibleOf(h, id)
<1> DEFINE b == h.body
           n == Len(b)
           cut == Cut(h)
           last == Left(h)
           Trim(kind) == IF h.trimmed /\ kind = "blank" THEN "empty" ELSE kind
<1>1. /\ n \in Nat /\ cut \in 0 .. n /\ last \in 0 .. cut
      /\ ~h.trimmed => last = cut
      /\ h.trimmed => /\ last > 0 => b[last] # "blank"
                      /\ \A i \in last + 1 .. cut : b[i] = "blank"
  BY LeftIs
<1>2. \A i \in 1 .. n : Written(h, id)[i] = BodyLine(id, Trim(b[i])) /\ b[i] \in HunkKinds
  BY BodiesAre
<1>3. /\ cut <= Len(text) /\ \A i \in 1 .. cut : text[i] = Written(h, id)[i]
      /\ Len(text) \in Nat
  BY ListPlaces DEF Reads, IsText
<1>4. PICK e \in cut .. Len(text) :
        /\ \A i \in cut + 1 .. e : text[i].kind = "empty"
        /\ e < Len(text) => text[e + 1].kind \in {"text", "fence"}
  BY DEF Reads
<1>5. h.trimmed \in BOOLEAN
  BY DEF IsProposedHunk
<1> HIDE DEF n, cut, last, Trim
<1>6. ASSUME NEW i \in 1 .. cut
      PROVE  /\ i \in 1 .. n /\ b[i] \in HunkKinds
             /\ text[i] = BodyLine(id, Trim(b[i])) /\ text[i].kind = Trim(b[i])
  <2>1. i \in 1 .. n
    BY <1>1
  <2>2. text[i] = BodyLine(id, Trim(b[i]))
    BY <1>2, <1>3, <2>1
  <2> QED BY <1>2, <2>1, <2>2, BodyLineIs
<1>7. ASSUME NEW i \in 1 .. cut, ~(h.trimmed /\ b[i] = "blank") PROVE IsHunkBody(text[i])
  <2>1. text[i].kind = b[i] /\ b[i] \in HunkKinds
    BY <1>6, <1>7 DEF Trim
  <2> QED BY <2>1 DEF IsHunkBody, HunkKinds
<1>8. ASSUME NEW i \in 1 .. last PROVE Belongs(text, i)
  <2>1. CASE ~(h.trimmed /\ b[i] = "blank")
    <3>1. i \in 1 .. cut
      BY <1>1
    <3> QED BY <1>7, <2>1, <3>1 DEF Belongs
  <2>2. CASE h.trimmed /\ b[i] = "blank"
    <3> DEFINE ahead == {j \in i + 1 .. last : b[j] # "blank"}
    <3>1. last \in ahead
      <4>1. last > 0 /\ i # last
        BY <1>1, <2>2
      <4>2. last \in i + 1 .. last
        BY <1>1, <4>1
      <4> QED BY <1>1, <2>2, <4>1, <4>2
    <3>2. PICK m \in ahead : \A j \in ahead : m <= j
      <4>1. ahead \in SUBSET Nat /\ ahead # {}
        BY <1>1, <3>1
      <4> HIDE DEF ahead
      <4> QED BY <4>1, LeastPlace
    <3>3. m \in i + 1 .. last /\ m \in 1 .. cut /\ m \in i + 1 .. Len(text) /\ b[m] # "blank"
      BY <1>1, <1>3, <3>2
    <3>4. ASSUME NEW j \in i .. m - 1 PROVE text[j].kind = "empty"
      <4>1. j \in 1 .. cut
        BY <1>1, <3>3
      <4>2. b[j] = "blank"
        <5>1. CASE j = i
          BY <2>2, <5>1
        <5>2. CASE j # i
          <6>1. j \in i + 1 .. last /\ ~(m <= j)
            BY <1>1, <3>3, <5>2
          <6> QED BY <3>2, <6>1
        <5> QED BY <5>1, <5>2
      <4> QED BY <1>6, <2>2, <4>1, <4>2 DEF Trim
    <3>5. IsHunkBody(text[m])
      BY <1>7, <3>3
    <3>6. text[i].kind = "empty"
      <4>1. i \in 1 .. cut
        BY <1>1
      <4> QED BY <1>6, <2>2, <4>1 DEF Trim
    <3>7. BlankContext(text, i)
      BY <3>3, <3>4, <3>5, <3>6 DEF BlankContext
    <3> QED BY <3>7 DEF Belongs
  <2> QED BY <2>1, <2>2
<1>9. ASSUME NEW i \in last + 1 .. e PROVE text[i].kind = "empty"
  <2>1. CASE i <= cut
    <3>1. i \in 1 .. cut /\ i \in last + 1 .. cut /\ last # cut
      BY <1>1, <1>4, <2>1
    <3>2. h.trimmed /\ b[i] = "blank"
      BY <1>1, <1>5, <3>1
    <3> QED BY <1>6, <3>1, <3>2 DEF Trim
  <2>2. CASE ~(i <= cut)
    <3>1. i \in cut + 1 .. e
      BY <1>1, <1>3, <1>4, <2>2
    <3> QED BY <1>4, <3>1
  <2> QED BY <2>1, <2>2
<1>10. last < Len(text) => ~Belongs(text, last + 1)
  <2> SUFFICES ASSUME last < Len(text), Belongs(text, last + 1) PROVE FALSE
    OBVIOUS
  <2>1. last \in Nat /\ e \in Nat /\ last <= e
    BY <1>1, <1>3, <1>4
  <2>2. CASE last = e
    <3>1. text[last + 1].kind \in {"text", "fence"}
      BY <1>4, <2>2
    <3> QED BY <3>1 DEF Belongs, IsHunkBody, BlankContext
  <2>3. CASE last # e
    <3>1. last + 1 \in last + 1 .. e
      BY <2>1, <2>3
    <3>2. text[last + 1].kind = "empty"
      BY <1>9, <3>1
    <3>3. BlankContext(text, last + 1)
      BY <3>2 DEF Belongs, IsHunkBody
    <3>4. PICK m \in last + 1 + 1 .. Len(text) :
            /\ IsHunkBody(text[m]) /\ \A j \in last + 1 .. m - 1 : text[j].kind = "empty"
      BY <3>3 DEF BlankContext
    <3>5. m \notin last + 1 .. e
      BY <1>9, <3>4 DEF IsHunkBody
    <3>6. m > e /\ m \in Nat
      BY <1>3, <2>1, <3>4, <3>5
    <3>7. e < Len(text)
      BY <1>3, <2>1, <3>4, <3>6
    <3>8. text[e + 1].kind \in {"text", "fence"}
      BY <1>4, <3>7
    <3>9. m # e + 1
      BY <3>4, <3>8 DEF IsHunkBody
    <3>10. e + 1 \in last + 1 .. m - 1
      BY <2>1, <3>6, <3>9
    <3> QED BY <3>4, <3>8, <3>10
  <2> QED BY <2>2, <2>3
<1>11. /\ IsText(KeepHunkLines(text)) /\ Len(KeepHunkLines(text)) = last
       /\ \A i \in 1 .. last : KeepHunkLines(text)[i] = Clean(text[i])
  <2>1. last \in 0 .. Len(text)
    BY <1>1, <1>3
  <2> QED BY <1>8, <1>10, <2>1, KeptUpTo
<1>12. ASSUME NEW i \in 1 .. last PROVE Clean(text[i]) = LegibleOf(h, id)[i]
  <2>1. i \in 1 .. cut
    BY <1>1
  <2>2. text[i] = BodyLine(id, Trim(b[i])) /\ b[i] # "empty"
    BY <1>6, <2>1 DEF HunkKinds
  <2>3. LegibleOf(h, id)[i] = BodyLine(id, b[i])
    BY LegibleIs DEF last
  <2>4. Clean(text[i]) = BodyLine(id, b[i])
    <3>1. CASE h.trimmed
      <4>1. Trim(b[i]) = IF b[i] = "blank" THEN "empty" ELSE b[i]
        BY <3>1 DEF Trim
      <4> QED BY <2>2, <4>1, CleanBodyLine
    <3>2. CASE ~h.trimmed
      <4>1. text[i] = BodyLine(id, b[i]) /\ text[i].kind # "empty"
        BY <1>6, <2>1, <2>2, <3>2 DEF Trim
      <4> QED BY <4>1 DEF Clean
    <3> QED BY <3>1, <3>2
  <2> QED BY <2>3, <2>4
<1>13. IsText(LegibleOf(h, id)) /\ Len(LegibleOf(h, id)) = last
  BY LegibleIs DEF last
<1> QED BY <1>11, <1>12, <1>13, SameList DEF IsText

(* The lines of a text with one more put among them.                       *)
LEMMA InsertedLine ==
    ASSUME NEW w, IsText(w), NEW a \in 0 .. Len(w), NEW e, IsLine(e)
    PROVE  LET d == InsertAt(w, a + 1, e)
           IN  /\ IsText(d) /\ Len(d) = Len(w) + 1
               /\ \A i \in 1 .. a : d[i] = w[i]
               /\ d[a + 1] = e
               /\ \A i \in a + 1 .. Len(w) : d[i + 1] = w[i]
<1> DEFINE n == Len(w)
           d == InsertAt(w, a + 1, e)
<1>1. n \in Nat /\ DOMAIN w = 1 .. n /\ IsList(w) /\ a \in 0 .. n
  BY ListPlaces DEF IsText
<1>2. PICK x, y : x = SubSeq(w, 1, a + 1 - 1) /\ y = SubSeq(w, a + 1, n)
  OBVIOUS
<1>3. d = x \o <<e>> \o y
  <2>1. PICK c : c = a + 1
    OBVIOUS
  <2>2. InsertAt(w, c, e) = SubSeq(w, 1, c - 1) \o <<e>> \o SubSeq(w, c, Len(w))
    BY Zenon DEF InsertAt
  <2>3. SubSeq(w, 1, c - 1) = x /\ SubSeq(w, c, Len(w)) = y /\ InsertAt(w, c, e) = d
    <3>1. SubSeq(w, 1, c - 1) = x
      BY <1>2, <2>1
    <3>2. SubSeq(w, c, Len(w)) = y
      BY <1>2, <2>1
    <3>3. InsertAt(w, c, e) = d
      BY <2>1
    <3> QED BY <3>1, <3>2, <3>3
  <2> QED BY <2>2, <2>3, Zenon
<1> HIDE DEF d
<1>4. /\ IsText(x) /\ Len(x) = a /\ \A i \in 1 .. a : x[i] = w[i]
  <2>1. PICK one, b : one = 1 /\ b = a + 1 - 1
    OBVIOUS
  <2>2. /\ b = a /\ one \in Nat /\ b \in Nat /\ 1 <= one /\ one <= b + 1 /\ b <= Len(w)
        /\ b - one + 1 = a /\ \A i \in 1 .. a : one + i - 1 = i
    BY <1>1, <2>1
  <2>3. /\ IsList(SubSeq(w, one, b)) /\ Len(SubSeq(w, one, b)) = b - one + 1
        /\ \A i \in 1 .. b - one + 1 : SubSeq(w, one, b)[i] = w[one + i - 1]
    BY <1>1, <2>2, PartOfList
  <2>4. IsList(x) /\ Len(x) = a /\ \A i \in 1 .. a : x[i] = w[i]
    BY <1>2, <2>1, <2>2, <2>3
  <2>5. \A i \in 1 .. a : i \in DOMAIN w
    BY <1>1
  <2> QED BY <2>4, <2>5, ListPlaces DEF IsText
<1>5. /\ IsText(y) /\ Len(y) = n - a /\ \A i \in 1 .. n - a : y[i] = w[a + i]
  <2>1. PICK c : c = a + 1
    OBVIOUS
  <2>2. /\ c \in Nat /\ 1 <= c /\ c <= n + 1 /\ n - c + 1 = n - a
        /\ \A i \in 1 .. n - a : c + i - 1 = a + i /\ a + i \in 1 .. n
    BY <1>1, <2>1
  <2>3. /\ IsList(SubSeq(w, c, n)) /\ Len(SubSeq(w, c, n)) = n - c + 1
        /\ \A i \in 1 .. n - c + 1 : SubSeq(w, c, n)[i] = w[c + i - 1]
    <3>1. n \in Nat /\ n <= Len(w) /\ c <= n + 1
      BY <1>1, <2>2
    <3> HIDE DEF n
    <3> QED BY <1>1, <2>2, <3>1, PartOfList
  <2>4. IsList(y) /\ Len(y) = n - a /\ \A i \in 1 .. n - a : y[i] = w[a + i]
    BY <1>2, <2>1, <2>2, <2>3
  <2> QED BY <1>1, <2>2, <2>4, ListPlaces DEF IsText
<1>6. PICK o : o = <<e>> /\ IsList(o) /\ Len(o) = 1 /\ o[1] = e
  BY OneLine
<1>7. IsText(o) /\ IsList(x) /\ IsList(y)
  BY <1>4, <1>5, <1>6, ListPlaces DEF IsText
<1>8. PICK u : u = x \o o
  OBVIOUS
<1>9. IsText(u) /\ Len(u) = a + 1 /\ (\A i \in 1 .. a : u[i] = w[i]) /\ u[a + 1] = e
  <2>1. IsText(u)
    BY <1>4, <1>7, <1>8, JoinedText
  <2>2. Len(u) = Len(x) + 1 /\ (\A i \in 1 .. Len(x) : u[i] = x[i]) /\ u[Len(x) + 1] = o[1]
    BY <1>6, <1>7, <1>8, JoinedLine
  <2> QED BY <1>4, <1>6, <2>1, <2>2
<1>10. d = u \o y
  BY <1>3, <1>6, <1>8
<1> HIDE DEF n
<1>11. IsText(d)
  BY <1>5, <1>9, <1>10, JoinedText
<1>12. /\ Len(d) = Len(u) + Len(y)
       /\ \A i \in 1 .. Len(u) : d[i] = u[i]
       /\ \A i \in 1 .. Len(y) : d[Len(u) + i] = y[i]
  <2>1. IsList(u) /\ IsList(y)
    BY <1>7, <1>9 DEF IsText
  <2> QED BY <1>10, <2>1, JoinedList
<1>13. Len(d) = n + 1
  BY <1>1, <1>5, <1>9, <1>12
<1>14. (\A i \in 1 .. a : d[i] = w[i]) /\ d[a + 1] = e
  <2>1. a + 1 \in 1 .. Len(u) /\ \A i \in 1 .. a : i \in 1 .. Len(u)
    BY <1>1, <1>9
  <2> QED BY <1>9, <1>12, <2>1
<1>15. ASSUME NEW i \in a + 1 .. n PROVE d[i + 1] = w[i]
  <2>1. PICK j : j = i - a /\ j \in 1 .. n - a /\ a + j = i /\ a + 1 + j = i + 1
    BY <1>1
  <2>2. d[Len(u) + j] = y[j] /\ y[j] = w[a + j]
    BY <1>5, <1>12, <2>1
  <2> QED BY <1>9, <2>1, <2>2
<1> QED BY <1>11, <1>13, <1>14, <1>15 DEF n, d

(* What each damage makes of a hunk's lines.                               *)
LEMMA DamagedIs ==
    ASSUME NEW h, IsProposedHunk(h), NEW id
    PROVE  LET d == Damaged(h, id)
           IN  /\ IsText(d) /\ Reads(d, h, id)
               /\ \A i \in 1 .. Len(d) : d[i].kind \in HunkKinds \cup {"empty", "text"}
<1> DEFINE b == h.body
           n == Len(b)
           d == Damaged(h, id)
           w == Written(h, id)
           Trim(kind) == IF h.trimmed /\ kind = "blank" THEN "empty" ELSE kind
<1>1. /\ n \in Nat /\ IsText(w) /\ Len(w) = n
      /\ \A i \in 1 .. n : w[i] = BodyLine(id, Trim(b[i])) /\ b[i] \in HunkKinds
  BY BodiesAre
<1>2. \A i \in 1 .. n : w[i].kind \in HunkKinds \cup {"empty", "text"}
  BY <1>1, BodyLineIs
<1>3. /\ IsLine(Line("empty")) /\ Line("empty").kind = "empty"
      /\ IsLine(Line("text")) /\ Line("text").kind = "text"
  BY BodyLineIs
<1>4. /\ h.damage = "none" => d = w
      /\ h.damage = "slack" => d = w \o <<Line("empty"), Line("empty")>>
      /\ h.damage = "broken" => d = InsertAt(w, h.at + 1, Line("text"))
      /\ h.damage \in {"none", "slack", "broken"} /\ h.at \in 0 .. n
      /\ Cut(h) = IF h.damage = "broken" THEN h.at ELSE n
  BY DEF Damaged, IsProposedHunk, Damages, Cut
<1> HIDE DEF w, d, n, Trim
<1>5. CASE h.damage = "none"
  <2>1. d = w /\ Cut(h) = n /\ n \in n .. n /\ ~(n < n) /\ n <= n /\ \A i \in n + 1 .. n : FALSE
    BY <1>1, <1>4, <1>5
  <2>2. Reads(d, h, id)
    BY <1>1, <2>1 DEF Reads, w
  <2> QED BY <1>1, <1>2, <2>1, <2>2 DEF d
<1>6. CASE h.damage = "slack"
  <2>1. /\ IsText(d) /\ Len(d) = n + 2 /\ \A i \in 1 .. n : d[i] = w[i]
        /\ d[n + 1] = Line("empty") /\ d[n + 2] = Line("empty")
    <3>1. PICK e : e = Line("empty") /\ IsLine(e)
      BY <1>3
    <3>2. d = w \o <<e, e>>
      BY <1>4, <1>6, <3>1
    <3>3. /\ IsText(w \o <<e, e>>) /\ Len(w \o <<e, e>>) = Len(w) + 2
          /\ \A i \in 1 .. Len(w) : (w \o <<e, e>>)[i] = w[i]
          /\ (w \o <<e, e>>)[Len(w) + 1] = e /\ (w \o <<e, e>>)[Len(w) + 2] = e
      BY <1>1, <3>1, PlusTwo
    <3> QED BY <1>1, <3>1, <3>2, <3>3
  <2>2. \A i \in 1 .. Len(d) : i \in 1 .. n \/ i = n + 1 \/ i = n + 2
    BY <1>1, <2>1
  <2>3. \A i \in n + 1 .. Len(d) : i = n + 1 \/ i = n + 2
    BY <1>1, <2>1
  <2>4. /\ n <= Len(d) /\ ~(Len(d) < Len(d)) /\ Len(d) \in n .. Len(d)
    BY <1>1, <2>1
  <2>5. \A i \in n + 1 .. Len(d) : d[i].kind = "empty"
    BY <1>3, <2>1, <2>3
  <2>6. \A i \in 1 .. Len(d) : d[i].kind \in HunkKinds \cup {"empty", "text"}
    BY <1>2, <1>3, <2>1, <2>2
  <2>7. Cut(h) = n
    BY <1>4, <1>6
  <2>8. Reads(d, h, id)
    BY <2>1, <2>4, <2>5, <2>7 DEF Reads, w
  <2> QED BY <2>1, <2>6, <2>8 DEF d
<1>7. CASE h.damage = "broken"
  <2>1. PICK a, e : a = h.at /\ e = Line("text")
    OBVIOUS
  <2>2. d = InsertAt(w, a + 1, e) /\ a \in 0 .. n /\ IsLine(e) /\ e.kind = "text" /\ Cut(h) = a
    BY <1>3, <1>4, <1>7, <2>1
  <2>3. /\ IsText(d) /\ Len(d) = n + 1 /\ \A i \in 1 .. a : d[i] = w[i]
        /\ d[a + 1] = e /\ \A i \in a + 1 .. n : d[i + 1] = w[i]
    BY <1>1, <2>2, InsertedLine
  <2>4. ASSUME NEW i \in 1 .. Len(d) PROVE d[i].kind \in HunkKinds \cup {"empty", "text"}
    <3>1. CASE i \in 1 .. a
      <4>1. i \in 1 .. n
        BY <1>1, <2>2, <3>1
      <4> QED BY <1>2, <2>3, <3>1, <4>1
    <3>2. CASE i = a + 1
      BY <2>2, <2>3, <3>2
    <3>3. CASE i \notin 1 .. a /\ i # a + 1
      <4>1. PICK j : j = i - 1 /\ j \in a + 1 .. n /\ j \in 1 .. n /\ j + 1 = i
        BY <1>1, <2>2, <2>3, <3>3
      <4>2. d[j + 1] = w[j]
        BY <2>3, <4>1
      <4> QED BY <1>2, <4>1, <4>2
    <3> QED BY <3>1, <3>2, <3>3
  <2>5. a <= Len(d) /\ a \in a .. Len(d) /\ \A i \in a + 1 .. a : FALSE
    BY <1>1, <2>2, <2>3
  <2>6. Reads(d, h, id)
    BY <2>2, <2>3, <2>5 DEF Reads, w
  <2> QED BY <2>3, <2>4, <2>6 DEF d
<1> QED BY <1>4, <1>5, <1>6, <1>7

(* The lines d, and at most one of prose after them.                       *)
IsBody(text, d) ==
    /\ IsText(text) /\ Len(text) \in Len(d) .. Len(d) + 1
    /\ \A j \in 1 .. Len(d) : text[j] = d[j]
    /\ Len(text) = Len(d) + 1 => text[Len(d) + 1].kind \in {"text", "fence"}

(* What is kept of a damaged hunk is what can be kept of it, and it counts *)
(* unless that is nothing.                                                 *)
LEMMA KeptIsLegible ==
    ASSUME NEW h, IsProposedHunk(h), NEW id, NEW text, IsBody(text, Damaged(h, id))
    PROVE  /\ KeepHunkLines(text) = LegibleOf(h, id)
           /\ Left(h) = 0 <=> /\ OldCount(LegibleOf(h, id)) = 0
                              /\ NewCount(LegibleOf(h, id)) = 0
<1> DEFINE d == Damaged(h, id)
           m == Len(d)
           kept == LegibleOf(h, id)
           cut == Cut(h)
<1>1. IsText(d) /\ Reads(d, h, id)
  BY DamagedIs
<1>2. /\ Left(h) \in 0 .. cut /\ cut \in 0 .. Len(h.body) /\ Len(h.body) \in Nat
  BY LeftIs
<1> HIDE DEF d, cut
<1>3. /\ IsText(text) /\ Len(text) \in m .. m + 1 /\ \A j \in 1 .. m : text[j] = d[j]
      /\ Len(text) = m + 1 => text[m + 1].kind \in {"text", "fence"}
      /\ m \in Nat /\ Len(text) \in Nat
  BY <1>1, ListPlaces DEF IsBody, IsText, d
<1> HIDE DEF m
<1>4. /\ cut <= m /\ \A i \in 1 .. cut : d[i] = Written(h, id)[i]
  BY <1>1 DEF Reads, m, cut
<1>5. PICK e \in cut .. m : /\ \A i \in cut + 1 .. e : d[i].kind = "empty"
                            /\ e < m => d[e + 1].kind \in {"text", "fence"}
  BY <1>1 DEF Reads, m, cut
<1>6. Reads(text, h, id)
  <2>1. cut <= Len(text) /\ e \in cut .. Len(text)
    BY <1>2, <1>3, <1>4, <1>5
  <2>2. \A i \in 1 .. cut : i \in 1 .. m
    BY <1>2, <1>3, <1>4
  <2>3. \A i \in cut + 1 .. e : i \in 1 .. m
    BY <1>2, <1>3, <1>5
  <2>4. e < Len(text) => text[e + 1].kind \in {"text", "fence"}
    <3>1. CASE e < m
      <4>1. e + 1 \in 1 .. m
        BY <1>2, <1>3, <1>5, <3>1
      <4> QED BY <1>3, <1>5, <3>1, <4>1
    <3>2. CASE ~(e < m)
      <4>1. e = m /\ (e < Len(text) => Len(text) = m + 1)
        BY <1>2, <1>3, <1>5, <3>2
      <4> QED BY <1>3, <4>1
    <3> QED BY <3>1, <3>2
  <2>5. /\ \A i \in 1 .. cut : text[i] = Written(h, id)[i]
        /\ \A i \in cut + 1 .. e : text[i].kind = "empty"
    BY <1>3, <1>4, <1>5, <2>2, <2>3
  <2> QED BY <2>1, <2>4, <2>5 DEF Reads, cut
<1>7. KeepHunkLines(text) = kept
  BY <1>3, <1>6, KeptLegible
<1>8. /\ IsText(kept) /\ Len(kept) = Left(h)
      /\ \A i \in 1 .. Left(h) : kept[i] = BodyLine(id, h.body[i])
  BY LegibleIs
<1>9. \A i \in 1 .. Len(h.body) : h.body[i] \in HunkKinds
  BY BodiesAre
<1> HIDE DEF kept
<1>10. CASE Left(h) = 0
  <2>1. kept = <<>>
    <3>1. IsList(kept) /\ Len(kept) = 0
      BY <1>8, <1>10 DEF IsText
    <3>2. 0 \notin 1 .. 0
      OBVIOUS
    <3> QED BY <3>1, <3>2, ListPlaces
  <2> QED BY <1>7, <1>10, <2>1, NothingCounted DEF kept
<1>11. CASE Left(h) # 0
  <2>1. PICK one : one = 1 /\ one \in 1 .. Left(h) /\ one \in 1 .. Len(h.body)
    BY <1>2, <1>11
  <2>2. kept[one] = BodyLine(id, h.body[one]) /\ h.body[one] \in HunkKinds
    BY <1>8, <1>9, <2>1
  <2>3. kept[one].kind \in HunkKinds
    BY <2>2, BodyLineIs
  <2>4. IsList(kept) /\ one \in DOMAIN kept
    BY <1>8, <2>1, ListPlaces DEF IsText
  <2>5. ~(OldCount(kept) = 0 /\ NewCount(kept) = 0)
    BY <2>3, <2>4, ChangeCounts
  <2> QED BY <1>7, <1>11, <2>5 DEF kept
<1> QED BY <1>10, <1>11

(***************************************************************************)
(* The proposal as text.                                                   *)
(***************************************************************************)

(* A hunk as text: its header, then its damaged body.                      *)
LEMMA HunkTextIs ==
    ASSUME NEW h, IsProposedHunk(h), NEW id
    PROVE  /\ IsText(HunkText(h, id)) /\ Len(HunkText(h, id)) = Len(Damaged(h, id)) + 1
           /\ HunkText(h, id)[1].kind = "hunk" /\ HunkText(h, id)[1].hunk = id
           /\ \A j \in 1 .. Len(Damaged(h, id)) : HunkText(h, id)[j + 1] = Damaged(h, id)[j]
<1> DEFINE d == Damaged(h, id)
           line == Line("hunk")
           e == [line EXCEPT !.hunk = id]
<1>1. IsText(d)
  BY DamagedIs
<1>2. IsLine(line) /\ line.kind = "hunk"
  BY BodyLineIs
<1>3. HunkText(h, id) = <<e>> \o d
  BY DEF HunkText
<1> HIDE DEF line, d
<1>4. IsLine(e) /\ e.kind = "hunk" /\ e.hunk = id
  BY <1>2 DEF IsLine
<1> HIDE DEF e
<1>5. /\ IsText(<<e>> \o d) /\ Len(<<e>> \o d) = Len(d) + 1 /\ (<<e>> \o d)[1] = e
      /\ \A i \in 1 .. Len(d) : (<<e>> \o d)[i + 1] = d[i]
  BY <1>1, <1>4, AfterOne
<1> QED BY <1>3, <1>4, <1>5 DEF d

(* The hunk h stands at line p of the text, and another follows it or none.*)
WrittenHunk(text, p, h, id) ==
    /\ p \in Hunks(text) /\ text[p].hunk = id
    /\ p + Len(Damaged(h, id)) <= Len(text)
    /\ \A j \in 1 .. Len(Damaged(h, id)) : text[p + j] = Damaged(h, id)[j]
    /\ p + Len(Damaged(h, id)) < Len(text) =>
          text[p + Len(Damaged(h, id)) + 1].kind = "hunk"

(* The text is that of section n's hunks.                                  *)
WrittenHunks(text, s, n) ==
    /\ IsText(text)
    /\ \A p \in 1 .. Len(text) : text[p].kind \notin {"old", "new", "fence"}
    /\ \A p \in Hunks(text) : \E k \in DOMAIN s.hunks : WrittenHunk(text, p, s.hunks[k], <<n, k>>)
    /\ \A k \in DOMAIN s.hunks : \E p \in Hunks(text) : WrittenHunk(text, p, s.hunks[k], <<n, k>>)
    /\ DOMAIN s.hunks # {} => 1 \in Hunks(text) /\ text[1].hunk = <<n, 1>>

(* The sections a model may write, as SectionsAssumption has them.         *)
IsSection(s) ==
    /\ s.new \in Seq(STRING)
    /\ s.hunks \in Seq({s.hunks[k] : k \in DOMAIN s.hunks})
    /\ \A k \in DOMAIN s.hunks : IsProposedHunk(s.hunks[k])

(* The hunks of a section joined are all there and no others.              *)
LEMMA HunksAreWritten ==
    ASSUME NEW s, IsSection(s), NEW n
    PROVE  WrittenHunks(FlattenSeq([k \in DOMAIN s.hunks |-> HunkText(s.hunks[k], <<n, k>>)]), s, n)
<1> DEFINE hs == [k \in DOMAIN s.hunks |-> HunkText(s.hunks[k], <<n, k>>)]
           N == Len(s.hunks)
           D(k) == Damaged(s.hunks[k], <<n, k>>)
           text == FlattenSeq(hs)
<1>1. IsList(s.hunks)
  BY DEF IsSection, IsList
<1>2. N \in Nat /\ DOMAIN s.hunks = 1 .. N
  BY <1>1, ListPlaces
<1>3. \A k \in 1 .. N : IsProposedHunk(s.hunks[k])
  BY <1>2 DEF IsSection
<1>4. hs = [k \in 1 .. N |-> HunkText(s.hunks[k], <<n, k>>)]
  BY <1>2
<1> HIDE DEF N, hs
<1>5. IsList(hs) /\ Len(hs) = N
  <2> DEFINE T == {hs[k] : k \in DOMAIN hs}
  <2>1. DOMAIN hs = 1 .. N /\ hs \in [DOMAIN hs -> T]
    BY <1>4
  <2> HIDE DEF T
  <2> QED BY <1>2, <2>1, MadeList
<1>6. ASSUME NEW k \in 1 .. N
      PROVE  /\ IsText(hs[k]) /\ Len(hs[k]) = Len(D(k)) + 1
             /\ hs[k][1].kind = "hunk" /\ hs[k][1].hunk = <<n, k>>
             /\ \A j \in 1 .. Len(D(k)) : hs[k][j + 1] = D(k)[j]
             /\ Len(D(k)) \in Nat
             /\ \A j \in 1 .. Len(D(k)) : D(k)[j].kind \in HunkKinds \cup {"empty", "text"}
  <2>1. IsProposedHunk(s.hunks[k]) /\ hs[k] = HunkText(s.hunks[k], <<n, k>>)
    BY <1>3, <1>4
  <2>2. /\ IsText(hs[k]) /\ Len(hs[k]) = Len(D(k)) + 1
        /\ hs[k][1].kind = "hunk" /\ hs[k][1].hunk = <<n, k>>
        /\ \A j \in 1 .. Len(D(k)) : hs[k][j + 1] = D(k)[j]
    <3>1. PICK h, id : h = s.hunks[k] /\ id = <<n, k>> /\ hs[k] = HunkText(h, id)
                       /\ IsProposedHunk(h) /\ D(k) = Damaged(h, id)
      BY <2>1
    <3> HIDE DEF D
    <3>2. /\ IsText(HunkText(h, id)) /\ Len(HunkText(h, id)) = Len(Damaged(h, id)) + 1
          /\ HunkText(h, id)[1].kind = "hunk" /\ HunkText(h, id)[1].hunk = id
          /\ \A j \in 1 .. Len(Damaged(h, id)) : HunkText(h, id)[j + 1] = Damaged(h, id)[j]
      BY <3>1, HunkTextIs
    <3> QED BY <3>1, <3>2
  <2>3. IsText(D(k)) /\ \A j \in 1 .. Len(D(k)) : D(k)[j].kind \in HunkKinds \cup {"empty", "text"}
    BY <2>1, DamagedIs
  <2>4. Len(D(k)) \in Nat
    BY <2>3, ListPlaces DEF IsText
  <2> QED BY <2>2, <2>3, <2>4
<1> HIDE DEF D
<1>7. PICK at : Stands(hs, text, at)
  <2>1. \A k \in DOMAIN hs : IsText(hs[k])
    BY <1>5, <1>6, ListPlaces
  <2> QED BY <1>5, <2>1, FlatPlaces
<1> HIDE DEF text
<1>8. /\ IsText(text) /\ Len(text) = at[N + 1] /\ Len(text) \in Nat /\ DOMAIN text = 1 .. Len(text)
      /\ \A k \in 1 .. N : at[k] \in Nat /\ at[k + 1] = at[k] + Len(hs[k])
      /\ \A k \in 1 .. N : \A j \in 1 .. Len(hs[k]) :
            at[k] + j \in 1 .. Len(text) /\ text[at[k] + j] = hs[k][j]
      /\ \A p \in 1 .. Len(text) : \E k \in 1 .. N : \E j \in 1 .. Len(hs[k]) : p = at[k] + j
  BY <1>5, <1>7, ListPlaces DEF Stands, IsText
<1>9. ASSUME NEW k \in 1 .. N
      PROVE  at[k] + 1 \in Hunks(text) /\ WrittenHunk(text, at[k] + 1, s.hunks[k], <<n, k>>)
  <2> DEFINE p == at[k] + 1
             m == Len(D(k))
  <2>1. /\ m \in Nat /\ Len(hs[k]) = m + 1 /\ at[k] \in Nat /\ at[k + 1] = at[k] + m + 1
        /\ p \in Nat /\ at[k + 1] = p + m
    <3>1. m \in Nat /\ Len(hs[k]) = m + 1
      BY <1>6
    <3>2. at[k] \in Nat /\ at[k + 1] = at[k] + Len(hs[k])
      BY <1>8
    <3> HIDE DEF m
    <3> QED BY <3>1, <3>2
  <2>2. p \in 1 .. Len(text) /\ text[p] = hs[k][1]
    <3>1. PICK one : one = 1 /\ one \in 1 .. Len(hs[k])
      BY <2>1
    <3>2. at[k] + one \in 1 .. Len(text) /\ text[at[k] + one] = hs[k][one]
      BY <1>8, <3>1
    <3> QED BY <3>1, <3>2
  <2>3. ASSUME NEW j \in 1 .. m PROVE text[p + j] = D(k)[j] /\ p + j <= Len(text)
    <3>1. PICK i : i = j + 1 /\ i \in 1 .. Len(hs[k])
      BY <2>1
    <3>2. at[k] + i \in 1 .. Len(text) /\ text[at[k] + i] = hs[k][i]
      BY <1>8, <3>1
    <3>3. at[k] + i = p + j
      <4>1. j \in Nat /\ i = j + 1 /\ at[k] \in Nat
        BY <2>1, <3>1
      <4> QED BY <4>1
    <3>4. hs[k][j + 1] = D(k)[j]
      BY <1>6
    <3>5. p + j <= Len(text)
      BY <1>8, <3>2, <3>3
    <3> QED BY <3>1, <3>2, <3>3, <3>4, <3>5
  <2> HIDE DEF p, m
  <2>4. p + m <= Len(text)
    <3>1. CASE m = 0
      BY <1>8, <2>1, <2>2, <3>1
    <3>2. CASE m # 0
      <4>1. m \in 1 .. m
        BY <2>1, <3>2
      <4> QED BY <2>3, <4>1
    <3> QED BY <3>1, <3>2
  <2>5. p + m < Len(text) => text[p + m + 1].kind = "hunk"
    <3> SUFFICES ASSUME p + m < Len(text) PROVE text[p + m + 1].kind = "hunk"
      OBVIOUS
    <3>1. k # N
      BY <1>8, <2>1
    <3>2. PICK l : l = k + 1 /\ l \in 1 .. N
      BY <1>2, <3>1
    <3>3. PICK one : one = 1 /\ one \in 1 .. Len(hs[l])
      <4>1. Len(hs[l]) = Len(D(l)) + 1 /\ Len(D(l)) \in Nat
        BY <1>6, <3>2
      <4> QED BY <4>1
    <3>4. text[at[l] + one] = hs[l][one]
      BY <1>8, <3>2, <3>3
    <3>5. at[l] + one = p + m + 1
      BY <2>1, <3>2, <3>3
    <3>6. hs[l][1].kind = "hunk"
      BY <1>6, <3>2
    <3> QED BY <3>3, <3>4, <3>5, <3>6
  <2>6. text[p].kind = "hunk" /\ text[p].hunk = <<n, k>>
    BY <1>6, <2>2
  <2>7. p \in Hunks(text)
    BY <1>8, <2>2, <2>6 DEF Hunks
  <2>8. WrittenHunk(text, p, s.hunks[k], <<n, k>>)
    BY <2>3, <2>4, <2>5, <2>6, <2>7 DEF WrittenHunk, m, D
  <2> QED BY <2>7, <2>8 DEF p
<1>10. ASSUME NEW p \in 1 .. Len(text)
       PROVE  /\ text[p].kind \notin {"old", "new", "fence"}
              /\ text[p].kind = "hunk" => \E k \in 1 .. N : p = at[k] + 1
  <2>1. PICK k \in 1 .. N : \E j \in 1 .. Len(hs[k]) : p = at[k] + j
    BY <1>8
  <2>2. PICK j \in 1 .. Len(hs[k]) : p = at[k] + j
    BY <2>1
  <2>3. text[p] = hs[k][j]
    BY <1>8, <2>2
  <2>4. CASE j = 1
    <3>1. text[p].kind = "hunk"
      BY <1>6, <2>3, <2>4
    <3> QED BY <2>2, <2>4, <3>1
  <2>5. CASE j # 1
    <3>1. Len(hs[k]) = Len(D(k)) + 1 /\ Len(D(k)) \in Nat
      BY <1>6
    <3>2. PICK i : i = j - 1 /\ i \in 1 .. Len(D(k)) /\ j = i + 1
      BY <2>5, <3>1
    <3>3. hs[k][i + 1] = D(k)[i] /\ D(k)[i].kind \in HunkKinds \cup {"empty", "text"}
      BY <1>6, <3>2
    <3>4. text[p].kind \in HunkKinds \cup {"empty", "text"}
      BY <2>3, <3>2, <3>3
    <3> QED BY <3>4 DEF HunkKinds
  <2> QED BY <2>4, <2>5
<1>11. ASSUME NEW p \in Hunks(text)
       PROVE  \E k \in 1 .. N : WrittenHunk(text, p, s.hunks[k], <<n, k>>)
  <2>1. p \in 1 .. Len(text) /\ text[p].kind = "hunk"
    BY <1>8 DEF Hunks
  <2>2. PICK k \in 1 .. N : p = at[k] + 1
    BY <1>10, <2>1
  <2> QED BY <1>9, <2>2
<1>13. DOMAIN s.hunks # {} => 1 \in Hunks(text) /\ text[1].hunk = <<n, 1>>
  <2> SUFFICES ASSUME DOMAIN s.hunks # {} PROVE 1 \in Hunks(text) /\ text[1].hunk = <<n, 1>>
    OBVIOUS
  <2>1. PICK one : one = 1 /\ one \in 1 .. N
    BY <1>2
  <2>2. at[one] + 1 \in Hunks(text) /\ WrittenHunk(text, at[one] + 1, s.hunks[one], <<n, one>>)
    BY <1>9, <2>1
  <2>3. at[one] = 0
    BY <1>7, <2>1 DEF Stands
  <2>4. at[one] + 1 = 1
    BY <2>3
  <2> QED BY <2>1, <2>2, <2>4 DEF WrittenHunk
<1>12. WrittenHunks(text, s, n)
  BY <1>2, <1>8, <1>9, <1>10, <1>11, <1>13 DEF WrittenHunks
<1> QED BY <1>12 DEF text, hs

(* The text is that of section n: its header lines, then its hunks.        *)
WrittenSection(text, s, n) ==
    /\ IsText(text) /\ Len(text) >= 3
    /\ text[1].kind = "text" /\ text[2].kind = "old"
    /\ text[3].kind = "new" /\ text[3].path = s.new
    /\ \A p \in 4 .. Len(text) : text[p].kind \notin {"old", "new", "fence"}
    /\ \A p \in Hunks(text) :
          /\ p \in 4 .. Len(text)
          /\ \E k \in DOMAIN s.hunks : WrittenHunk(text, p, s.hunks[k], <<n, k>>)
    /\ \A k \in DOMAIN s.hunks : \E p \in Hunks(text) : WrittenHunk(text, p, s.hunks[k], <<n, k>>)
    /\ DOMAIN s.hunks # {} => 4 \in Hunks(text) /\ text[4].hunk = <<n, 1>>

(* A hunk stands three lines further on behind the headers of its file.    *)
LEMMA HunkMoves ==
    ASSUME NEW t, IsText(t), NEW S, IsText(S), Len(S) = Len(t) + 3,
           \A i \in 1 .. Len(t) : S[i + 3] = t[i],
           NEW p, NEW h, IsProposedHunk(h), NEW id, WrittenHunk(t, p, h, id)
    PROVE  p + 3 \in Hunks(S) /\ WrittenHunk(S, p + 3, h, id)
<1> DEFINE d == Damaged(h, id)
           m == Len(d)
<1>1. /\ p \in Hunks(t) /\ t[p].hunk = id /\ p + m <= Len(t)
      /\ \A j \in 1 .. m : t[p + j] = d[j]
      /\ p + m < Len(t) => t[p + m + 1].kind = "hunk"
  BY DEF WrittenHunk
<1>2. /\ Len(t) \in Nat /\ DOMAIN t = 1 .. Len(t) /\ Len(S) \in Nat /\ DOMAIN S = 1 .. Len(S)
      /\ m \in Nat
  <2>1. IsList(t) /\ IsList(S) /\ IsList(d)
    BY DamagedIs DEF IsText
  <2> QED BY <2>1, ListPlaces
<1>3. p \in 1 .. Len(t) /\ t[p].kind = "hunk"
  BY <1>1, <1>2 DEF Hunks
<1> HIDE DEF m, d
<1> DEFINE q == p + 3
<1>4. q \in 1 .. Len(S) /\ S[q] = t[p] /\ q + m <= Len(S)
  BY <1>1, <1>2, <1>3
<1>5. ASSUME NEW j \in 1 .. m PROVE S[q + j] = d[j]
  <2>1. p + j \in 1 .. Len(t) /\ p + j + 3 = q + j
    BY <1>1, <1>2, <1>3
  <2>2. S[p + j + 3] = t[p + j]
    BY <2>1
  <2> QED BY <1>1, <2>1, <2>2
<1>6. q + m < Len(S) => S[q + m + 1].kind = "hunk"
  <2> SUFFICES ASSUME q + m < Len(S) PROVE S[q + m + 1].kind = "hunk"
    OBVIOUS
  <2>1. p + m < Len(t) /\ p + m + 1 \in 1 .. Len(t) /\ p + m + 1 + 3 = q + m + 1
    BY <1>1, <1>2, <1>3
  <2>2. S[p + m + 1 + 3] = t[p + m + 1]
    BY <2>1
  <2> QED BY <1>1, <2>1, <2>2
<1> HIDE DEF q
<1>7. q \in Hunks(S) /\ S[q].hunk = id
  BY <1>1, <1>2, <1>3, <1>4 DEF Hunks
<1>8. WrittenHunk(S, q, h, id)
  BY <1>4, <1>5, <1>6, <1>7 DEF WrittenHunk, m, d
<1> QED BY <1>7, <1>8 DEF q

(* A section as text: its headers, then its hunks.                         *)
LEMMA SectionIsWritten ==
    ASSUME NEW s, IsSection(s), NEW n
    PROVE  WrittenSection(SectionText(s, n), s, n)
<1> DEFINE a == Line("text")
           oldLine == Line("old")
           newLine == Line("new")
           e == [oldLine EXCEPT !.path = s.old, !.ns = s.ns]
           f == [newLine EXCEPT !.path = s.new, !.ns = s.ns]
           t == FlattenSeq([k \in DOMAIN s.hunks |-> HunkText(s.hunks[k], <<n, k>>)])
           S == <<a, e, f>> \o t
<1>1. SectionText(s, n) = S
  BY DEF SectionText
<1>2. /\ IsLine(a) /\ a.kind = "text" /\ IsLine(oldLine) /\ oldLine.kind = "old"
      /\ IsLine(newLine) /\ newLine.kind = "new"
  BY BodyLineIs
<1>3. WrittenHunks(t, s, n)
  BY HunksAreWritten
<1> HIDE DEF a, oldLine, newLine, t
<1>4. IsLine(e) /\ e.kind = "old" /\ IsLine(f) /\ f.kind = "new" /\ f.path = s.new
  BY <1>2 DEF IsLine
<1> HIDE DEF e, f
<1>5. /\ IsText(S) /\ Len(S) = Len(t) + 3 /\ S[1] = a /\ S[2] = e /\ S[3] = f
      /\ \A i \in 1 .. Len(t) : S[i + 3] = t[i]
  BY <1>2, <1>3, <1>4, AfterThree DEF WrittenHunks
<1> HIDE DEF S
<1>6. /\ Len(t) \in Nat /\ DOMAIN t = 1 .. Len(t) /\ Len(S) \in Nat /\ DOMAIN S = 1 .. Len(S)
      /\ IsText(t)
  BY <1>3, <1>5, ListPlaces DEF WrittenHunks, IsText
<1>7. \A k \in DOMAIN s.hunks : IsProposedHunk(s.hunks[k])
  BY DEF IsSection
<1>8. ASSUME NEW p \in 4 .. Len(S)
      PROVE  p - 3 \in 1 .. Len(t) /\ S[p] = t[p - 3] /\ p - 3 + 3 = p
  <2>1. PICK i : i = p - 3 /\ i \in 1 .. Len(t) /\ i + 3 = p
    BY <1>5, <1>6
  <2> QED BY <1>5, <2>1
<1>9. \A p \in 4 .. Len(S) : S[p].kind \notin {"old", "new", "fence"}
  BY <1>3, <1>8 DEF WrittenHunks
<1>10. ASSUME NEW p \in Hunks(S)
       PROVE  /\ p \in 4 .. Len(S)
              /\ \E k \in DOMAIN s.hunks : WrittenHunk(S, p, s.hunks[k], <<n, k>>)
  <2>1. p \in 1 .. Len(S) /\ S[p].kind = "hunk"
    BY <1>6 DEF Hunks
  <2>2. p # 1 /\ p # 2 /\ p # 3
    BY <1>2, <1>4, <1>5, <2>1
  <2>3. p \in 4 .. Len(S)
    BY <1>6, <2>1, <2>2
  <2>4. PICK i : i = p - 3 /\ i \in 1 .. Len(t) /\ S[p] = t[i] /\ i + 3 = p
    BY <1>8, <2>3
  <2>5. i \in Hunks(t)
    BY <1>6, <2>1, <2>4 DEF Hunks
  <2>6. PICK k \in DOMAIN s.hunks : WrittenHunk(t, i, s.hunks[k], <<n, k>>)
    BY <1>3, <2>5 DEF WrittenHunks
  <2>7. WrittenHunk(S, i + 3, s.hunks[k], <<n, k>>)
    BY <1>5, <1>6, <1>7, <2>6, HunkMoves
  <2> QED BY <2>3, <2>4, <2>7
<1>11. ASSUME NEW k \in DOMAIN s.hunks
       PROVE  \E p \in Hunks(S) : WrittenHunk(S, p, s.hunks[k], <<n, k>>)
  <2>1. PICK i \in Hunks(t) : WrittenHunk(t, i, s.hunks[k], <<n, k>>)
    BY <1>3 DEF WrittenHunks
  <2>2. i + 3 \in Hunks(S) /\ WrittenHunk(S, i + 3, s.hunks[k], <<n, k>>)
    BY <1>5, <1>6, <1>7, <2>1, HunkMoves
  <2> QED BY <2>2
<1>12. Len(S) >= 3
  BY <1>5, <1>6
<1>14. ASSUME DOMAIN s.hunks # {} PROVE 4 \in Hunks(S) /\ S[4].hunk = <<n, 1>>
  <2>1. PICK one : one = 1 /\ one \in Hunks(t) /\ t[one].hunk = <<n, 1>> /\ one + 3 = 4
    BY <1>3, <1>14 DEF WrittenHunks
  <2>2. one \in 1 .. Len(t) /\ t[one].kind = "hunk"
    BY <1>6, <2>1 DEF Hunks
  <2>3. S[one + 3] = t[one] /\ one + 3 \in 1 .. Len(S)
    BY <1>5, <1>6, <2>1, <2>2
  <2>4. S[4] = t[one] /\ 4 \in DOMAIN S
    BY <1>6, <2>1, <2>3
  <2> QED BY <2>1, <2>2, <2>4 DEF Hunks
<1>13. WrittenSection(S, s, n)
  BY <1>2, <1>4, <1>5, <1>9, <1>10, <1>11, <1>12, <1>14 DEF WrittenSection
<1> QED BY <1>1, <1>13

(* Line i of the text starts the hunk k of section n: its body, and the    *)
(* header over it, which stands right above the first hunk of the section. *)
StandsAs(text, i, s, n, k) ==
    /\ text[i].hunk = <<n, k>>
    /\ IsBody(HunkAt(text, i), Damaged(s.hunks[k], <<n, k>>))
    /\ \A j \in i + 1 .. BodyEnd(text, i) : text[j].kind # "new"
    /\ \E t \in 1 .. i - 1 :
          /\ IsLine(text[t]) /\ text[t].kind = "new" /\ text[t].path = s.new
          /\ \A j \in t + 1 .. i - 1 : text[j].kind # "new"
          /\ text[t + 1].kind = "hunk" /\ text[t + 1].hunk = <<n, 1>>

(* A section's text ends at the end of the file, or at one line of prose   *)
(* that ends it or stands over the next section.                           *)
EndsSection(text, e) ==
    \/ e = Len(text)
    \/ /\ e + 1 \in 1 .. Len(text) /\ text[e + 1].kind \in {"text", "fence"}
       /\ e + 1 < Len(text) => Opens(text[e + 2])

(* A hunk of a section stands in the whole text under its section's        *)
(* header.                                                                 *)
LEMMA HunkIsPlaced ==
    ASSUME NEW text, IsText(text), NEW S, NEW s, NEW n, WrittenSection(S, s, n),
           NEW off \in Nat, off + Len(S) <= Len(text),
           \A j \in 1 .. Len(S) : text[off + j] = S[j],
           EndsSection(text, off + Len(S)),
           NEW p \in Hunks(S), NEW k \in DOMAIN s.hunks, IsProposedHunk(s.hunks[k]),
           WrittenHunk(S, p, s.hunks[k], <<n, k>>)
    PROVE  off + p \in Hunks(text) /\ StandsAs(text, off + p, s, n, k)
<1> DEFINE d == Damaged(s.hunks[k], <<n, k>>)
           m == Len(d)
           i == off + p
           L == Len(S)
           E == Len(text)
<1>1. /\ S[p].hunk = <<n, k>> /\ p + m <= L
      /\ \A j \in 1 .. m : S[p + j] = d[j]
      /\ p + m < L => S[p + m + 1].kind = "hunk"
  BY DEF WrittenHunk
<1>2. /\ IsText(d) /\ \A j \in 1 .. m : d[j].kind \in HunkKinds \cup {"empty", "text"}
  BY DamagedIs
<1>3. /\ L \in Nat /\ DOMAIN S = 1 .. L /\ E \in Nat /\ DOMAIN text = 1 .. E /\ m \in Nat
      /\ IsList(text)
  BY <1>2, ListPlaces DEF IsText, WrittenSection
<1>4. /\ S[3].kind = "new" /\ S[3].path = s.new /\ 3 <= L /\ IsLine(S[3])
      /\ \A q \in 4 .. L : S[q].kind \notin {"old", "new", "fence"}
      /\ p \in 4 .. L /\ S[p].kind = "hunk"
  <2>1. 3 \in DOMAIN S
    BY <1>3 DEF WrittenSection
  <2> QED BY <2>1 DEF WrittenSection, IsText, Hunks
<1> HIDE DEF d, m, L, E
<1>5. ASSUME NEW j \in 1 .. L PROVE text[off + j] = S[j]
  BY <1>3 DEF L
<1>6. i \in 1 .. E /\ text[i] = S[p] /\ i + m <= E /\ off + L <= E
  <2>1. p \in 1 .. L /\ off + L <= E
    BY <1>3, <1>4 DEF L, E
  <2>2. i \in 1 .. E /\ i + m <= E
    BY <1>1, <1>3, <1>4, <2>1
  <2> QED BY <1>5, <2>1, <2>2
<1>7. i \in Hunks(text)
  BY <1>3, <1>4, <1>6 DEF Hunks
<1>8. ASSUME NEW j \in 1 .. m
      PROVE  text[i + j] = d[j] /\ ~Opens(text[i + j]) /\ text[i + j].kind # "new"
  <2>1. p + j \in 1 .. L /\ off + (p + j) = i + j
    BY <1>1, <1>3, <1>4
  <2>2. text[i + j] = d[j]
    BY <1>1, <1>5, <2>1
  <2>3. d[j].kind \in HunkKinds \cup {"empty", "text"}
    BY <1>2 DEF m
  <2> QED BY <2>2, <2>3 DEF Opens, HunkKinds
<1>9. \E e \in {i + m, i + m + 1} :
        /\ e \in i .. E /\ (e < E => Opens(text[e + 1]))
        /\ e = i + m + 1 => text[e].kind \in {"text", "fence"}
  <2>1. CASE p + m < L
    <3>1. p + m + 1 \in 1 .. L /\ off + (p + m + 1) = i + m + 1
      BY <1>3, <1>4, <2>1
    <3>2. text[i + m + 1].kind = "hunk"
      BY <1>1, <1>5, <2>1, <3>1
    <3>3. i + m \in i .. E /\ i + m # i + m + 1
      BY <1>3, <1>4, <1>6
    <3> QED BY <3>2, <3>3 DEF Opens
  <2>2. CASE ~(p + m < L)
    <3>1. i + m = off + L
      <4>1. p + m = L
        BY <1>1, <1>3, <1>4, <2>2
      <4>2. p \in Int /\ m \in Int /\ off \in Int
        BY <1>3, <1>4
      <4> QED BY <4>1, <4>2
    <3>2. EndsSection(text, i + m)
      BY <3>1 DEF L
    <3>3. CASE i + m = E
      <4>1. i + m \in i .. E /\ ~(i + m < E) /\ i + m # i + m + 1
        BY <1>3, <1>4, <1>6, <3>3
      <4> QED BY <4>1
    <3>4. CASE i + m # E
      <4>1. /\ i + m + 1 \in 1 .. E /\ text[i + m + 1].kind \in {"text", "fence"}
            /\ i + m + 1 < E => Opens(text[i + m + 2])
        BY <3>2, <3>4 DEF EndsSection, E
      <4>2. i + m + 1 \in i .. E /\ i + m + 1 + 1 = i + m + 2
        BY <1>3, <1>4, <1>6, <4>1
      <4> QED BY <4>1, <4>2
    <3> QED BY <3>3, <3>4
  <2> QED BY <2>1, <2>2
<1>10. PICK e : /\ e \in {i + m, i + m + 1} /\ e \in i .. E /\ (e < E => Opens(text[e + 1]))
                /\ e = i + m + 1 => text[e].kind \in {"text", "fence"}
  BY <1>9
<1> HIDE DEF i
<1>11. i \in Nat
  BY <1>6
<1>12. ASSUME NEW j \in i + 1 .. e PROVE ~Opens(text[j]) /\ text[j].kind # "new"
  <2>1. CASE j = i + m + 1
    <3>1. j = e
      BY <1>3, <1>10, <1>11, <2>1
    <3> QED BY <1>10, <2>1, <3>1 DEF Opens
  <2>2. CASE j # i + m + 1
    <3>1. PICK q : q = j - i /\ q \in 1 .. m /\ i + q = j
      BY <1>3, <1>10, <1>11, <2>2
    <3> QED BY <1>8, <3>1
  <2> QED BY <2>1, <2>2
<1>13. BodyEnd(text, i) = e
  BY <1>3, <1>6, <1>10, <1>12, BodyEndAt DEF E
<1>14. IsBody(HunkAt(text, i), d)
  <2> DEFINE body == HunkAt(text, i)
  <2>1. /\ IsList(body) /\ Len(body) = e - i
        /\ \A q \in 1 .. e - i : body[q] = text[i + q]
    BY <1>3, <1>6, <1>13, HunkAtIs DEF E
  <2> HIDE DEF body
  <2>2. e - i \in m .. m + 1 /\ (e - i = m + 1 => e = i + m + 1)
    BY <1>3, <1>10, <1>11
  <2>3. DOMAIN body = 1 .. e - i
    BY <2>1, ListPlaces
  <2>4. ASSUME NEW q \in 1 .. e - i PROVE IsLine(body[q])
    <3>1. i + q \in 1 .. E
      BY <1>3, <1>10, <1>11
    <3> QED BY <1>3, <2>1, <3>1 DEF IsText
  <2>5. IsText(body)
    BY <2>1, <2>3, <2>4 DEF IsText
  <2>6. ASSUME NEW j \in 1 .. m PROVE body[j] = d[j]
    <3>1. j \in 1 .. e - i
      BY <1>3, <1>10, <1>11, <2>2
    <3> QED BY <1>8, <2>1, <3>1
  <2>7. ASSUME e - i = m + 1 PROVE body[m + 1].kind \in {"text", "fence"}
    <3>1. PICK q : q = m + 1 /\ q \in 1 .. e - i /\ i + q = e /\ e = i + m + 1
      BY <1>3, <1>11, <2>2, <2>7
    <3> QED BY <1>10, <2>1, <3>1
  <2>8. IsBody(body, d)
    BY <2>1, <2>2, <2>5, <2>6, <2>7 DEF IsBody, m
  <2> QED BY <2>8 DEF body
<1>18. \E t \in 1 .. i - 1 :
          /\ IsLine(text[t]) /\ text[t].kind = "new" /\ text[t].path = s.new
          /\ \A j \in t + 1 .. i - 1 : text[j].kind # "new"
          /\ text[t + 1].kind = "hunk" /\ text[t + 1].hunk = <<n, 1>>
  <2>1. PICK t : t = off + 3 /\ t \in 1 .. i - 1 /\ text[t] = S[3]
    <3>1. PICK three : three = 3 /\ three \in 1 .. L
      BY <1>3, <1>4
    <3>2. text[off + three] = S[three]
      BY <1>5, <3>1
    <3>3. off + 3 \in 1 .. i - 1
      BY <1>4, <1>11 DEF i
    <3> QED BY <3>1, <3>2, <3>3
  <2>2. ASSUME NEW j \in t + 1 .. i - 1 PROVE text[j].kind # "new"
    <3>1. PICK q : q = j - off /\ q \in 4 .. L /\ q \in 1 .. L /\ off + q = j
      BY <1>3, <1>4, <1>11, <2>1 DEF i
    <3>2. text[j] = S[q]
      BY <1>5, <3>1
    <3> QED BY <1>4, <3>1, <3>2
  <2>3. PICK four : four = 4 /\ four \in 1 .. L /\ S[four].kind = "hunk" /\ S[four].hunk = <<n, 1>>
    BY <1>3 DEF WrittenSection, Hunks
  <2>4. text[off + four] = S[four] /\ off + four = t + 1
    BY <1>5, <2>1, <2>3
  <2> QED BY <1>4, <2>1, <2>2, <2>3, <2>4
<1>16. text[i].hunk = <<n, k>>
  BY <1>1, <1>6
<1>17. StandsAs(text, i, s, n, k)
  BY <1>12, <1>13, <1>14, <1>16, <1>18 DEF StandsAs, d
<1> QED BY <1>7, <1>17 DEF i

(* The whole text: every hunk of it is one of the sections', in its place, *)
(* and every hunk of the sections is in it.                                *)
WrittenText(text, sections) ==
    /\ IsText(text)
    /\ \A i \in Hunks(text) :
          \E n \in DOMAIN sections : \E k \in DOMAIN sections[n].hunks :
             StandsAs(text, i, sections[n], n, k)
    /\ \A n \in DOMAIN sections : \A k \in DOMAIN sections[n].hunks :
          \E i \in Hunks(text) : StandsAs(text, i, sections[n], n, k)

(* The text is the bare one between o fences.                              *)
Fenced(text, bare, o) ==
    /\ IsText(text) /\ o \in {0, 1} /\ Len(text) = Len(bare) + o + o
    /\ \A p \in 1 .. Len(bare) : text[o + p] = bare[p]
    /\ o = 1 => text[1].kind = "fence" /\ text[Len(text)].kind = "fence"

(* A text between no fences or two.                                        *)
LEMMA FencedIs ==
    ASSUME NEW bare, IsText(bare)
    PROVE  Fenced(bare, bare, 0) /\ Fenced(<<Line("fence")>> \o bare \o <<Line("fence")>>, bare, 1)
<1>1. PICK f : f = Line("fence") /\ IsLine(f) /\ f.kind = "fence"
  BY BodyLineIs
<1>2. Len(bare) \in Nat /\ IsList(bare)
  BY ListPlaces DEF IsText
<1>3. PICK u : u = <<f>> \o bare
  OBVIOUS
<1>4. /\ IsText(u) /\ Len(u) = Len(bare) + 1 /\ u[1] = f
      /\ \A p \in 1 .. Len(bare) : u[p + 1] = bare[p]
  BY <1>1, <1>3, AfterOne
<1>5. PICK w : w = <<f>> /\ IsList(w) /\ Len(w) = 1 /\ w[1] = f
  BY OneLine
<1>6. IsText(w) /\ IsList(u)
  BY <1>1, <1>4, <1>5, ListPlaces DEF IsText
<1>7. PICK text : text = u \o w
  OBVIOUS
<1>8. /\ IsText(text) /\ Len(text) = Len(u) + 1
      /\ \A p \in 1 .. Len(u) : text[p] = u[p]
      /\ text[Len(u) + 1] = f
  BY <1>4, <1>5, <1>6, <1>7, JoinedText, JoinedLine
<1>9. Fenced(text, bare, 1)
  <2>1. Len(text) = Len(bare) + 1 + 1 /\ text[Len(text)] = f
    BY <1>2, <1>4, <1>8
  <2>2. text[1] = f
    <3>1. PICK one : one = 1 /\ one \in 1 .. Len(u)
      BY <1>2, <1>4
    <3> QED BY <1>4, <1>8, <3>1
  <2>3. ASSUME NEW p \in 1 .. Len(bare) PROVE text[1 + p] = bare[p]
    <3>1. PICK q : q = p + 1 /\ q \in 1 .. Len(u) /\ q = 1 + p
      BY <1>2, <1>4
    <3> QED BY <1>4, <1>8, <3>1
  <2> QED BY <1>1, <1>8, <2>1, <2>2, <2>3 DEF Fenced
<1>10. Fenced(bare, bare, 0)
  <2>1. PICK zero : zero = 0 /\ zero \in {0, 1} /\ zero # 1 /\ Len(bare) = Len(bare) + zero + zero
        /\ \A p \in 1 .. Len(bare) : zero + p = p
    BY <1>2
  <2>2. Fenced(bare, bare, zero)
    BY <2>1 DEF Fenced
  <2> QED BY <2>1, <2>2
<1>11. <<Line("fence")>> \o bare \o <<Line("fence")>> = text
  BY <1>1, <1>3, <1>5, <1>7
<1> QED BY <1>9, <1>10, <1>11

(* The text of a proposal holds all of its hunks and no others, each in    *)
(* its place.                                                              *)
LEMMA TextIsWritten ==
    ASSUME NEW N \in Nat, NEW sections, sections = [n \in 1 .. N |-> sections[n]],
           \A n \in 1 .. N : IsSection(sections[n]), NEW fenced \in BOOLEAN
    PROVE  WrittenText(Text(sections, fenced), sections)
<1> DEFINE ss == [n \in DOMAIN sections |-> SectionText(sections[n], n)]
           bare == FlattenSeq(ss)
           text == Text(sections, fenced)
<1>1. DOMAIN sections = 1 .. N
  OBVIOUS
<1>2. ss = [n \in 1 .. N |-> SectionText(sections[n], n)]
  BY <1>1
<1>3. text = IF fenced THEN <<Line("fence")>> \o bare \o <<Line("fence")>> ELSE bare
  BY DEF Text
<1> HIDE DEF ss
<1>4. IsList(ss) /\ Len(ss) = N
  <2> DEFINE T == {ss[n] : n \in DOMAIN ss}
  <2>1. DOMAIN ss = 1 .. N /\ ss \in [DOMAIN ss -> T]
    BY <1>2
  <2> HIDE DEF T
  <2> QED BY <2>1, MadeList
<1>5. \A n \in 1 .. N : WrittenSection(ss[n], sections[n], n)
  BY <1>2, SectionIsWritten
<1>6. PICK at : Stands(ss, bare, at)
  <2>1. \A n \in DOMAIN ss : IsText(ss[n])
    BY <1>4, <1>5, ListPlaces DEF WrittenSection
  <2> QED BY <1>4, <2>1, FlatPlaces
<1> HIDE DEF bare, text
<1>7. /\ IsText(bare) /\ Len(bare) = at[N + 1] /\ Len(bare) \in Nat
      /\ \A n \in 1 .. N : at[n] \in Nat /\ at[n + 1] = at[n] + Len(ss[n])
      /\ \A n \in 1 .. N : \A j \in 1 .. Len(ss[n]) :
            at[n] + j \in 1 .. Len(bare) /\ bare[at[n] + j] = ss[n][j]
      /\ \A p \in 1 .. Len(bare) : \E n \in 1 .. N : \E j \in 1 .. Len(ss[n]) : p = at[n] + j
  BY <1>4, <1>6, ListPlaces DEF Stands, IsText
<1>8. PICK o : Fenced(text, bare, o)
  <2>1. Fenced(bare, bare, 0) /\ Fenced(<<Line("fence")>> \o bare \o <<Line("fence")>>, bare, 1)
    BY <1>7, FencedIs
  <2> QED BY <1>3, <2>1
<1>9. /\ IsText(text) /\ o \in {0, 1} /\ o \in Nat /\ Len(text) = Len(bare) + o + o
      /\ \A p \in 1 .. Len(bare) : text[o + p] = bare[p]
      /\ o = 1 => text[1].kind = "fence" /\ text[Len(text)].kind = "fence"
      /\ Len(text) \in Nat /\ DOMAIN text = 1 .. Len(text)
  BY <1>8, ListPlaces DEF Fenced, IsText
<1>10. ASSUME NEW n \in 1 .. N
       PROVE  /\ Len(ss[n]) \in Nat /\ Len(ss[n]) >= 3 /\ DOMAIN ss[n] = 1 .. Len(ss[n])
              /\ ss[n][1].kind = "text" /\ ss[n][2].kind = "old"
  BY <1>5, ListPlaces DEF WrittenSection, IsText
<1>11. ASSUME NEW n \in 1 .. N
       PROVE  /\ o + at[n] \in Nat /\ o + at[n] + Len(ss[n]) <= Len(text)
              /\ \A j \in 1 .. Len(ss[n]) : text[o + at[n] + j] = ss[n][j]
              /\ EndsSection(text, o + at[n] + Len(ss[n]))
  <2> DEFINE off == o + at[n]
             L == Len(ss[n])
             e == off + L
  <2>1. at[n] \in Nat /\ at[n + 1] = at[n] + L /\ L \in Nat /\ L >= 3
    BY <1>7, <1>10
  <2>2. at[n] + L <= Len(bare)
    <3>1. L \in 1 .. L
      BY <2>1
    <3>2. at[n] + L \in 1 .. Len(bare)
      BY <1>7, <3>1
    <3> QED BY <1>7, <3>2
  <2>3. ASSUME NEW j \in 1 .. L PROVE text[off + j] = ss[n][j]
    <3>1. at[n] + j \in 1 .. Len(bare) /\ bare[at[n] + j] = ss[n][j]
      BY <1>7
    <3>2. text[o + (at[n] + j)] = bare[at[n] + j]
      BY <1>9, <3>1
    <3>3. o + (at[n] + j) = off + j
      BY <1>9, <2>1
    <3> QED BY <3>1, <3>2, <3>3
  <2> HIDE DEF L
  <2>4. off \in Nat /\ off + L <= Len(text) /\ e = o + at[n + 1] /\ e \in Nat
    <3>1. PICK a, b : a = at[n] /\ b = at[n + 1] /\ a \in Nat /\ b = a + L /\ a + L <= Len(bare)
      BY <2>1, <2>2
    <3>2. L \in Nat /\ Len(bare) \in Nat /\ o \in Nat /\ Len(text) = Len(bare) + o + o
      BY <1>7, <1>9, <2>1
    <3>3. o + a \in Nat /\ o + a + L = o + b /\ o + a + L \in Nat
      BY <3>1, <3>2
    <3>4. o + a + L <= Len(text)
      <4>1. PICK all, width : all = Len(text) /\ width = Len(bare) /\ all = width + o + o
        BY <3>2
      <4>2. all \in Nat /\ width \in Nat /\ a + L <= width
        BY <3>1, <3>2, <4>1
      <4>3. o + a + L <= all
        BY <3>1, <3>2, <4>1, <4>2
      <4> QED BY <4>1, <4>3
    <3> QED BY <3>1, <3>3, <3>4
  <2>5. EndsSection(text, e)
    <3>1. CASE n = N
      <4>1. e = o + Len(bare)
        BY <1>7, <2>4, <3>1
      <4> HIDE DEF off, e
      <4>2. CASE o = 0
        <5>1. e = Len(text)
          BY <1>7, <1>9, <4>1, <4>2
        <5> QED BY <5>1 DEF EndsSection
      <4>3. CASE o = 1
        <5>1. e + 1 = Len(text) /\ e + 1 \in 1 .. Len(text) /\ ~(e + 1 < Len(text))
          BY <1>7, <1>9, <4>1, <4>3
        <5>2. text[e + 1].kind = "fence"
          BY <1>9, <4>3, <5>1
        <5> QED BY <5>1, <5>2 DEF EndsSection
      <4> QED BY <1>9, <4>2, <4>3
    <3>2. CASE n # N
      <4>1. PICK m : m = n + 1 /\ m \in 1 .. N
        BY <3>2
      <4>2. /\ at[m] \in Nat /\ Len(ss[m]) \in Nat /\ Len(ss[m]) >= 3
            /\ ss[m][1].kind = "text" /\ ss[m][2].kind = "old"
        BY <1>7, <1>10, <4>1
      <4>3. PICK one, two : /\ one = 1 /\ two = 2
                            /\ one \in 1 .. Len(ss[m]) /\ two \in 1 .. Len(ss[m])
        BY <4>2
      <4>4. /\ at[m] + one \in 1 .. Len(bare) /\ bare[at[m] + one] = ss[m][one]
            /\ at[m] + two \in 1 .. Len(bare) /\ bare[at[m] + two] = ss[m][two]
        BY <1>7, <4>1, <4>3
      <4>5. text[o + (at[m] + one)] = ss[m][one] /\ text[o + (at[m] + two)] = ss[m][two]
        BY <1>9, <4>4
      <4>6. e = o + at[m]
        BY <2>4, <4>1
      <4> HIDE DEF off, e
      <4>7. /\ o + (at[m] + one) = e + 1 /\ o + (at[m] + two) = e + 2
            /\ e + 1 \in 1 .. Len(text)
        <5>1. PICK a : a = at[m] /\ a \in Nat /\ e = o + a
                       /\ a + one \in 1 .. Len(bare) /\ a + two \in 1 .. Len(bare)
          BY <4>2, <4>4, <4>6
        <5>2. Len(bare) \in Nat /\ o \in Nat /\ Len(text) = Len(bare) + o + o
          BY <1>7, <1>9
        <5>3. PICK E, T : E = Len(bare) /\ T = Len(text) /\ E \in Nat /\ T = E + o + o
          BY <5>2
        <5>4. one = 1 /\ two = 2 /\ a + one <= E /\ a \in Nat /\ o \in Nat /\ e = o + a
          BY <4>3, <5>1, <5>2, <5>3
        <5>5. o + (a + one) = e + 1 /\ o + (a + two) = e + 2
          BY <5>4
        <5>6. e + 1 \in 1 .. T
          BY <5>3, <5>4
        <5> QED BY <5>1, <5>3, <5>5, <5>6
      <4>8. text[e + 1].kind = "text" /\ text[e + 2].kind = "old"
        BY <4>2, <4>3, <4>5, <4>7
      <4> QED BY <4>7, <4>8 DEF EndsSection, Opens
    <3> QED BY <3>1, <3>2
  <2> QED BY <2>3, <2>4, <2>5 DEF L
<1>12. ASSUME NEW n \in 1 .. N, NEW p \in Hunks(ss[n]), NEW k \in DOMAIN sections[n].hunks,
              WrittenHunk(ss[n], p, sections[n].hunks[k], <<n, k>>)
       PROVE  /\ o + at[n] + p \in Hunks(text)
              /\ StandsAs(text, o + at[n] + p, sections[n], n, k)
  <2>1. IsProposedHunk(sections[n].hunks[k])
    BY DEF IsSection
  <2> DEFINE off == o + at[n]
  <2>2. /\ off \in Nat /\ off + Len(ss[n]) <= Len(text)
        /\ \A j \in 1 .. Len(ss[n]) : text[off + j] = ss[n][j]
        /\ EndsSection(text, off + Len(ss[n]))
    BY <1>11
  <2> HIDE DEF off
  <2>3. off + p \in Hunks(text) /\ StandsAs(text, off + p, sections[n], n, k)
    BY <1>5, <1>9, <1>12, <2>1, <2>2, HunkIsPlaced
  <2> QED BY <2>3 DEF off
<1>13. ASSUME NEW i \in Hunks(text)
       PROVE  \E n \in 1 .. N : \E k \in DOMAIN sections[n].hunks :
                 StandsAs(text, i, sections[n], n, k)
  <2>1. i \in 1 .. Len(text) /\ text[i].kind = "hunk"
    BY <1>9 DEF Hunks
  <2>2. i - o \in 1 .. Len(bare) /\ o + (i - o) = i
    <3>1. CASE o = 0
      BY <1>7, <1>9, <2>1, <3>1
    <3>2. CASE o = 1
      <4>1. i # 1 /\ i # Len(text)
        BY <1>9, <2>1, <3>2
      <4> QED BY <1>7, <1>9, <2>1, <3>2, <4>1
    <3> QED BY <1>9, <3>1, <3>2
  <2>3. PICK p : p = i - o /\ p \in 1 .. Len(bare) /\ o + p = i
    BY <2>2
  <2>4. PICK n \in 1 .. N : \E j \in 1 .. Len(ss[n]) : p = at[n] + j
    BY <1>7, <2>3
  <2>5. PICK j \in 1 .. Len(ss[n]) : p = at[n] + j
    BY <2>4
  <2>6. text[i] = ss[n][j]
    <3>1. bare[p] = ss[n][j]
      BY <1>7, <2>5
    <3>2. text[o + p] = bare[p]
      BY <1>9, <2>3
    <3> QED BY <2>3, <3>1, <3>2
  <2>7. j \in Hunks(ss[n])
    BY <1>10, <2>1, <2>6 DEF Hunks
  <2>8. PICK k \in DOMAIN sections[n].hunks : WrittenHunk(ss[n], j, sections[n].hunks[k], <<n, k>>)
    BY <1>5, <2>7 DEF WrittenSection
  <2>9. StandsAs(text, o + at[n] + j, sections[n], n, k)
    BY <1>12, <2>7, <2>8
  <2>10. o + at[n] + j = i
    <3>1. at[n] \in Nat /\ j \in Nat
      BY <1>7, <1>10
    <3> QED BY <1>9, <2>3, <2>5, <3>1
  <2> QED BY <2>9, <2>10
<1>14. ASSUME NEW n \in 1 .. N, NEW k \in DOMAIN sections[n].hunks
       PROVE  \E i \in Hunks(text) : StandsAs(text, i, sections[n], n, k)
  <2>1. PICK p \in Hunks(ss[n]) : WrittenHunk(ss[n], p, sections[n].hunks[k], <<n, k>>)
    BY <1>5 DEF WrittenSection
  <2> QED BY <1>12, <2>1
<1>15. WrittenText(text, sections)
  BY <1>1, <1>9, <1>13, <1>14 DEF WrittenText
<1> QED BY <1>15 DEF text

(***************************************************************************)
(* What loading makes of that text.                                        *)
(***************************************************************************)

(* The hunk at line q of a loaded file is hunk k of section n, repaired.   *)
IsLoadedHunk(loaded, q, h, id) ==
    /\ loaded[q].hunk = id /\ Left(h) # 0
    /\ HunkAt(loaded, q) = LegibleOf(h, id)
    /\ loaded[q].old = OldCount(LegibleOf(h, id))
    /\ loaded[q].new = NewCount(LegibleOf(h, id))

(* Hunk q stands under the header of its section's file, corrected.        *)
IsUnder(loaded, q, s) ==
    \E line : /\ line.kind = "new" /\ line.path = s.new
              /\ IsLine(line) /\ Over(loaded, q, RemapHeader(line))

(* What loading makes of the text: its hunks are those proposed.           *)
LoadedFrom(loaded, sections) ==
    /\ IsText(loaded)
    /\ \A q \in Hunks(loaded) : \E n \in DOMAIN sections : \E k \in DOMAIN sections[n].hunks :
          /\ IsLoadedHunk(loaded, q, sections[n].hunks[k], <<n, k>>)
          /\ Left(sections[n].hunks[1]) # 0 => IsUnder(loaded, q, sections[n])
    /\ \A n \in DOMAIN sections : \A k \in DOMAIN sections[n].hunks :
          Left(sections[n].hunks[k]) # 0 =>
             \E q \in Hunks(loaded) : loaded[q].hunk = <<n, k>>

(* What loading makes of a file the sections were written into.            *)
LEMMA LoadedHunks ==
    ASSUME NEW sections, NEW text, WrittenText(text, sections),
           \A n \in DOMAIN sections : IsSection(sections[n])
    PROVE  LoadedFrom(Loaded(text), sections)
<1>1. /\ IsText(text)
      /\ \A i \in Hunks(text) :
            \E n \in DOMAIN sections : \E k \in DOMAIN sections[n].hunks :
               StandsAs(text, i, sections[n], n, k)
      /\ \A n \in DOMAIN sections : \A k \in DOMAIN sections[n].hunks :
            \E i \in Hunks(text) : StandsAs(text, i, sections[n], n, k)
  BY DEF WrittenText
<1>2. ASSUME NEW n \in DOMAIN sections, NEW k \in DOMAIN sections[n].hunks,
             NEW i, StandsAs(text, i, sections[n], n, k)
      PROVE  LET h == sections[n].hunks[k]
             IN  /\ Survives(text, i) <=> Left(h) # 0
                 /\ KeepHunkLines(HunkAt(text, i)) = LegibleOf(h, <<n, k>>)
  <2> DEFINE h == sections[n].hunks[k]
  <2>1. IsProposedHunk(h)
    BY DEF IsSection
  <2>2. IsBody(HunkAt(text, i), Damaged(h, <<n, k>>))
    BY <1>2 DEF StandsAs
  <2> HIDE DEF h
  <2>3. /\ KeepHunkLines(HunkAt(text, i)) = LegibleOf(h, <<n, k>>)
        /\ Left(h) = 0 <=> /\ OldCount(LegibleOf(h, <<n, k>>)) = 0
                           /\ NewCount(LegibleOf(h, <<n, k>>)) = 0
    BY <2>1, <2>2, KeptIsLegible
  <2>4. Survives(text, i) <=> Left(h) # 0
    BY <2>3 DEF Survives
  <2> QED BY <2>3, <2>4 DEF h
<1>3. Plain(text)
  <2> SUFFICES ASSUME NEW i \in Hunks(text)
               PROVE  \A j \in i + 1 .. BodyEnd(text, i) : text[j].kind # "new"
    BY DEF Plain
  <2>1. PICK n \in DOMAIN sections : \E k \in DOMAIN sections[n].hunks :
          StandsAs(text, i, sections[n], n, k)
    BY <1>1
  <2>2. PICK k \in DOMAIN sections[n].hunks : StandsAs(text, i, sections[n], n, k)
    BY <2>1
  <2> QED BY <2>2 DEF StandsAs
<1>7. ASSUME NEW i \in Hunks(text), NEW n \in DOMAIN sections, NEW k \in DOMAIN sections[n].hunks,
             StandsAs(text, i, sections[n], n, k), Left(sections[n].hunks[1]) # 0
      PROVE  \E line : /\ IsLine(line) /\ line.kind = "new" /\ line.path = sections[n].new
                       /\ Governs(text, i, line)
  <2>1. PICK t \in 1 .. i - 1 :
          /\ IsLine(text[t]) /\ text[t].kind = "new" /\ text[t].path = sections[n].new
          /\ \A j \in t + 1 .. i - 1 : text[j].kind # "new"
          /\ text[t + 1].kind = "hunk" /\ text[t + 1].hunk = <<n, 1>>
    BY <1>7 DEF StandsAs
  <2>2. i \in 1 .. Len(text) /\ Len(text) \in Nat /\ DOMAIN text = 1 .. Len(text)
    BY <1>1, ListPlaces DEF Hunks, IsText
  <2>3. PICK f : f = t + 1 /\ f \in 1 .. Len(text)
    BY <2>1, <2>2
  <2>4. f \in Hunks(text)
    BY <2>1, <2>2, <2>3 DEF Hunks
  <2>5. PICK m \in DOMAIN sections : \E l \in DOMAIN sections[m].hunks :
          StandsAs(text, f, sections[m], m, l)
    BY <1>1, <2>4
  <2>6. PICK l \in DOMAIN sections[m].hunks : StandsAs(text, f, sections[m], m, l)
    BY <2>5
  <2>7. m = n /\ l = 1
    <3>1. text[f].hunk = <<m, l>> /\ text[f].hunk = <<n, 1>>
      BY <2>1, <2>3, <2>6 DEF StandsAs
    <3> QED BY <3>1
  <2>8. Survives(text, f)
    BY <1>2, <1>7, <2>6, <2>7
  <2>9. ASSUME NEW x \in t + 1 .. i - 1, text[x].kind = "hunk", ~Survives(text, x)
        PROVE  \E j \in t + 1 .. x - 1 : text[j].kind = "hunk"
    <3>1. x # f
      BY <2>8, <2>9
    <3>2. f \in t + 1 .. x - 1
      BY <2>1, <2>2, <2>3, <3>1
    <3> QED BY <2>1, <2>3, <3>2
  <2>10. Governs(text, i, text[t])
    BY <2>1, <2>9 DEF Governs
  <2> QED BY <2>1, <2>10
<1> DEFINE out == NormalizeUnifiedDiff(text)
           loaded == RemapDiffPaths(out)
<1>4. Loaded(text) = loaded
  BY DEF Loaded
<1>5. CASE Hunks(text) = {}
  <2>1. out = text
    BY <1>1, <1>5, NormalizedIs DEF IsText
  <2> HIDE DEF out
  <2>2. IsText(loaded) /\ Hunks(loaded) = Hunks(out)
    BY <1>1, <2>1, RemapIs
  <2>3. \A n \in DOMAIN sections : \A k \in DOMAIN sections[n].hunks : FALSE
    BY <1>1, <1>5
  <2> QED BY <1>4, <1>5, <2>1, <2>2, <2>3 DEF LoadedFrom
<1>6. CASE Hunks(text) # {}
  <2>1. PICK s : /\ s.out = out /\ s.at = Len(text) + 1 /\ Whole(text, s) /\ Recovered(text, s)
    BY <1>1, <1>6, NormalizedIsWhole
  <2> HIDE DEF out
  <2>2. Settled(out) /\ IsText(out)
    BY <1>1, <2>1, WholeIsSettled DEF Settled
  <2>3. /\ IsText(loaded) /\ Len(loaded) = Len(out)
        /\ \A k \in 1 .. Len(out) : /\ loaded[k] = RemapHeader(out[k])
                                    /\ loaded[k].kind = out[k].kind
        /\ Hunks(loaded) = Hunks(out)
        /\ \A q \in Hunks(out) :
              /\ loaded[q] = out[q]
              /\ (\A j \in DOMAIN HunkAt(out, q) : IsHunkBody(HunkAt(out, q)[j])) =>
                    HunkAt(loaded, q) = HunkAt(out, q)
    BY <2>2, RemapIs
  <2>4. /\ Len(out) \in Nat /\ DOMAIN out = 1 .. Len(out)
        /\ Len(text) \in Nat /\ DOMAIN text = 1 .. Len(text)
    BY <1>1, <2>2, ListPlaces DEF IsText
  <2> HIDE DEF loaded
  <2>5. ASSUME NEW q \in Hunks(out), NEW line, Over(out, q, line)
        PROVE  Over(loaded, q, RemapHeader(line))
    <3>1. PICK t \in 1 .. q - 1 : /\ out[t].kind = "new" /\ out[t] = line
                                  /\ \A j \in t + 1 .. q - 1 : out[j].kind # "new"
      BY <2>5 DEF Over
    <3>2. q \in 1 .. Len(out)
      BY <2>4 DEF Hunks
    <3>3. t \in 1 .. Len(out) /\ \A j \in t + 1 .. q - 1 : j \in 1 .. Len(out)
      BY <2>4, <3>2
    <3>4. loaded[t] = RemapHeader(line) /\ loaded[t].kind = "new"
      BY <2>3, <3>1, <3>3
    <3>5. \A j \in t + 1 .. q - 1 : loaded[j].kind # "new"
      BY <2>3, <3>1, <3>3
    <3> QED BY <3>1, <3>4, <3>5 DEF Over
  <2>6. ASSUME NEW q \in Hunks(loaded)
        PROVE  \E n \in DOMAIN sections : \E k \in DOMAIN sections[n].hunks :
                  /\ IsLoadedHunk(loaded, q, sections[n].hunks[k], <<n, k>>)
                  /\ Left(sections[n].hunks[1]) # 0 => IsUnder(loaded, q, sections[n])
    <3>1. q \in Hunks(out)
      BY <2>3
    <3>2. PICK i \in Hunks(text) : From(text, i, out, q)
      BY <2>1, <3>1 DEF Whole
    <3>3. /\ Survives(text, i) /\ out[q] = Recounted(text, i)
          /\ HunkAt(out, q) = KeepHunkLines(HunkAt(text, i))
          /\ \A line : Governs(text, i, line) => Over(out, q, line)
      BY <1>3, <3>2 DEF From
    <3>4. PICK n \in DOMAIN sections : \E k \in DOMAIN sections[n].hunks :
            StandsAs(text, i, sections[n], n, k)
      BY <1>1
    <3>5. PICK k \in DOMAIN sections[n].hunks : StandsAs(text, i, sections[n], n, k)
      BY <3>4
    <3> DEFINE h == sections[n].hunks[k]
               meant == LegibleOf(h, <<n, k>>)
    <3>6. Left(h) # 0 /\ KeepHunkLines(HunkAt(text, i)) = meant
      BY <1>2, <3>3, <3>5
    <3> HIDE DEF h, meant
    <3>7. IsLine(text[i])
      BY <1>1 DEF IsText, Hunks
    <3>8. out[q].hunk = text[i].hunk /\ out[q].old = OldCount(meant) /\ out[q].new = NewCount(meant)
      BY <3>3, <3>6, <3>7, RecountedIs
    <3>9. loaded[q] = out[q] /\ HunkAt(loaded, q) = meant
      <4>1. \A j \in DOMAIN HunkAt(out, q) : IsHunkBody(HunkAt(out, q)[j])
        BY <2>2, <3>1 DEF Settled
      <4> QED BY <2>3, <3>1, <3>3, <3>6, <4>1
    <3>10. text[i].hunk = <<n, k>>
      BY <3>5 DEF StandsAs
    <3>11. ASSUME Left(sections[n].hunks[1]) # 0 PROVE IsUnder(loaded, q, sections[n])
      <4>1. PICK line : /\ IsLine(line) /\ line.kind = "new" /\ line.path = sections[n].new
                        /\ Governs(text, i, line)
        BY <1>7, <3>5, <3>11
      <4>2. Over(loaded, q, RemapHeader(line))
        BY <2>5, <3>1, <3>3, <3>11, <4>1
      <4> QED BY <4>1, <4>2 DEF IsUnder
    <3>12. IsLoadedHunk(loaded, q, h, <<n, k>>)
      BY <3>6, <3>8, <3>9, <3>10 DEF IsLoadedHunk, meant
    <3> QED BY <3>11, <3>12 DEF h
  <2>7. ASSUME NEW n \in DOMAIN sections, NEW k \in DOMAIN sections[n].hunks,
               Left(sections[n].hunks[k]) # 0
        PROVE  \E q \in Hunks(loaded) : loaded[q].hunk = <<n, k>>
    <3>1. PICK i \in Hunks(text) : StandsAs(text, i, sections[n], n, k)
      BY <1>1
    <3>2. Survives(text, i) /\ text[i].hunk = <<n, k>>
      BY <1>2, <2>7, <3>1 DEF StandsAs
    <3>3. i < s.at
      <4>1. i \in 1 .. Len(text)
        BY <2>4 DEF Hunks
      <4> QED BY <2>1, <2>4, <4>1
    <3>4. PICK q \in Hunks(out) : out[q].hunk = text[i].hunk
      BY <2>1, <3>2, <3>3 DEF Recovered
    <3> QED BY <2>3, <3>2, <3>4
  <2> QED BY <1>4, <2>3, <2>6, <2>7 DEF LoadedFrom
<1> QED BY <1>5, <1>6

(* The last header over a place is the line that stands over it.           *)
LEMMA HeaderOverIs ==
    ASSUME NEW text, IsText(text), NEW q \in 1 .. Len(text), NEW line, Over(text, q, line)
    PROVE  HeaderOver(text, q) # 0 /\ text[HeaderOver(text, q)] = line
<1> DEFINE above == {k \in 1 .. q - 1 : text[k].kind = "new"}
           m == Max(above)
<1>1. HeaderOver(text, q) = IF above # {} THEN m ELSE 0
  BY DEF HeaderOver, SelectLastInSubSeq
<1>2. PICK t \in 1 .. q - 1 : /\ text[t].kind = "new" /\ text[t] = line
                              /\ \A j \in t + 1 .. q - 1 : text[j].kind # "new"
  BY DEF Over
<1>3. t \in above /\ q - 1 \in Nat /\ \A x \in above : x \in 1 .. q - 1 /\ text[x].kind = "new"
  BY <1>2
<1>4. m \in above /\ \A x \in above : x <= m
  <2> HIDE DEF above
  <2> QED BY <1>3, GreatestPlace
<1>5. m \in 1 .. q - 1 /\ text[m].kind = "new" /\ t <= m /\ above # {}
  BY <1>3, <1>4
<1> HIDE DEF m, above
<1>6. m = t
  <2> SUFFICES ASSUME m # t PROVE FALSE
    OBVIOUS
  <2>1. m \in t + 1 .. q - 1
    BY <1>2, <1>5
  <2> QED BY <1>2, <1>5, <2>1
<1> QED BY <1>1, <1>2, <1>5, <1>6

(* A path is a suffix of itself.                                           *)
LEMMA SuffixOfItself ==
    ASSUME NEW path \in Seq(STRING)
    PROVE  IsSuffix(path, path)
<1> DEFINE r == Reverse(path)
<1>1. Len(path) \in Nat /\ r = [i \in 1 .. Len(path) |-> path[(Len(path) - i) + 1]]
  BY DEF Reverse
<1>2. r \in Seq(STRING)
  <2>1. \A i \in 1 .. Len(path) : (Len(path) - i) + 1 \in 1 .. Len(path)
    BY <1>1
  <2>2. \A i \in 1 .. Len(path) : path[(Len(path) - i) + 1] \in STRING
    BY <2>1
  <2> QED BY <1>1, <2>2
<1> HIDE DEF r
<1>3. Len(r) <= Len(r)
  BY <1>2
<1> QED BY <1>3 DEF IsSuffix, IsPrefix, r

(* A header whose name can only mean one file is read as that file.        *)
LEMMA HeaderIsRead ==
    ASSUME NEW line, IsLine(line), line.kind = "new", line.path \in Seq(STRING),
           line.path # DevNull, NEW file \in Tree, IsSuffix(line.path, file),
           \/ line.path = file
           \/ /\ {f \in Tree : IsSuffix(line.path, f)} = {file}
              /\ ~Touches(file, Unsearched)
    PROVE  PathRead(RemapHeader(line)) = file
<1>1. IsHeader(line)
  BY DEF IsHeader
<1>2. CASE line.path \in Tree
  <2>1. line.path = file
    <3>1. IsSuffix(line.path, line.path)
      BY SuffixOfItself
    <3> QED BY <1>2, <3>1
  <2>2. RemapHeader(line) = [line EXCEPT !.ns = TRUE]
    BY <1>1, <1>2 DEF RemapHeader
  <2> DEFINE fixed == [line EXCEPT !.ns = TRUE]
  <2>3. fixed.ns /\ fixed.path = line.path
    BY DEF IsLine
  <2> HIDE DEF fixed
  <2>4. PathRead(fixed) = file
    BY <2>1, <2>3 DEF PathRead
  <2> QED BY <2>2, <2>4 DEF fixed
<1>3. CASE line.path \notin Tree
  <2> DEFINE matches == SuffixMatches(line.path)
             named == CHOOSE f \in matches : TRUE
             fixed == [line EXCEPT !.ns = TRUE, !.path = named]
  <2>1. /\ {f \in Tree : IsSuffix(line.path, f)} = {file}
        /\ ~Touches(file, Unsearched)
    BY <1>3
  <2>2. matches = {file}
    BY <2>1 DEF SuffixMatches
  <2> HIDE DEF matches
  <2>3. Cardinality(matches) = 1 /\ named = file
    BY <2>2, FS_Singleton
  <2>4. RemapHeader(line) = fixed
    BY <1>1, <1>3, <2>3 DEF RemapHeader, matches
  <2> HIDE DEF named
  <2>5. fixed.ns /\ fixed.path = named
    BY DEF IsLine
  <2> HIDE DEF fixed
  <2>6. PathRead(fixed) = file
    BY <2>3, <2>5 DEF PathRead
  <2> QED BY <2>4, <2>6
<1> QED BY <1>2, <1>3

(***************************************************************************)
(* The invariants of a preparation.                                        *)
(***************************************************************************)

(* A patch is prepared with its names validated as they stand in the file, *)
(* and the worktree it changed judged.                                     *)
GuardsTheTree(at, lines, files, accepted) ==
    /\ IsList(accepted)
    /\ at \in {"worktree", "applied", "prepared"} => ValidateUnifiedDiff(lines)
    /\ at = "prepared" => ~RejectProtectedChanges(files)
    /\ \A n \in DOMAIN accepted : ValidateUnifiedDiff(accepted[n])

(* The inductive invariant of it: see GuardsTheTree.                       *)
GuardInv == GuardsTheTree(prepare, patch, changed, prepared)

(* A file git applies under a name that passed is not a guarded one.       *)
LEMMA GitReachesNothingGuarded ==
    ASSUME NEW lines, IsList(lines), ValidateUnifiedDiff(lines), GitReads(lines)
    PROVE  \A file \in GitTargets(lines) : ~RejectPatchPath(file)
<1> SUFFICES ASSUME NEW i \in Hunks(lines)
             PROVE  ~RejectPatchPath(PathRead(lines[HeaderOver(lines, i)]))
  BY DEF GitTargets
<1> DEFINE h == HeaderOver(lines, i)
           above == {k \in 1 .. i - 1 : lines[k].kind = "new"}
<1>1. h # 0 /\ PathRead(lines[h]) \in Tree
  BY DEF GitReads
<1>2. h = IF above # {} THEN Max(above) ELSE 0
  BY DEF HeaderOver, SelectLastInSubSeq
<1>3. DOMAIN lines = 1 .. Len(lines) /\ Len(lines) \in Nat /\ i \in DOMAIN lines
  BY ListPlaces DEF Hunks
<1>4. h \in above
  <2>1. above # {} /\ h = Max(above)
    BY <1>1, <1>2
  <2>2. i - 1 \in Nat /\ \A k \in above : k \in 1 .. i - 1
    BY <1>3
  <2> HIDE DEF above
  <2> QED BY <2>1, <2>2, GreatestPlace
<1>5. h \in DOMAIN lines /\ lines[h].kind = "new"
  BY <1>3, <1>4
<1> HIDE DEF h
<1>6. ~NameRefused(lines[h])
  BY <1>5 DEF ValidateUnifiedDiff
<1>7. CASE lines[h].path # DevNull
  <2>1. /\ ~RejectPatchPath(lines[h].path)
        /\ lines[h].ns \/ ~RejectPatchPath(StripComponent(lines[h].path))
    BY <1>5, <1>6, <1>7 DEF NameRefused, IsHeader
  <2>2. ~RejectPatchPath(PathRead(lines[h]))
    BY <2>1 DEF PathRead
  <2> QED BY <2>2 DEF h
<1>8. CASE lines[h].path = DevNull
  <2>1. PathRead(lines[h]) = DevNull
    BY <1>8 DEF PathRead, StripComponent, DevNull
  <2> QED BY <1>1, <2>1, PatchAssumption DEF h
<1> QED BY <1>7, <1>8

(* It holds in every state of a preparation.                               *)
LEMMA GuardInvariant == PatchSpec => []GuardInv
<1>1. PatchInit => GuardInv
  <2>1. IsList(<<>>) /\ \A n \in DOMAIN <<>> : FALSE
    BY DEF IsList
  <2> QED BY <2>1 DEF PatchInit, GuardInv, GuardsTheTree
<1>2. GuardInv /\ [PatchNext]_patchVars => GuardInv'
  <2> SUFFICES ASSUME GuardInv, [PatchNext]_patchVars
               PROVE  GuardsTheTree(prepare', patch', changed', prepared')
    BY DEF GuardInv
  <2>1. /\ IsList(prepared) /\ \A n \in DOMAIN prepared : ValidateUnifiedDiff(prepared[n])
        /\ prepare \in {"worktree", "applied", "prepared"} => ValidateUnifiedDiff(patch)
        /\ prepare = "prepared" => ~RejectProtectedChanges(changed)
    BY DEF GuardInv, GuardsTheTree
  <2>2. CASE Propose \/ LoadPreparedPatch \/ PatchDoesNotApply \/ PrepareAgain
    BY <2>1, <2>2
    DEF Propose, LoadPreparedPatch, PatchDoesNotApply, PrepareAgain, GuardsTheTree
  <2>3. CASE ValidatePatch
    BY <2>1, <2>3 DEF ValidatePatch, GuardsTheTree
  <2>4. CASE ApplyPatch \/ ApplyPatchFuzzy
    BY <2>1, <2>4 DEF ApplyPatch, ApplyPatchFuzzy, GuardsTheTree
  <2>5. CASE JudgeWorktree
    <3>1. CASE RejectProtectedChanges(changed)
      BY <2>1, <2>5, <3>1 DEF JudgeWorktree, GuardsTheTree
    <3>2. CASE ~RejectProtectedChanges(changed)
      <4>1. /\ prepared' = Append(prepared, patch) /\ prepare' = "prepared"
            /\ changed' = changed /\ patch' = patch /\ ValidateUnifiedDiff(patch)
        BY <2>1, <2>5, <3>2 DEF JudgeWorktree
      <4>2. IsList(prepared') /\ \A n \in DOMAIN prepared' : ValidateUnifiedDiff(prepared'[n])
        <5> DEFINE accepted == Append(prepared, patch)
        <5>1. /\ IsList(accepted) /\ DOMAIN accepted = DOMAIN prepared \cup {Len(prepared) + 1}
              /\ \A n \in DOMAIN prepared : accepted[n] = prepared[n]
              /\ accepted[Len(prepared) + 1] = patch
          BY <2>1, AppendToList
        <5> HIDE DEF accepted
        <5>2. \A n \in DOMAIN accepted : ValidateUnifiedDiff(accepted[n])
          BY <2>1, <4>1, <5>1
        <5> QED BY <4>1, <5>1, <5>2 DEF accepted
      <4> QED BY <3>2, <4>1, <4>2 DEF GuardsTheTree
    <3> QED BY <3>1, <3>2
  <2>6. CASE UNCHANGED patchVars
    BY <2>1, <2>6 DEF patchVars, GuardsTheTree
  <2> QED BY <2>2, <2>3, <2>4, <2>5, <2>6 DEF PatchNext
<1> QED BY <1>1, <1>2, PTL DEF PatchSpec

(* Invariant of every preparation: whichever tool applied a patch that is  *)
(* prepared, no guarded file changed, and every patch file that was ever   *)
(* prepared names none: git, applying it again, reaches no guarded file    *)
(* (ValidateUnifiedDiff, rejectProtectedChanges).                          *)
PreparedIsGuarded ==
    /\ prepare = "prepared" => \A file \in changed : ~RejectPatchPath(file)
    /\ \A n \in DOMAIN prepared :
          IsList(prepared[n]) /\ GitReads(prepared[n]) =>
              \A file \in GitTargets(prepared[n]) : ~RejectPatchPath(file)

(* Theorem of every preparation: a prepared patch changes no guarded file, *)
(* and neither does git when it applies it again, for every tree and every *)
(* proposal (ValidateUnifiedDiff, rejectProtectedChanges).                 *)
THEOREM PreparedReachesNothingGuarded == PatchSpec => []PreparedIsGuarded
<1>1. GuardInv => PreparedIsGuarded
  <2> SUFFICES ASSUME GuardInv PROVE PreparedIsGuarded
    OBVIOUS
  <2>1. prepare = "prepared" => \A file \in changed : ~RejectPatchPath(file)
    BY DEF GuardInv, GuardsTheTree, RejectProtectedChanges
  <2>2. \A n \in DOMAIN prepared : ValidateUnifiedDiff(prepared[n])
    BY DEF GuardInv, GuardsTheTree
  <2>3. ASSUME NEW n \in DOMAIN prepared, IsList(prepared[n]), GitReads(prepared[n])
        PROVE  \A file \in GitTargets(prepared[n]) : ~RejectPatchPath(file)
    BY <2>2, <2>3, GitReachesNothingGuarded
  <2> QED BY <2>1, <2>3 DEF PreparedIsGuarded
<1> QED BY <1>1, GuardInvariant, PTL

(* Every section is one a model may write.                                 *)
LEMMA SectionsAre == \A s \in Sections : IsSection(s)
  BY SectionsAssumption DEF IsSection

(* A patch file is the proposal as it was written, or what loading makes   *)
(* of that, and every file that was prepared is the latter.                *)
TellsTheProposal(at, sections, lines, accepted) ==
    /\ IsList(accepted)
    /\ at = "none" => \A n \in DOMAIN accepted : FALSE
    /\ at # "none" =>
          \E n \in 1 .. MaxSections : \E fenced \in BOOLEAN :
             LET text == Text(sections, fenced)
             IN  /\ sections \in [1 .. n -> Sections]
                 /\ \/ lines = Loaded(text)
                    \/ lines = text /\ at = "proposed" /\ \A m \in DOMAIN accepted : FALSE
                 /\ \A m \in DOMAIN accepted : accepted[m] = Loaded(text)

(* The inductive invariant of it: see TellsTheProposal.                    *)
TextInv == TellsTheProposal(prepare, proposal, patch, prepared)

(* The text of every proposal is written as its sections say.              *)
LEMMA WrittenIs ==
    ASSUME NEW n \in 1 .. MaxSections, NEW sections \in [1 .. n -> Sections],
           NEW fenced \in BOOLEAN
    PROVE  /\ WrittenText(Text(sections, fenced), sections)
           /\ \A m \in DOMAIN sections : IsSection(sections[m])
           /\ IsText(Text(sections, fenced))
<1>1. n \in Nat /\ sections = [m \in 1 .. n |-> sections[m]] /\ DOMAIN sections = 1 .. n
  BY PatchAssumption
<1>2. \A m \in 1 .. n : IsSection(sections[m])
  BY SectionsAre
<1>3. WrittenText(Text(sections, fenced), sections)
  BY <1>1, <1>2, TextIsWritten
<1> QED BY <1>1, <1>2, <1>3 DEF WrittenText

(* It holds in every state of a preparation.                               *)
LEMMA TextInvariant == PatchSpec => []TextInv
<1>1. PatchInit => TextInv
  <2>1. IsList(<<>>) /\ \A n \in DOMAIN <<>> : FALSE
    BY DEF IsList
  <2> QED BY <2>1 DEF PatchInit, TextInv, TellsTheProposal
<1>2. TextInv /\ [PatchNext]_patchVars => TextInv'
  <2> SUFFICES ASSUME TextInv, [PatchNext]_patchVars
               PROVE  TellsTheProposal(prepare', proposal', patch', prepared')
    BY DEF TextInv
  <2>1. TellsTheProposal(prepare, proposal, patch, prepared)
    BY DEF TextInv
  <2>2. CASE Propose
    <3>1. PICK n \in 1 .. MaxSections : \E sections \in [1 .. n -> Sections], fenced \in BOOLEAN :
            proposal' = sections /\ patch' = Text(sections, fenced)
      BY <2>2 DEF Propose
    <3>2. PICK sections \in [1 .. n -> Sections], fenced \in BOOLEAN :
            proposal' = sections /\ patch' = Text(sections, fenced)
      BY <3>1
    <3>3. prepare = "none" /\ prepare' = "proposed" /\ prepared' = prepared
      BY <2>2 DEF Propose
    <3>4. IsList(prepared) /\ \A m \in DOMAIN prepared : FALSE
      BY <2>1, <3>3 DEF TellsTheProposal
    <3> QED BY <3>2, <3>3, <3>4 DEF TellsTheProposal
  <2>3. CASE LoadPreparedPatch
    <3>1. /\ prepare = "proposed" /\ prepare' = "loaded" /\ proposal' = proposal
          /\ prepared' = prepared /\ patch' = Loaded(patch)
      BY <2>3 DEF LoadPreparedPatch, Loaded
    <3>2. PICK n \in 1 .. MaxSections, fenced \in BOOLEAN :
            LET text == Text(proposal, fenced)
            IN  /\ proposal \in [1 .. n -> Sections]
                /\ \/ patch = Loaded(text)
                   \/ patch = text /\ prepare = "proposed" /\ \A m \in DOMAIN prepared : FALSE
                /\ \A m \in DOMAIN prepared : prepared[m] = Loaded(text)
      BY <2>1, <3>1 DEF TellsTheProposal
    <3> DEFINE text == Text(proposal, fenced)
    <3>3. IsText(text)
      BY <3>2, WrittenIs
    <3> HIDE DEF text
    <3>4. Loaded(Loaded(text)) = Loaded(text)
      BY <3>3, LoadingSettles
    <3>5. patch' = Loaded(text)
      BY <3>1, <3>2, <3>4 DEF text
    <3>6. IsList(prepared)
      BY <2>1 DEF TellsTheProposal
    <3> QED BY <3>1, <3>2, <3>5, <3>6 DEF TellsTheProposal, text
  <2>4. CASE ValidatePatch \/ ApplyPatch \/ ApplyPatchFuzzy \/ PatchDoesNotApply
    <3>1. /\ prepare \in {"loaded", "worktree"} /\ prepare' # "none"
          /\ UNCHANGED <<proposal, patch, prepared>>
      BY <2>4 DEF ValidatePatch, ApplyPatch, ApplyPatchFuzzy, PatchDoesNotApply
    <3> QED BY <2>1, <3>1 DEF TellsTheProposal
  <2>5. CASE PrepareAgain
    <3>1. /\ prepare = "prepared" /\ prepare' = "proposed"
          /\ UNCHANGED <<proposal, patch, prepared>>
      BY <2>5 DEF PrepareAgain
    <3> QED BY <2>1, <3>1 DEF TellsTheProposal
  <2>6. CASE JudgeWorktree
    <3>1. /\ prepare = "applied" /\ prepare' \in {"refused", "prepared"}
          /\ UNCHANGED <<proposal, patch>>
      BY <2>6 DEF JudgeWorktree
    <3>2. PICK n \in 1 .. MaxSections, fenced \in BOOLEAN :
            LET text == Text(proposal, fenced)
            IN  /\ proposal \in [1 .. n -> Sections]
                /\ patch = Loaded(text)
                /\ \A m \in DOMAIN prepared : prepared[m] = Loaded(text)
      BY <2>1, <3>1 DEF TellsTheProposal
    <3>3. IsList(prepared)
      BY <2>1 DEF TellsTheProposal
    <3>4. CASE prepared' = prepared
      BY <3>1, <3>2, <3>3, <3>4 DEF TellsTheProposal
    <3>5. CASE prepared' = Append(prepared, patch)
      <4> DEFINE accepted == Append(prepared, patch)
      <4>1. /\ IsList(accepted) /\ DOMAIN accepted = DOMAIN prepared \cup {Len(prepared) + 1}
            /\ \A m \in DOMAIN prepared : accepted[m] = prepared[m]
            /\ accepted[Len(prepared) + 1] = patch
        BY <3>3, AppendToList
      <4> HIDE DEF accepted
      <4>2. \A m \in DOMAIN accepted : accepted[m] = Loaded(Text(proposal, fenced))
        BY <3>2, <4>1
      <4>3. TellsTheProposal(prepare', proposal, patch, accepted)
        BY <3>1, <3>2, <4>1, <4>2 DEF TellsTheProposal
      <4> QED BY <3>1, <3>5, <4>3 DEF accepted
    <3> QED BY <2>6, <3>4, <3>5 DEF JudgeWorktree
  <2>7. CASE UNCHANGED patchVars
    BY <2>1, <2>7 DEF patchVars
  <2> QED BY <2>2, <2>3, <2>4, <2>5, <2>6, <2>7 DEF PatchNext
<1> QED BY <1>1, <1>2, PTL DEF PatchSpec

(* A patch file that was loaded is the proposal: each of its hunks is one  *)
(* of the proposal's, as far as it can be read, and under the header of    *)
(* its file when the first hunk of its section was kept.                   *)
LEMMA LoadedIsTheProposal ==
    ASSUME NEW n \in 1 .. MaxSections, proposal \in [1 .. n -> Sections],
           NEW fenced \in BOOLEAN, patch = Loaded(Text(proposal, fenced))
    PROVE  /\ \A i \in Hunks(patch) : Repaired(patch, i)
           /\ {patch[i].hunk : i \in Hunks(patch)} = {id \in ProposedHunks : ~Emptied(id)}
           /\ \A i \in Hunks(patch) : Headed(patch[i].hunk) => InItsFile(patch, i)
<1> DEFINE text == Text(proposal, fenced)
<1>1. WrittenText(text, proposal) /\ \A m \in DOMAIN proposal : IsSection(proposal[m])
  BY WrittenIs
<1>2. patch = Loaded(text)
  OBVIOUS
<1> HIDE DEF text
<1>3. LoadedFrom(patch, proposal)
  BY <1>1, <1>2, LoadedHunks
<1>4. ASSUME NEW m, NEW k
      PROVE  /\ Legible(<<m, k>>) = LegibleOf(proposal[m].hunks[k], <<m, k>>)
             /\ Emptied(<<m, k>>) <=> Left(proposal[m].hunks[k]) = 0
             /\ Headed(<<m, k>>) <=> Left(proposal[m].hunks[1]) # 0
  BY DEF Legible, LegibleOf, Emptied, Headed, Proposed
<1>5. ASSUME NEW id
      PROVE  id \in ProposedHunks <=>
                \E m \in DOMAIN proposal : \E k \in DOMAIN proposal[m].hunks : id = <<m, k>>
  BY DEF ProposedHunks
<1>6. ASSUME NEW i \in Hunks(patch) PROVE Repaired(patch, i)
  <2>1. PICK m \in DOMAIN proposal : \E k \in DOMAIN proposal[m].hunks :
          IsLoadedHunk(patch, i, proposal[m].hunks[k], <<m, k>>)
    BY <1>3 DEF LoadedFrom
  <2>2. PICK k \in DOMAIN proposal[m].hunks :
          IsLoadedHunk(patch, i, proposal[m].hunks[k], <<m, k>>)
    BY <2>1
  <2>3. Legible(patch[i].hunk) = LegibleOf(proposal[m].hunks[k], <<m, k>>)
    BY <1>4, <2>2 DEF IsLoadedHunk
  <2> QED BY <2>2, <2>3 DEF Repaired, IsLoadedHunk
<1>7. {patch[i].hunk : i \in Hunks(patch)} = {id \in ProposedHunks : ~Emptied(id)}
  <2>1. ASSUME NEW i \in Hunks(patch)
        PROVE  patch[i].hunk \in ProposedHunks /\ ~Emptied(patch[i].hunk)
    <3>1. PICK m \in DOMAIN proposal : \E k \in DOMAIN proposal[m].hunks :
            IsLoadedHunk(patch, i, proposal[m].hunks[k], <<m, k>>)
      BY <1>3 DEF LoadedFrom
    <3> QED BY <1>4, <1>5, <3>1 DEF IsLoadedHunk
  <2>2. ASSUME NEW id \in ProposedHunks, ~Emptied(id)
        PROVE  \E i \in Hunks(patch) : patch[i].hunk = id
    <3>1. PICK m \in DOMAIN proposal : \E k \in DOMAIN proposal[m].hunks : id = <<m, k>>
      BY <1>5
    <3>2. PICK k \in DOMAIN proposal[m].hunks : id = <<m, k>>
      BY <3>1
    <3>3. Left(proposal[m].hunks[k]) # 0
      BY <1>4, <2>2, <3>2
    <3> QED BY <1>3, <3>2, <3>3 DEF LoadedFrom
  <2> QED BY <2>1, <2>2
<1>8. ASSUME NEW i \in Hunks(patch), Headed(patch[i].hunk) PROVE InItsFile(patch, i)
  <2>1. PICK m \in DOMAIN proposal : \E k \in DOMAIN proposal[m].hunks :
          /\ IsLoadedHunk(patch, i, proposal[m].hunks[k], <<m, k>>)
          /\ Left(proposal[m].hunks[1]) # 0 => IsUnder(patch, i, proposal[m])
    BY <1>3 DEF LoadedFrom
  <2>3. PICK k : patch[i].hunk = <<m, k>>
    BY <2>1 DEF IsLoadedHunk
  <2>2. IsUnder(patch, i, proposal[m])
    BY <1>4, <1>8, <2>1, <2>3
  <2>4. PICK line : /\ line.kind = "new" /\ line.path = proposal[m].new
                    /\ IsLine(line) /\ Over(patch, i, RemapHeader(line))
    BY <2>2 DEF IsUnder
  <2>5. i \in 1 .. Len(patch)
    BY <1>3, ListPlaces DEF Hunks, IsText, LoadedFrom
  <2>6. /\ HeaderOver(patch, i) # 0
        /\ patch[HeaderOver(patch, i)] = RemapHeader(line)
    BY <1>3, <2>4, <2>5, HeaderOverIs DEF LoadedFrom
  <2> DEFINE named == proposal[m].new
             meant == {file \in Tree : named # DevNull /\ IsSuffix(named, file)}
  <2>7. named \in Seq(STRING)
    BY <1>1 DEF IsSection
  <2>8. ASSUME NEW file \in meant,
               named = file \/ (meant = {file} /\ ~Touches(file, Unsearched))
        PROVE  PathRead(RemapHeader(line)) = file
    <3>1. file \in Tree /\ named # DevNull /\ IsSuffix(named, file)
      OBVIOUS
    <3>2. meant = {f \in Tree : IsSuffix(named, f)}
      BY <3>1
    <3>3. \/ line.path = file
          \/ /\ {f \in Tree : IsSuffix(line.path, f)} = {file}
             /\ ~Touches(file, Unsearched)
      BY <2>4, <2>8, <3>2
    <3> QED BY <2>4, <2>7, <3>1, <3>3, HeaderIsRead
  <2>9. patch[i].hunk[1] = m
    BY <2>3
  <2> QED BY <2>6, <2>8, <2>9 DEF InItsFile
<1> QED BY <1>6, <1>7, <1>8

(* Theorem of every preparation: the patch that is prepared holds of each  *)
(* proposed hunk the lines up to the first that no hunk can hold, with     *)
(* their own counts, and no other hunk; a hunk whose section kept its      *)
(* first one stands under the file it was meant for; the patch is the file *)
(* written back, and changed no guarded file (NormalizeUnifiedDiff,        *)
(* RemapDiffPaths, rejectProtectedChanges).                                *)
THEOREM PreparingKeepsTheProposal == PatchSpec => []PreparedIsTheProposal
<1>1. TextInv /\ GuardInv => PreparedIsTheProposal
  <2> SUFFICES ASSUME TextInv, GuardInv, prepare = "prepared"
               PROVE  /\ \A i \in Hunks(patch) : Repaired(patch, i)
                      /\ {patch[i].hunk : i \in Hunks(patch)} =
                            {id \in ProposedHunks : ~Emptied(id)}
                      /\ \A i \in Hunks(patch) : Headed(patch[i].hunk) => InItsFile(patch, i)
                      /\ \A file \in changed : ~RejectPatchPath(file)
                      /\ \A n \in DOMAIN prepared : prepared[n] = patch
    BY DEF PreparedIsTheProposal
  <2>1. PICK n \in 1 .. MaxSections, fenced \in BOOLEAN :
          /\ proposal \in [1 .. n -> Sections] /\ patch = Loaded(Text(proposal, fenced))
          /\ \A m \in DOMAIN prepared : prepared[m] = Loaded(Text(proposal, fenced))
    BY DEF TextInv, TellsTheProposal
  <2>2. /\ \A i \in Hunks(patch) : Repaired(patch, i)
        /\ {patch[i].hunk : i \in Hunks(patch)} = {id \in ProposedHunks : ~Emptied(id)}
        /\ \A i \in Hunks(patch) : Headed(patch[i].hunk) => InItsFile(patch, i)
    BY <2>1, LoadedIsTheProposal
  <2>3. \A file \in changed : ~RejectPatchPath(file)
    BY DEF GuardInv, GuardsTheTree, RejectProtectedChanges
  <2>4. \A m \in DOMAIN prepared : prepared[m] = patch
    BY <2>1
  <2> QED BY <2>2, <2>3, <2>4
<1> QED BY <1>1, TextInvariant, GuardInvariant, PTL

=============================================================================
