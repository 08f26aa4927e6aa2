--------------------------- MODULE StrEditProofs ---------------------------
(***************************************************************************)
(* Theorems about StrEdit: the editing functions of rlstr, one after the   *)
(* other on the same array, are the operations on sequences they are named *)
(* for, and stay inside the array, for arrays and texts of any length.     *)
(***************************************************************************)
EXTENDS StrEdit, SequenceTheorems, WellFoundedInduction, TLAPS

(* The codes a text is made of.                                            *)
Codes == Nat \ {NUL}

(* m holds the text s, and behind the array what was there before.         *)
Holds(m, s) ==
  /\ m \in [Offsets -> Nat]
  /\ s \in Seq(Codes) /\ Len(s) < Size
  /\ \A i \in 1 .. Len(s) : m[i - 1] = s[i]
  /\ m[Len(s)] = NUL
  /\ \A i \in Offsets : i >= Size => m[i] = FOREIGN

(* m and w agree from the offset n on.                                     *)
SameFrom(m, w, n) == \A i \in Offsets : i >= n => m[i] = w[i]

-----------------------------------------------------------------------------
(* Sequences                                                               *)

(* Numbers of which there is one have a least one.                         *)
LEMMA LeastExists ==
  ASSUME NEW S \in SUBSET Nat, S # {}
  PROVE  Min(S) \in S /\ \A x \in S : Min(S) <= x
<1>1. PICK x \in S : \A y \in S : ~(<<y, x>> \in OpToRel(<, Nat))
  BY WFMin, NatLessThanWellFounded
<1>2. ASSUME NEW y \in S, y < x
      PROVE  <<y, x>> \in OpToRel(<, Nat)
  <2>1. <<y, x>> \in Nat \X Nat /\ <<y, x>>[1] < <<y, x>>[2]
    BY <1>2
  <2> QED
    BY <2>1, Zenon DEF OpToRel
<1>3. \A y \in S : ~(y < x)
  BY <1>1, <1>2, Zenon
<1>4. \A y \in S : x <= y
  BY <1>3
<1> QED
  BY <1>4 DEF Min

(* The first of the numbers with a property.                               *)
LEMMA LeastIs ==
  ASSUME NEW S \in SUBSET Nat, NEW n \in S, \A x \in S : n <= x
  PROVE  Min(S) = n
<1>1. PICK l \in S : l = Min(S) /\ \A x \in S : l <= x
  BY LeastExists
<1>2. l \in Nat /\ n \in Nat /\ l <= n /\ n <= l
  BY <1>1
<1>3. l = n
  BY <1>2
<1> QED
  BY <1>1, <1>3

(* The larger of two numbers.                                              *)
LEMMA LargerOfTwo ==
  ASSUME NEW a \in Nat, NEW b \in Nat
  PROVE  Max({a, b}) = IF a >= b THEN a ELSE b
<1> DEFINE m == IF a >= b THEN a ELSE b
<1>1. m \in {a, b} /\ \A y \in {a, b} : m >= y
  OBVIOUS
<1>2. \A x \in {a, b} : (\A y \in {a, b} : x >= y) => x = m
  OBVIOUS
<1> QED
  BY <1>1, <1>2 DEF Max

(* A part of a text, by its first and its last code.                       *)
LEMMA PartIs ==
  ASSUME NEW s, s \in Seq(Codes), NEW a \in Nat, NEW b \in Nat,
         1 <= a, a <= b + 1, b <= Len(s)
  PROVE  /\ SubSeq(s, a, b) \in Seq(Codes) /\ Len(SubSeq(s, a, b)) = b - a + 1
         /\ \A i \in 1 .. b - a + 1 : SubSeq(s, a, b)[i] = s[a + i - 1]
<1>1. \A i \in a .. b : i \in 1 .. Len(s)
  OBVIOUS
<1>2. \A i \in a .. b : s[i] \in Codes
  BY <1>1, ElementOfSeq
<1>3. /\ SubSeq(s, a, b) \in Seq(Codes)
      /\ Len(SubSeq(s, a, b)) = IF a <= b THEN b - a + 1 ELSE 0
      /\ \A i \in 1 .. b - a + 1 : SubSeq(s, a, b)[i] = s[a + i - 1]
  BY <1>2, SubSeqProperties
<1> QED
  BY <1>3

(* s cut off: its length, its codes.                                       *)
LEMMA CutIs ==
  ASSUME NEW s, s \in Seq(Codes), NEW k \in Nat
  PROVE  \E l \in Nat : /\ Cut(s, k) = SubSeq(s, 1, l)
                        /\ l <= k /\ l <= Len(s) /\ (l = k \/ l = Len(s))
                        /\ Len(Cut(s, k)) = l /\ Cut(s, k) \in Seq(Codes)
                        /\ \A i \in 1 .. l : Cut(s, k)[i] = s[i]
<1>1. PICK n \in Nat : n = Len(s)
  OBVIOUS
<1>2. Min({n, k}) \in {n, k} /\ \A x \in {n, k} : Min({n, k}) <= x
  BY LeastExists
<1>3. PICK l \in Nat : l = Min({n, k}) /\ l <= n /\ l <= k /\ (l = k \/ l = n)
  BY <1>2
<1>4. Cut(s, k) = SubSeq(s, 1, l)
  BY <1>1, <1>3 DEF Cut
<1>5. /\ SubSeq(s, 1, l) \in Seq(Codes) /\ Len(SubSeq(s, 1, l)) = l - 1 + 1
      /\ \A i \in 1 .. l - 1 + 1 : SubSeq(s, 1, l)[i] = s[1 + i - 1]
  <2>1. 1 <= l + 1 /\ l <= Len(s)
    BY <1>1, <1>3
  <2> QED
    BY <2>1, PartIs
<1>6. Len(SubSeq(s, 1, l)) = l /\ \A i \in 1 .. l : SubSeq(s, 1, l)[i] = s[i]
  BY <1>5
<1> QED
  BY <1>1, <1>3, <1>4, <1>5, <1>6

(* Nothing longer than asked for.                                          *)
LEMMA CutFits ==
  ASSUME NEW s, s \in Seq(Codes), NEW k \in Nat
  PROVE  Cut(s, k) \in Seq(Codes) /\ Len(Cut(s, k)) \in Nat /\ Len(Cut(s, k)) <= k
BY CutIs

(* s cut off inside.                                                       *)
LEMMA CutAt ==
  ASSUME NEW s, s \in Seq(Codes), NEW k \in Nat, k <= Len(s)
  PROVE  /\ Cut(s, k) \in Seq(Codes) /\ Len(Cut(s, k)) = k
         /\ \A i \in 1 .. k : Cut(s, k)[i] = s[i]
<1>1. PICK l \in Nat : /\ Cut(s, k) = SubSeq(s, 1, l)
                      /\ l <= k /\ l <= Len(s) /\ (l = k \/ l = Len(s))
                      /\ Len(Cut(s, k)) = l /\ Cut(s, k) \in Seq(Codes)
                      /\ \A i \in 1 .. l : Cut(s, k)[i] = s[i]
  BY CutIs, Zenon
<1>2. l = k
  <2>1. Len(s) \in Nat
    BY LenProperties
  <2> QED
    BY <1>1, <2>1
<1> QED
  BY <1>1, <1>2

(* A text of one code.                                                     *)
LEMMA OneCode ==
  ASSUME NEW ch, ch \in Codes
  PROVE  <<ch>> \in Seq(Codes) /\ Len(<<ch>>) = 1 /\ <<ch>>[1] = ch
OBVIOUS

(* Three texts, one after the other.                                       *)
LEMMA ThreeParts ==
  ASSUME NEW p \in Seq(Codes), NEW r \in Seq(Codes), NEW q \in Seq(Codes)
  PROVE  /\ p \o r \o q \in Seq(Codes)
         /\ Len(p \o r \o q) = Len(p) + Len(r) + Len(q)
         /\ \A i \in 1 .. Len(p) : (p \o r \o q)[i] = p[i]
         /\ \A i \in 1 .. Len(r) : (p \o r \o q)[Len(p) + i] = r[i]
         /\ \A i \in 1 .. Len(q) : (p \o r \o q)[Len(p) + Len(r) + i] = q[i]
<1>1. /\ p \o r \in Seq(Codes) /\ Len(p \o r) = Len(p) + Len(r)
      /\ \A i \in 1 .. Len(p) + Len(r) :
           (p \o r)[i] = IF i <= Len(p) THEN p[i] ELSE r[i - Len(p)]
  BY ConcatProperties, Zenon
<1>2. PICK h : h = p \o r /\ h \in Seq(Codes)
  BY <1>1
<1>3. /\ h \o q \in Seq(Codes) /\ Len(h \o q) = Len(h) + Len(q)
      /\ \A i \in 1 .. Len(h) + Len(q) :
           (h \o q)[i] = IF i <= Len(h) THEN h[i] ELSE q[i - Len(h)]
  <2>1. h \in Seq(Codes)
    BY <1>2
  <2> QED
    BY <2>1, ConcatProperties, Zenon
<1>4. PICK a \in Nat, k \in Nat, n \in Nat : a = Len(p) /\ k = Len(r) /\ n = Len(q)
  BY LenProperties
<1>5. Len(h) = a + k /\ \A i \in 1 .. a + k : h[i] = IF i <= a THEN p[i] ELSE r[i - a]
  BY <1>1, <1>2, <1>4
<1>6. PICK j : j = h \o q
  OBVIOUS
<1>7. /\ Len(j) = a + k + n
      /\ \A i \in 1 .. a + k + n : j[i] = IF i <= a + k THEN h[i] ELSE q[i - (a + k)]
  BY <1>3, <1>4, <1>5, <1>6
<1>8. ASSUME NEW i \in 1 .. a PROVE j[i] = p[i]
  <2>1. i \in 1 .. a + k /\ i \in 1 .. a + k + n /\ i <= a + k /\ i <= a
    OBVIOUS
  <2> QED
    BY <2>1, <1>5, <1>7
<1>9. ASSUME NEW i \in 1 .. k PROVE j[a + i] = r[i]
  <2>1. PICK c \in Nat : /\ c = a + i /\ c \in 1 .. a + k /\ c \in 1 .. a + k + n
                        /\ c <= a + k /\ ~(c <= a) /\ c - a = i
    OBVIOUS
  <2>2. j[c] = r[c - a]
    BY <2>1, <1>5, <1>7
  <2> QED
    BY <2>1, <2>2
<1>10. ASSUME NEW i \in 1 .. n PROVE j[a + k + i] = q[i]
  <2>1. PICK c \in Nat : /\ c = a + k + i /\ c \in 1 .. a + k + n
                        /\ ~(c <= a + k) /\ c - (a + k) = i
    OBVIOUS
  <2>2. j[c] = q[c - (a + k)]
    BY <2>1, <1>7
  <2> QED
    BY <2>1, <2>2
<1> QED
  BY <1>2, <1>3, <1>4, <1>6, <1>7, <1>8, <1>9, <1>10

(* The text s in which the codes a + 1 to b have been exchanged for r.     *)
Spliced(s, a, r, b) == SubSeq(s, 1, a) \o r \o SubSeq(s, b + 1, Len(s))

(* j has the codes of s, except r for the codes a + 1 to b.                *)
HasSpliced(j, s, a, r, b) ==
  /\ j \in Seq(Codes) /\ Len(j) = a + Len(r) + Len(s) - b
  /\ \A i \in 1 .. a : j[i] = s[i]
  /\ \A i \in 1 .. Len(r) : j[a + i] = r[i]
  /\ \A i \in 1 .. Len(s) - b : j[a + Len(r) + i] = s[b + i]

(* It has.                                                                 *)
LEMMA SplicedIs ==
  ASSUME NEW s, s \in Seq(Codes), NEW r, r \in Seq(Codes), NEW a \in Nat, NEW b \in Nat,
         a <= Len(s), b <= Len(s)
  PROVE  HasSpliced(Spliced(s, a, r, b), s, a, r, b)
<1> DEFINE j == Spliced(s, a, r, b)
<1>1. PICK n \in Nat, k \in Nat : n = Len(s) /\ k = Len(r) /\ a <= n /\ b <= n
  BY LenProperties
<1>2. PICK p : p = SubSeq(s, 1, a) /\ p \in Seq(Codes) /\ Len(p) = a
               /\ \A i \in 1 .. a : p[i] = s[i]
  <2> DEFINE p == SubSeq(s, 1, a)
  <2>1. /\ p \in Seq(Codes) /\ Len(p) = a - 1 + 1
        /\ \A i \in 1 .. a - 1 + 1 : p[i] = s[1 + i - 1]
    <3>1. 1 <= a + 1
      OBVIOUS
    <3> QED
      BY <3>1, PartIs
  <2> HIDE DEF p
  <2>2. Len(p) = a /\ \A i \in 1 .. a : p[i] = s[i]
    BY <2>1
  <2> QED
    BY <2>1, <2>2 DEF p
<1>3. PICK q : q = SubSeq(s, b + 1, n) /\ q \in Seq(Codes) /\ Len(q) = n - b
               /\ \A i \in 1 .. n - b : q[i] = s[b + i]
  <2> DEFINE q == SubSeq(s, b + 1, n)
  <2>1. /\ q \in Seq(Codes) /\ Len(q) = n - (b + 1) + 1
        /\ \A i \in 1 .. n - (b + 1) + 1 : q[i] = s[b + 1 + i - 1]
    <3>1. 1 <= b + 1 /\ b + 1 <= n + 1 /\ n <= Len(s) /\ b + 1 \in Nat
      BY <1>1
    <3> QED
      BY <3>1, PartIs
  <2> HIDE DEF q
  <2>2. n - (b + 1) + 1 = n - b /\ \A i \in Int : b + 1 + i - 1 = b + i
    OBVIOUS
  <2>3. ASSUME NEW i \in 1 .. n - b PROVE q[i] = s[b + i]
    <3>1. i \in 1 .. n - (b + 1) + 1 /\ b + 1 + i - 1 = b + i
      OBVIOUS
    <3>2. q[i] = s[b + 1 + i - 1]
      BY <2>1, <3>1
    <3> QED
      BY <3>1, <3>2
  <2>4. Len(q) = n - b
    BY <2>1, <2>2
  <2> QED
    BY <2>1, <2>3, <2>4 DEF q
<1>4. j = p \o r \o q
  BY <1>1, <1>2, <1>3, Zenon DEF Spliced
<1> HIDE DEF j
<1>5. /\ j \in Seq(Codes) /\ Len(j) = a + k + (n - b)
      /\ \A i \in 1 .. a : j[i] = p[i]
      /\ \A i \in 1 .. k : j[a + i] = r[i]
      /\ \A i \in 1 .. n - b : j[a + k + i] = q[i]
  <2>1. p \in Seq(Codes) /\ r \in Seq(Codes) /\ q \in Seq(Codes)
    BY <1>2, <1>3
  <2>2. /\ p \o r \o q \in Seq(Codes)
        /\ Len(p \o r \o q) = Len(p) + Len(r) + Len(q)
        /\ \A i \in 1 .. Len(p) : (p \o r \o q)[i] = p[i]
        /\ \A i \in 1 .. Len(r) : (p \o r \o q)[Len(p) + i] = r[i]
        /\ \A i \in 1 .. Len(q) : (p \o r \o q)[Len(p) + Len(r) + i] = q[i]
    BY <2>1, ThreeParts, Zenon
  <2>3. /\ j \in Seq(Codes) /\ Len(j) = Len(p) + Len(r) + Len(q)
        /\ \A i \in 1 .. Len(p) : j[i] = p[i]
        /\ \A i \in 1 .. Len(r) : j[Len(p) + i] = r[i]
        /\ \A i \in 1 .. Len(q) : j[Len(p) + Len(r) + i] = q[i]
    BY <2>2, <1>4, Zenon
  <2>4. Len(p) = a /\ Len(r) = k /\ Len(q) = n - b
    BY <1>1, <1>2, <1>3
  <2> QED
    BY <2>3, <2>4
<1>6. Len(j) = a + k + n - b
  BY <1>5
<1>7. \A i \in 1 .. n - b : j[a + k + i] = s[b + i]
  BY <1>3, <1>5
<1>8. \A i \in 1 .. a : j[i] = s[i]
  BY <1>2, <1>5
<1>9. HasSpliced(j, s, a, r, b)
  BY <1>1, <1>5, <1>6, <1>7, <1>8 DEF HasSpliced
<1> QED
  BY <1>9 DEF j

(* A code put in, and one taken out.                                       *)
LEMMA InsertedIs ==
  ASSUME NEW s, NEW p \in Nat, NEW ch
  PROVE  InsertAt(s, p + 1, ch) = Spliced(s, p, <<ch>>, p)
<1>1. PICK i : i = p + 1
  OBVIOUS
<1>2. i - 1 = p
  BY <1>1
<1>3. InsertAt(s, i, ch) = SubSeq(s, 1, i - 1) \o <<ch>> \o SubSeq(s, i, Len(s))
  BY DEF InsertAt
<1>4. InsertAt(s, i, ch) = SubSeq(s, 1, p) \o <<ch>> \o SubSeq(s, i, Len(s))
  BY <1>2, <1>3, Zenon
<1> QED
  BY <1>1, <1>4, Zenon DEF Spliced

(* No text is taken for None.                                              *)
LEMMA NotNone ==
  ASSUME NEW x, x \in Seq(Codes)
  PROVE  x # None
<1>1. SUFFICES ASSUME x = <<NUL>> PROVE FALSE
  BY DEF None
<1>2. Len(x) = 1 /\ x[1] = NUL
  BY <1>1
<1>3. x[1] \in Codes
  BY <1>2, ElementOfSeq
<1> QED
  BY <1>2, <1>3 DEF Codes

-----------------------------------------------------------------------------
(* Memory                                                                  *)

(* The string in memory is the text that it holds.                         *)
LEMMA HoldsIs ==
  ASSUME NEW m, NEW s, Holds(m, s)
  PROVE  strlen(m) = Len(s) /\ Str(m) = s
<1>1. Len(s) \in Nat /\ Len(s) < Size /\ Size \in Nat
  BY StrEditAssumption, RlStrAssumption DEF Holds
<1>2. DOMAIN m = Offsets /\ Offsets \in SUBSET Nat /\ Len(s) \in Offsets
  BY <1>1 DEF Holds, Offsets
<1>3. ASSUME NEW i \in Offsets, m[i] = NUL PROVE Len(s) <= i
  <2>1. SUFFICES ASSUME i < Len(s) PROVE FALSE
    BY <1>1, <1>2
  <2>2. i + 1 \in 1 .. Len(s) /\ i + 1 - 1 = i
    BY <2>1, <1>1, <1>2
  <2>3. m[i] = s[i + 1]
    BY <2>2 DEF Holds
  <2>4. s[i + 1] \in Codes
    BY <2>2, ElementOfSeq DEF Holds
  <2> QED
    BY <1>3, <2>3, <2>4 DEF Codes
<1>4. Min({i \in Offsets : m[i] = NUL}) = Len(s)
  <2> DEFINE Z == {i \in Offsets : m[i] = NUL}
  <2>1. Z \in SUBSET Nat /\ Len(s) \in Z /\ \A i \in Z : Len(s) <= i
    BY <1>2, <1>3 DEF Holds
  <2> HIDE DEF Z
  <2>2. Min(Z) = Len(s)
    BY <2>1, LeastIs
  <2> QED
    BY <2>2 DEF Z
<1>5. strlen(m) = Len(s)
  BY <1>2, <1>4 DEF strlen
<1>6. Str(m) = [i \in 1 .. Len(s) |-> m[i - 1]]
  BY <1>5 DEF Str
<1>7. [i \in 1 .. Len(s) |-> m[i - 1]] = s
  BY DEF Holds
<1> QED
  BY <1>5, <1>6, <1>7

(* The text s written at the start of the array.                           *)
LEMMA WrittenIs ==
  ASSUME NEW m, NEW s, Holds(m, s), NEW x, x \in Seq(Codes), Len(x) < Size
  PROVE  Holds(strcpy(m, 0, x), x) /\ SameFrom(strcpy(m, 0, x), m, Len(x) + 1)
<1> DEFINE w == strcpy(m, 0, x)
<1>1. Len(x) \in Nat /\ Size \in Nat /\ m \in [Offsets -> Nat] /\ Offsets \in SUBSET Nat
  BY StrEditAssumption, RlStrAssumption DEF Holds, Offsets
<1>2. w = [i \in Offsets |-> IF i \in 0 .. 0 + Len(x) - 1 THEN x[i - 0 + 1]
                             ELSE IF i = 0 + Len(x) THEN NUL ELSE m[i]]
  BY <1>1 DEF strcpy
<1>3. ASSUME NEW i \in Offsets, i < Len(x) PROVE w[i] = x[i + 1] /\ x[i + 1] \in Codes
  <2>1. i \in 0 .. 0 + Len(x) - 1 /\ i - 0 + 1 = i + 1 /\ i + 1 \in 1 .. Len(x)
    BY <1>1, <1>3
  <2> QED
    BY <1>2, <2>1, ElementOfSeq
<1>4. w[Len(x)] = NUL
  <2>1. ~(Len(x) \in 0 .. 0 + Len(x) - 1) /\ Len(x) = 0 + Len(x) /\ Len(x) \in Offsets
    BY <1>1 DEF Offsets
  <2> QED
    BY <1>2, <2>1
<1>5. ASSUME NEW i \in Offsets, i >= Len(x) + 1 PROVE w[i] = m[i]
  <2>1. ~(i \in 0 .. 0 + Len(x) - 1) /\ ~(i = 0 + Len(x))
    BY <1>1, <1>5
  <2> QED
    BY <1>2, <2>1
<1>6. w \in [Offsets -> Nat]
  <2>1. ASSUME NEW i \in Offsets PROVE w[i] \in Nat
    <3>1. CASE i < Len(x)
      BY <3>1, <1>3 DEF Codes
    <3>2. CASE i = Len(x)
      BY <3>2, <1>4 DEF NUL
    <3>3. CASE i >= Len(x) + 1
      BY <3>3, <1>1, <1>5
    <3> QED
      BY <1>1, <3>1, <3>2, <3>3
  <2> QED
    BY <1>2, <2>1
<1>7. ASSUME NEW i \in 1 .. Len(x) PROVE w[i - 1] = x[i]
  <2>1. i - 1 \in Offsets /\ i - 1 < Len(x) /\ i - 1 + 1 = i
    BY <1>1 DEF Offsets
  <2> QED
    BY <2>1, <1>3
<1>8. ASSUME NEW i \in Offsets, i >= Size PROVE w[i] = FOREIGN
  <2>1. i >= Len(x) + 1
    BY <1>1, <1>8
  <2> QED
    BY <2>1, <1>5, <1>8 DEF Holds
<1> HIDE DEF w
<1>9. Holds(w, x)
  BY <1>4, <1>6, <1>7, <1>8 DEF Holds
<1>10. SameFrom(w, m, Len(x) + 1)
  BY <1>5 DEF SameFrom
<1> QED
  BY <1>9, <1>10 DEF w

(* What a call that is meant to make x of the text s in m, in a size of    *)
(* len, has come to: x and nothing else, or a refusal.                     *)
Fits(x, len) == x \in Seq(Codes) /\ Len(x) < len

Made(x, len, m, s, o) ==
  \/ /\ Fits(x, len)
     /\ o.ret = RL_SUCCESS /\ Holds(o.mem, x)
     /\ \A i \in Offsets : i >= len /\ i >= Len(s) + 1 => o.mem[i] = m[i]
  \/ /\ x = None \/ (x \in Seq(Codes) /\ ~(Len(x) < len))
     /\ o = Refused(m)

(* The index of the first code ch in a sequence, 0 if there is none.       *)
First(seq, ch) ==
  IF {i \in 1 .. Len(seq) : seq[i] = ch} # {}
  THEN Min({i \in 1 .. Len(seq) : seq[i] = ch}) ELSE 0

(* The index of the first code ch, where there is one.                     *)
LEMMA FirstIs ==
  ASSUME NEW seq, NEW ch, Len(seq) \in Nat, NEW k \in 1 .. Len(seq), seq[k] = ch,
         \A i \in 1 .. k - 1 : seq[i] # ch
  PROVE  First(seq, ch) = k
<1> DEFINE I == {i \in 1 .. Len(seq) : seq[i] = ch}
<1>1. I \in SUBSET Nat /\ k \in I
  OBVIOUS
<1>2. \A i \in I : k <= i
  OBVIOUS
<1> HIDE DEF I
<1>3. Min(I) = k /\ I # {}
  BY <1>1, <1>2, LeastIs
<1> QED
  BY <1>3 DEF First, I

(* There is none, or a first one.                                          *)
LEMMA FirstExists ==
  ASSUME NEW seq, NEW ch, Len(seq) \in Nat
  PROVE  \/ First(seq, ch) = 0 /\ \A i \in 1 .. Len(seq) : seq[i] # ch
         \/ \E k \in 1 .. Len(seq) : /\ First(seq, ch) = k /\ seq[k] = ch
                                     /\ \A i \in 1 .. k - 1 : seq[i] # ch
<1> DEFINE I == {i \in 1 .. Len(seq) : seq[i] = ch}
<1>1. CASE I = {}
  <2>1. First(seq, ch) = 0
    BY <1>1 DEF First
  <2>2. \A i \in 1 .. Len(seq) : seq[i] # ch
    BY <1>1
  <2> QED
    BY <2>1, <2>2
<1>2. CASE I # {}
  <2>1. I \in SUBSET Nat
    OBVIOUS
  <2>2. PICK k \in I : k = Min(I) /\ \A i \in I : k <= i
    BY <1>2, <2>1, LeastExists
  <2>3. k \in 1 .. Len(seq) /\ seq[k] = ch
    BY <2>2
  <2>4. ASSUME NEW i \in 1 .. k - 1, seq[i] = ch PROVE FALSE
    <3>1. i \in I
      BY <2>3, <2>4
    <3> QED
      BY <3>1, <2>2, <2>3
  <2>5. First(seq, ch) = k
    BY <1>2, <2>2 DEF First
  <2> QED
    BY <2>3, <2>4, <2>5
<1> QED
  BY <1>1, <1>2

-----------------------------------------------------------------------------
(* The functions                                                           *)

(* rl_strcpy_s, when the size is not 0.                                    *)
LEMMA CopyMade ==
  ASSUME NEW m, NEW s, Holds(m, s), NEW src, src \in Seq(Codes), NEW n \in 1 .. Size
  PROVE  Made(IF src = <<>> THEN None ELSE Cut(src, n - 1), n, m, s, rl_strcpy_s(m, n, src))
<1>1. CASE src = <<>>
  BY <1>1 DEF Made, rl_strcpy_s
<1>2. CASE src # <<>>
  <2>1. Size \in Nat /\ n \in Nat /\ n - 1 \in Nat /\ n <= Size /\ (n - 1) % Wrap = n - 1
    BY StrEditAssumption, RlStrAssumption
  <2>2. PICK x : x = Cut(src, n - 1)
    OBVIOUS
  <2>3. x \in Seq(Codes) /\ Len(x) \in Nat /\ Len(x) <= n - 1
    BY <2>1, <2>2, CutFits
  <2>4. rl_strcpy_s(m, n, src) = Done(strcpy(m, 0, x))
    <3>1. ~(Len(x) >= n)
      BY <2>1, <2>3
    <3> QED
      BY <1>2, <2>1, <2>2, <3>1 DEF rl_strcpy_s
  <2>5. Len(x) < Size
    BY <2>1, <2>3
  <2>6. PICK w : w = strcpy(m, 0, x) /\ Holds(w, x) /\ SameFrom(w, m, Len(x) + 1)
    BY <2>3, <2>5, WrittenIs
  <2>7. \A i \in Offsets : i >= n /\ i >= Len(s) + 1 => w[i] = m[i]
    <3>1. ASSUME NEW i \in Offsets, i >= n PROVE i >= Len(x) + 1
      BY <2>1, <2>3, <3>1 DEF Offsets
    <3> QED
      BY <2>6, <3>1 DEF SameFrom
  <2>8. Fits(x, n) /\ 0 <= n
    BY <2>1, <2>3 DEF Fits
  <2>9. Made(x, n, m, s, Done(w))
    BY <2>6, <2>7, <2>8 DEF Made, Done
  <2> QED
    BY <1>2, <2>2, <2>4, <2>6, <2>9
<1> QED
  BY <1>1, <1>2

(* rl_strcpy_s, when it is.                                                *)
LEMMA CopyOverruns ==
  ASSUME NEW m, NEW src, src \in Seq(Codes), src # <<>>
  PROVE  rl_strcpy_s(m, 0, src) = Overrun(m)
<1>1. PICK k \in Nat : k = (0 - 1) % Wrap
  BY RlStrAssumption
<1>2. Len(Cut(src, k)) \in Nat
  BY CutFits
<1>3. Len(Cut(src, (0 - 1) % Wrap)) >= 0
  BY <1>1, <1>2
<1> QED
  BY <1>3 DEF rl_strcpy_s

(* The text up to the first newline.                                       *)
LEMMA LineMade ==
  ASSUME NEW m, NEW s, Holds(m, s)
  PROVE  Made(IF s = <<>> THEN None ELSE Cut(s, First(s \o <<NEWLINE>>, NEWLINE) - 1), Size,
              m, s, rl_str_rm_line(m))
<1>1. PICK n \in Nat : n = Len(s) /\ strlen(m) = n /\ n < Size /\ Size \in Nat
  BY HoldsIs, StrEditAssumption, RlStrAssumption DEF Holds
<1>2. /\ s \in Seq(Codes) /\ m \in [Offsets -> Nat] /\ Offsets \in SUBSET Nat
      /\ 0 .. Size \in SUBSET Offsets
  BY <1>1 DEF Holds, Offsets
<1> DEFINE lines == {i \in 0 .. n - 1 : m[i] = NEWLINE}
<1>3. CASE n = 0
  <2>1. s = <<>>
    BY <1>1, <1>2, <1>3, EmptySeq
  <2>2. rl_str_rm_line(m) = Refused(m)
    BY <1>1, <1>3 DEF rl_str_rm_line
  <2> QED
    BY <2>1, <2>2 DEF Made
<1>4. ASSUME n # 0 PROVE s # <<>> /\
        rl_str_rm_line(m) = Done(IF lines = {} THEN m ELSE [m EXCEPT ![Min(lines)] = NUL])
  <2>1. s # <<>>
    BY <1>1, <1>4
  <2> QED
    BY <1>1, <1>4, <2>1 DEF rl_str_rm_line
<1>5. PICK e : /\ e = s \o <<NEWLINE>> /\ Len(e) = n + 1 /\ e[n + 1] = NEWLINE
               /\ \A i \in 1 .. n : e[i] = s[i]
  <2>1. PICK l : l = <<NEWLINE>> /\ l \in Seq(Codes) /\ Len(l) = 1 /\ l[1] = NEWLINE
    <3>1. NEWLINE \in Codes
      BY DEF NEWLINE, Codes, NUL
    <3>2. <<NEWLINE>> \in Seq(Codes) /\ Len(<<NEWLINE>>) = 1 /\ <<NEWLINE>>[1] = NEWLINE
      BY <3>1, OneCode
    <3> QED
      BY <3>2, Zenon
  <2>2. PICK e : e = s \o l
    OBVIOUS
  <2>3. /\ Len(e) = Len(s) + Len(l)
        /\ \A i \in 1 .. Len(s) + Len(l) : e[i] = IF i <= Len(s) THEN s[i] ELSE l[i - Len(s)]
    BY <1>2, <2>1, <2>2, ConcatProperties
  <2>4. Len(e) = n + 1 /\ \A i \in 1 .. n + 1 : e[i] = IF i <= n THEN s[i] ELSE l[i - n]
    BY <1>1, <2>1, <2>3
  <2>5. e[n + 1] = NEWLINE
    <3>1. n + 1 \in 1 .. n + 1 /\ ~(n + 1 <= n) /\ n + 1 - n = 1
      OBVIOUS
    <3> QED
      BY <3>1, <2>1, <2>4
  <2>6. \A i \in 1 .. n : e[i] = s[i]
    BY <2>4
  <2> QED
    BY <2>1, <2>2, <2>4, <2>5, <2>6
<1>6. \A i \in 1 .. n : m[i - 1] = s[i]
  BY <1>1 DEF Holds
<1>7. CASE n # 0 /\ \A i \in 1 .. n : s[i] # NEWLINE
  <2>1. lines = {}
    <3>1. ASSUME NEW i \in 0 .. n - 1 PROVE m[i] # NEWLINE
      <4>1. i + 1 \in 1 .. n /\ i + 1 - 1 = i
        OBVIOUS
      <4> QED
        BY <4>1, <1>6, <1>7
    <3> QED
      BY <3>1
  <2>2. First(e, NEWLINE) = n + 1
    <3>1. Len(e) \in Nat /\ n + 1 \in 1 .. Len(e) /\ e[n + 1] = NEWLINE
      BY <1>5
    <3>2. \A i \in 1 .. n + 1 - 1 : e[i] # NEWLINE
      BY <1>5, <1>7
    <3> QED
      BY <3>1, <3>2, FirstIs
  <2>3. PICK x : /\ x = Cut(s, n) /\ x \in Seq(Codes) /\ Len(x) = n
                 /\ \A i \in 1 .. n : x[i] = s[i]
    <3>1. n <= Len(s)
      BY <1>1
    <3> QED
      BY <3>1, <1>2, CutAt
  <2>4. x = s
    BY <1>1, <1>2, <2>3, SeqEqual
  <2>5. First(e, NEWLINE) - 1 = n
    BY <2>2
  <2>6. rl_str_rm_line(m) = Done(m)
    BY <1>4, <1>7, <2>1
  <2>7. Made(s, Size, m, s, Done(m))
    BY <1>1, <1>2 DEF Made, Done, Fits
  <2> QED
    BY <1>4, <1>5, <1>7, <2>3, <2>4, <2>5, <2>6, <2>7
<1>8. CASE n # 0 /\ \E i \in 1 .. n : s[i] = NEWLINE
  <2>1. PICK k \in 1 .. n : s[k] = NEWLINE /\ \A i \in 1 .. k - 1 : s[i] # NEWLINE
    <3>1. Len(s) = n
      BY <1>1
    <3>2. ~\A i \in 1 .. Len(s) : s[i] # NEWLINE
      BY <1>8, <3>1
    <3>3. \E i \in 1 .. Len(s) : /\ First(s, NEWLINE) = i /\ s[i] = NEWLINE
                                 /\ \A j \in 1 .. i - 1 : s[j] # NEWLINE
      BY <3>1, <3>2, FirstExists
    <3> QED
      BY <3>1, <3>3
  <2>2. First(e, NEWLINE) = k
    <3>1. Len(e) \in Nat /\ k \in 1 .. Len(e) /\ e[k] = NEWLINE
      BY <1>5, <2>1
    <3>2. \A i \in 1 .. k - 1 : e[i] # NEWLINE
      BY <1>5, <2>1
    <3> QED
      BY <3>1, <3>2, FirstIs
  <2>3. Min(lines) = k - 1 /\ lines # {}
    <3>1. lines \in SUBSET Nat /\ k - 1 \in lines
      BY <1>6, <2>1
    <3>2. ASSUME NEW i \in lines PROVE k - 1 <= i
      <4>1. i + 1 \in 1 .. n /\ i + 1 - 1 = i /\ i \in Nat
        OBVIOUS
      <4>2. s[i + 1] = NEWLINE
        BY <4>1, <1>6
      <4>3. ~(i + 1 \in 1 .. k - 1)
        BY <4>2, <2>1
      <4> QED
        BY <4>1, <4>3
    <3> HIDE DEF lines
    <3> QED
      BY <3>1, <3>2, LeastIs
  <2>4. PICK x : /\ x = Cut(s, k - 1) /\ x \in Seq(Codes) /\ Len(x) = k - 1
                 /\ \A i \in 1 .. k - 1 : x[i] = s[i]
    <3>1. PICK z \in Nat : z = k - 1 /\ z < n
      OBVIOUS
    <3>2. z <= Len(s)
      BY <1>1, <3>1
    <3>3. PICK x : /\ x = Cut(s, z) /\ x \in Seq(Codes) /\ Len(x) = z
                   /\ \A i \in 1 .. z : x[i] = s[i]
      BY <1>2, <3>2, CutAt
    <3> QED
      BY <3>1, <3>3
  <2>5. PICK w : w = [m EXCEPT ![k - 1] = NUL]
    OBVIOUS
  <2>6. k - 1 \in Offsets /\ NUL \in Nat
    BY <1>1, <1>2 DEF NUL
  <2>7. w \in [Offsets -> Nat] /\ w[k - 1] = NUL /\ \A i \in Offsets : i # k - 1 => w[i] = m[i]
    BY <1>2, <2>5, <2>6
  <2>8. ASSUME NEW i \in 1 .. Len(x) PROVE w[i - 1] = x[i]
    <3>1. i - 1 \in Offsets /\ i - 1 # k - 1 /\ i \in 1 .. n /\ i \in 1 .. k - 1
      BY <1>1, <1>2, <2>4
    <3> QED
      BY <3>1, <1>6, <2>4, <2>7
  <2>9. ASSUME NEW i \in Offsets, i >= Size PROVE w[i] = m[i] /\ w[i] = FOREIGN
    <3>1. i # k - 1
      BY <1>1, <2>9
    <3> QED
      BY <3>1, <2>7, <2>9 DEF Holds
  <2>10. Holds(w, x)
    <3>1. Len(x) < Size
      BY <1>1, <2>4
    <3> QED
      BY <2>4, <2>7, <2>8, <2>9, <3>1 DEF Holds
  <2>11. Made(x, Size, m, s, Done(w))
    <3>1. Len(x) < Size /\ 0 <= Size
      BY <1>1, <2>4
    <3> QED
      BY <2>4, <2>9, <2>10, <3>1 DEF Made, Done, Fits
  <2>12. rl_str_rm_line(m) = Done(w)
    BY <1>4, <1>8, <2>3, <2>5
  <2> QED
    BY <1>4, <1>5, <1>8, <2>2, <2>4, <2>11, <2>12
<1> QED
  BY <1>3, <1>7, <1>8

(* A code more at an offset.                                               *)
LEMMA InsertMade ==
  ASSUME NEW m, NEW s, Holds(m, s), NEW p \in 0 .. Size, NEW ch, ch \in Codes, NEW n \in 0 .. Size
  PROVE  Made(IF p > Len(s) THEN None ELSE InsertAt(s, p + 1, ch), n, m, s,
              rl_str_insert_ch(m, p, ch, n))
<1>1. PICK k \in Nat : k = Len(s) /\ strlen(m) = k /\ k < Size /\ Size \in Nat
  BY HoldsIs, StrEditAssumption, RlStrAssumption DEF Holds
<1>2. /\ s \in Seq(Codes) /\ m \in [Offsets -> Nat] /\ Offsets \in SUBSET Nat
      /\ 0 .. Size \in SUBSET Offsets /\ n \in Nat /\ p \in Nat /\ n <= Size
  BY <1>1 DEF Holds, Offsets
<1>3. CASE p > k
  <2>1. rl_str_insert_ch(m, p, ch, n) = Refused(m)
    BY <1>1, <1>3 DEF rl_str_insert_ch
  <2> QED
    BY <1>1, <1>3, <2>1 DEF Made
<1>4. CASE ~(p > k)
  <2> DEFINE x == InsertAt(s, p + 1, ch)
  <2>1. /\ x \in Seq(Codes) /\ Len(x) = k + 1
        /\ \A i \in 1 .. p : x[i] = s[i]
        /\ x[p + 1] = ch
        /\ \A i \in 1 .. k - p : x[p + 1 + i] = s[p + i]
    <3>1. PICK r : r = <<ch>> /\ r \in Seq(Codes) /\ Len(r) = 1 /\ r[1] = ch
      <4>1. <<ch>> \in Seq(Codes) /\ Len(<<ch>>) = 1 /\ <<ch>>[1] = ch
        BY OneCode
      <4> QED
        BY <4>1, Zenon
    <3>2. x = Spliced(s, p, r, p)
      BY <1>2, <3>1, InsertedIs
    <3>3. p <= Len(s)
      BY <1>1, <1>2, <1>4
    <3> HIDE DEF x
    <3>4. HasSpliced(x, s, p, r, p)
      BY <1>2, <3>1, <3>2, <3>3, SplicedIs
    <3>5. x[p + 1] = ch
      <4>1. 1 \in 1 .. Len(r)
        BY <3>1
      <4> QED
        BY <4>1, <3>1, <3>4 DEF HasSpliced
    <3>6. Len(x) = k + 1
      BY <1>1, <1>2, <3>1, <3>4 DEF HasSpliced
    <3>7. \A i \in 1 .. k - p : x[p + 1 + i] = s[p + i]
      BY <1>1, <3>1, <3>4 DEF HasSpliced
    <3> QED
      BY <3>4, <3>5, <3>6, <3>7 DEF HasSpliced
  <2> HIDE DEF x
  <2>2. CASE ~(k + 1 < n)
    <3>1. n = 0 \/ k >= n - 1
      BY <1>1, <1>2, <2>2
    <3>2. rl_str_insert_ch(m, p, ch, n) = Refused(m)
      BY <1>1, <3>1 DEF rl_str_insert_ch
    <3>3. Made(x, n, m, s, Refused(m))
      BY <2>1, <2>2 DEF Made
    <3> QED
      BY <1>1, <1>4, <3>2, <3>3 DEF x
  <2>3. CASE k + 1 < n
    <3>1. ~(n = 0 \/ k >= n - 1 \/ p > k \/ p >= n - 1)
      BY <1>1, <1>2, <1>4, <2>3
    <3>2. PICK w : w = [memmove(m, p + 1, p, k - p + 1) EXCEPT ![p] = ch]
      OBVIOUS
    <3>3. rl_str_insert_ch(m, p, ch, n) = Done(w)
      BY <1>1, <3>1, <3>2 DEF rl_str_insert_ch
    <3>4. PICK v : /\ v = memmove(m, p + 1, p, k - p + 1)
                   /\ v = [i \in Offsets |-> IF i \in p + 1 .. p + 1 + (k - p + 1) - 1
                                             THEN m[i - (p + 1) + p] ELSE m[i]]
      BY <1>2 DEF memmove
    <3>5. w = [v EXCEPT ![p] = ch] /\ DOMAIN w = Offsets
      BY <3>2, <3>4
    <3>6. w[p] = ch
      BY <1>1, <1>2, <1>4, <3>4, <3>5 DEF Offsets
    <3>7. ASSUME NEW i \in Offsets, i < p \/ i > k + 1 PROVE w[i] = m[i]
      <4>1. i # p /\ ~(i \in p + 1 .. p + 1 + (k - p + 1) - 1)
        BY <1>1, <1>2, <1>4, <3>7
      <4> QED
        BY <4>1, <3>4, <3>5
    <3>8. ASSUME NEW i \in Offsets, p < i, i <= k + 1
          PROVE  w[i] = m[i - 1] /\ i - 1 \in Offsets
      <4>1. i # p /\ i \in p + 1 .. p + 1 + (k - p + 1) - 1 /\ i - (p + 1) + p = i - 1
        BY <1>1, <1>2, <1>4, <3>8
      <4>2. i - 1 \in Offsets
        BY <1>1, <1>2, <3>8 DEF Offsets
      <4> QED
        BY <4>1, <4>2, <3>4, <3>5
    <3>9. w \in [Offsets -> Nat]
      <4>1. ASSUME NEW i \in Offsets PROVE w[i] \in Nat
        <5>1. CASE i < p \/ i > k + 1
          BY <5>1, <3>7, <1>2
        <5>2. CASE i = p
          BY <5>2, <3>6 DEF Codes
        <5>3. CASE p < i /\ i <= k + 1
          BY <5>3, <3>8, <1>2
        <5> QED
          BY <1>1, <1>2, <5>1, <5>2, <5>3
      <4> QED
        BY <3>5, <4>1, <3>4
    <3>10. \A i \in 1 .. k : m[i - 1] = s[i]
      BY <1>1 DEF Holds
    <3>11. ASSUME NEW i \in 1 .. k + 1 PROVE w[i - 1] = x[i]
      <4>0. i - 1 \in Offsets /\ i \in Nat
        BY <1>1, <1>2
      <4>1. CASE i <= p
        <5>1. i \in 1 .. p /\ i \in 1 .. k /\ i - 1 < p
          BY <1>1, <1>2, <1>4, <4>1
        <5> QED
          BY <5>1, <4>0, <3>7, <3>10, <2>1
      <4>2. CASE i = p + 1
        <5>1. i - 1 = p
          BY <4>2, <1>2
        <5> QED
          BY <5>1, <4>2, <3>6, <2>1
      <4>3. CASE i > p + 1
        <5>1. /\ p < i - 1 /\ i - 1 <= k + 1 /\ i - 1 \in 1 .. k
              /\ i - (p + 1) \in 1 .. k - p /\ p + 1 + (i - (p + 1)) = i
              /\ p + (i - (p + 1)) = i - 1
          BY <1>1, <1>2, <1>4, <4>3
        <5>2. w[i - 1] = m[i - 1 - 1]
          BY <5>1, <4>0, <3>8
        <5>3. m[i - 1 - 1] = s[i - 1]
          BY <5>1, <3>10
        <5>4. x[i] = s[i - 1]
          BY <5>1, <2>1
        <5> QED
          BY <5>2, <5>3, <5>4
      <4> QED
        BY <4>0, <4>1, <4>2, <4>3, <1>2
    <3>12. w[k + 1] = NUL
      <4>1. k + 1 \in Offsets /\ p < k + 1 /\ k + 1 <= k + 1 /\ k + 1 - 1 = k
        BY <1>1, <1>2, <1>4
      <4> QED
        BY <4>1, <3>8, <1>1 DEF Holds
    <3>13. ASSUME NEW i \in Offsets, i >= n PROVE w[i] = m[i]
      <4>1. i > k + 1
        BY <1>1, <1>2, <2>3, <3>13
      <4> QED
        BY <4>1, <3>7
    <3>14. ASSUME NEW i \in Offsets, i >= Size PROVE w[i] = FOREIGN
      <4>1. i >= n
        BY <1>1, <1>2, <3>14
      <4> QED
        BY <4>1, <3>13, <3>14 DEF Holds
    <3>15. Holds(w, x)
      <4>1. Len(x) < Size
        BY <1>1, <1>2, <2>1, <2>3
      <4> QED
        BY <4>1, <2>1, <3>9, <3>11, <3>12, <3>14 DEF Holds
    <3>16. Made(x, n, m, s, Done(w))
      <4>1. Len(x) < n /\ 0 <= n
        BY <2>1, <2>3, <1>2
      <4> QED
        BY <4>1, <2>1, <3>13, <3>15 DEF Made, Done, Fits
    <3> QED
      BY <1>1, <1>4, <3>3, <3>16 DEF x
  <2> QED
    BY <2>2, <2>3
<1> QED
  BY <1>3, <1>4

(* The end of the text moved forward, from b to a.                         *)
LEMMA ShiftIs ==
  ASSUME NEW m, NEW s, Holds(m, s), NEW a \in Nat, NEW b \in Nat, a <= b, b <= Len(s),
         NEW w, w = memmove(m, a, b, Len(s) - b + 1),
         NEW x, HasSpliced(x, s, a, <<>>, b)
  PROVE  Holds(w, x) /\ SameFrom(w, m, Len(s) + 1)
<1>1. PICK k \in Nat : k = Len(s) /\ k < Size /\ Size \in Nat
  BY StrEditAssumption, RlStrAssumption DEF Holds
<1>2. /\ s \in Seq(Codes) /\ m \in [Offsets -> Nat] /\ Offsets \in SUBSET Nat
      /\ 0 .. Size \in SUBSET Offsets
  BY <1>1 DEF Holds, Offsets
<1>3. w = [i \in Offsets |-> IF i \in a .. a + (k - b + 1) - 1 THEN m[i - a + b] ELSE m[i]]
  BY <1>1, <1>2 DEF memmove
<1>4. /\ x \in Seq(Codes) /\ Len(x) = a + k - b
      /\ \A i \in 1 .. a : x[i] = s[i]
      /\ \A i \in 1 .. k - b : x[a + i] = s[b + i]
  <2>1. /\ x \in Seq(Codes) /\ Len(x) = a + Len(<<>>) + k - b
        /\ \A i \in 1 .. a : x[i] = s[i]
        /\ \A i \in 1 .. k - b : x[a + Len(<<>>) + i] = s[b + i]
    BY <1>1 DEF HasSpliced
  <2>2. Len(<<>>) = 0
    OBVIOUS
  <2>3. Len(x) = a + k - b
    BY <2>1, <2>2
  <2>4. ASSUME NEW i \in 1 .. k - b PROVE x[a + i] = s[b + i]
    <3>1. a + Len(<<>>) + i = a + i
      BY <2>2
    <3> QED
      BY <2>1, <3>1
  <2> QED
    BY <2>1, <2>3, <2>4
<1>5. ASSUME NEW i \in Offsets, i < a \/ i > a + k - b PROVE w[i] = m[i]
  <2>1. ~(i \in a .. a + (k - b + 1) - 1)
    BY <1>1, <1>5
  <2> QED
    BY <1>3, <2>1
<1>6. ASSUME NEW i \in Offsets, a <= i, i <= a + k - b
      PROVE  w[i] = m[i - a + b] /\ i - a + b \in Offsets /\ i - a + b <= k
  <2>1. i \in a .. a + (k - b + 1) - 1 /\ i - a + b <= k /\ i - a + b \in 0 .. Size
    BY <1>1, <1>2, <1>6
  <2> QED
    BY <1>2, <1>3, <2>1
<1>7. w \in [Offsets -> Nat]
  <2>1. ASSUME NEW i \in Offsets PROVE w[i] \in Nat
    <3>1. CASE i < a \/ i > a + k - b
      BY <3>1, <1>5, <1>2
    <3>2. CASE a <= i /\ i <= a + k - b
      BY <3>2, <1>6, <1>2
    <3> QED
      BY <1>1, <1>2, <3>1, <3>2
  <2> QED
    BY <1>3, <2>1
<1>8. \A i \in 1 .. k : m[i - 1] = s[i]
  BY <1>1 DEF Holds
<1>9. ASSUME NEW i \in 1 .. Len(x) PROVE w[i - 1] = x[i]
  <2>1. i \in 1 .. a + k - b /\ i - 1 \in Offsets
    BY <1>1, <1>2, <1>4
  <2>2. CASE i <= a
    <3>1. i \in 1 .. a /\ i \in 1 .. k /\ i - 1 < a
      BY <1>1, <2>1, <2>2
    <3> QED
      BY <3>1, <2>1, <1>4, <1>5, <1>8
  <2>3. CASE i > a
    <3>1. PICK c \in Nat : c = i - a /\ c \in 1 .. k - b /\ i = a + c /\ i - 1 - a + b = b + c - 1
      BY <2>1, <2>3
    <3>2. a <= i - 1 /\ i - 1 <= a + k - b
      BY <1>1, <2>1, <2>3
    <3>3. w[i - 1] = m[i - 1 - a + b]
      BY <2>1, <3>2, <1>6
    <3>4. b + c \in 1 .. k
      BY <3>1
    <3>5. m[b + c - 1] = s[b + c]
      BY <3>4, <1>8
    <3>6. x[a + c] = s[b + c]
      BY <3>1, <1>4
    <3> QED
      BY <3>1, <3>3, <3>5, <3>6
  <2> QED
    BY <2>1, <2>2, <2>3
<1>10. w[Len(x)] = NUL
  <2>1. PICK c \in Offsets : c = a + k - b /\ a <= c /\ c <= a + k - b /\ c - a + b = k
    <3>1. a + k - b \in Offsets
      BY <1>1, <1>2
    <3>2. a <= a + k - b /\ a + k - b - a + b = k
      BY <1>1
    <3> QED
      BY <3>1, <3>2
  <2>2. w[c] = m[k]
    BY <2>1, <1>6
  <2> QED
    BY <2>1, <2>2, <1>1, <1>4 DEF Holds
<1>11. ASSUME NEW i \in Offsets, i >= k + 1 PROVE w[i] = m[i]
  <2>1. i > a + k - b
    BY <1>1, <1>2, <1>11
  <2> QED
    BY <2>1, <1>5
<1>12. ASSUME NEW i \in Offsets, i >= Size PROVE w[i] = FOREIGN
  <2>1. i >= k + 1
    BY <1>1, <1>2, <1>12
  <2> QED
    BY <2>1, <1>11, <1>12 DEF Holds
<1>13. Len(x) < Size
  BY <1>1, <1>4
<1>14. Holds(w, x)
  BY <1>4, <1>7, <1>9, <1>10, <1>12, <1>13 DEF Holds
<1> QED
  BY <1>1, <1>11, <1>14 DEF SameFrom

(* A text that is shorter than before, in an array of any size.            *)
LEMMA ShiftMade ==
  ASSUME NEW m, NEW s, Holds(m, s), NEW a \in Nat, NEW b \in Nat, a <= b, b <= Len(s)
  PROVE  Made(Spliced(s, a, <<>>, b), Size, m, s, Done(memmove(m, a, b, Len(s) - b + 1)))
<1>1. s \in Seq(Codes) /\ Size \in Nat /\ Offsets \in SUBSET Nat
  BY StrEditAssumption, RlStrAssumption DEF Holds, Offsets
<1>2. PICK x : x = Spliced(s, a, <<>>, b)
  OBVIOUS
<1>3. HasSpliced(x, s, a, <<>>, b)
  <2>1. <<>> \in Seq(Codes) /\ a <= Len(s)
    BY <1>1, EmptySeq
  <2> QED
    BY <1>1, <1>2, <2>1, SplicedIs
<1>4. PICK w : w = memmove(m, a, b, Len(s) - b + 1) /\ Holds(w, x) /\ SameFrom(w, m, Len(s) + 1)
  BY <1>3, ShiftIs
<1>5. \A i \in Offsets : i >= Size /\ i >= Len(s) + 1 => w[i] = m[i]
  BY <1>4 DEF SameFrom
<1>6. Fits(x, Size) /\ 0 <= Size
  BY <1>1, <1>4 DEF Holds, Fits
<1>7. Made(x, Size, m, s, Done(w))
  BY <1>4, <1>5, <1>6 DEF Made, Done
<1> QED
  BY <1>2, <1>4, <1>7

(* A code taken out.                                                       *)
LEMMA DeleteMade ==
  ASSUME NEW m, NEW s, Holds(m, s), NEW p \in Nat
  PROVE  Made(IF p >= Len(s) THEN None ELSE RemoveAt(s, p + 1), Size, m, s, rl_delete_char(m, p))
<1>1. PICK k \in Nat : k = Len(s) /\ strlen(m) = k
  BY HoldsIs DEF Holds
<1>2. CASE p >= k
  <2>1. rl_delete_char(m, p) = Refused(m)
    BY <1>1, <1>2 DEF rl_delete_char
  <2> QED
    BY <1>1, <1>2, <2>1 DEF Made
<1>3. CASE ~(p >= k)
  <2>1. p <= p + 1 /\ p + 1 <= k /\ p + 1 \in Nat /\ k - (p + 1) + 1 = k - p
    BY <1>1, <1>3
  <2>2. rl_delete_char(m, p) = Done(memmove(m, p, p + 1, k - p))
    BY <1>1, <1>3 DEF rl_delete_char
  <2>3. RemoveAt(s, p + 1) = Spliced(s, p, <<>>, p + 1)
    <3>1. PICK i : i = p + 1
      OBVIOUS
    <3>2. i - 1 = p
      BY <3>1
    <3>3. SubSeq(s, 1, p) \in Seq(Codes)
      <4>1. s \in Seq(Codes) /\ 1 <= p + 1 /\ p <= Len(s)
        BY <1>1, <1>3 DEF Holds
      <4> QED
        BY <4>1, PartIs
    <3>4. RemoveAt(s, i) = SubSeq(s, 1, i - 1) \o SubSeq(s, i + 1, Len(s))
      BY DEF RemoveAt
    <3>5. RemoveAt(s, i) = SubSeq(s, 1, p) \o SubSeq(s, i + 1, Len(s))
      BY <3>2, <3>4, Zenon
    <3>6. SubSeq(s, 1, p) \o <<>> = SubSeq(s, 1, p)
      BY <3>3, ConcatEmptySeq
    <3> QED
      BY <3>1, <3>5, <3>6, Zenon DEF Spliced
  <2>4. Made(Spliced(s, p, <<>>, p + 1), Size, m, s,
             Done(memmove(m, p, p + 1, Len(s) - (p + 1) + 1)))
    BY <1>1, <2>1, ShiftMade
  <2>5. Len(s) - (p + 1) + 1 = k - p
    BY <1>1
  <2>6. Made(RemoveAt(s, p + 1), Size, m, s, rl_delete_char(m, p))
    BY <2>2, <2>3, <2>4, <2>5, Zenon
  <2> QED
    BY <1>1, <1>3, <2>6
<1> QED
  BY <1>2, <1>3

-----------------------------------------------------------------------------
(* A text in a text                                                        *)

(* t stands in s before i.                                                 *)
Within(s, t, i) == \E p \in Nat : p + Len(t) <= i /\ SubSeq(s, p + 1, p + Len(t)) = t

(* So it does, if it is a part of the first i codes; and the other way.    *)
LEMMA WithinIs ==
  ASSUME NEW s, s \in Seq(Codes), NEW t, t \in Seq(Codes), t # <<>>,
         NEW i \in Nat, i <= Len(s)
  PROVE  t \in SubSeqs(SubSeq(s, 1, i)) <=> Within(s, t, i)
<1>1. PICK n \in Nat, k \in Nat : n = Len(s) /\ k = Len(t) /\ k >= 1
  BY LenProperties, EmptySeq
<1>2. PICK u : u = SubSeq(s, 1, i) /\ u \in Seq(Codes) /\ Len(u) = i
               /\ \A c \in 1 .. i : u[c] = s[c]
  <2> DEFINE u == SubSeq(s, 1, i)
  <2>1. /\ u \in Seq(Codes) /\ Len(u) = i - 1 + 1
        /\ \A c \in 1 .. i - 1 + 1 : u[c] = s[1 + c - 1]
    <3>1. 1 <= i + 1
      OBVIOUS
    <3> QED
      BY <3>1, PartIs
  <2> HIDE DEF u
  <2>2. Len(u) = i /\ \A c \in 1 .. i : u[c] = s[c]
    BY <2>1
  <2> QED
    BY <2>1, <2>2 DEF u
<1>3. ASSUME NEW a \in Nat, NEW b \in Nat, a < b, b <= i
      PROVE  SubSeq(u, a + 1, b) = SubSeq(s, a + 1, b) /\ Len(SubSeq(s, a + 1, b)) = b - a
  <2>1. 1 <= a + 1 /\ a + 1 <= b + 1 /\ b <= Len(u) /\ b <= Len(s) /\ a + 1 \in Nat
    BY <1>1, <1>2, <1>3
  <2> DEFINE x == SubSeq(u, a + 1, b)
             y == SubSeq(s, a + 1, b)
  <2>2. /\ x \in Seq(Codes) /\ Len(x) = b - (a + 1) + 1
        /\ \A c \in 1 .. b - (a + 1) + 1 : x[c] = u[a + 1 + c - 1]
    BY <1>2, <2>1, PartIs
  <2>3. /\ y \in Seq(Codes) /\ Len(y) = b - (a + 1) + 1
        /\ \A c \in 1 .. b - (a + 1) + 1 : y[c] = s[a + 1 + c - 1]
    BY <2>1, PartIs
  <2> HIDE DEF x, y
  <2>4. ASSUME NEW c \in 1 .. Len(x) PROVE x[c] = y[c]
    <3>1. c \in 1 .. b - (a + 1) + 1
      BY <2>2
    <3>2. a + 1 + c - 1 \in 1 .. i
      BY <1>3, <3>1
    <3> QED
      BY <1>2, <2>2, <2>3, <3>1, <3>2
  <2>5. x = y
    BY <2>2, <2>3, <2>4, SeqEqual
  <2>6. Len(y) = b - a
    BY <2>3
  <2> QED
    BY <2>5, <2>6 DEF x, y
<1>4. ASSUME t \in SubSeqs(u) PROVE Within(s, t, i)
  <2>1. PICK a \in 0 .. Len(u), b \in 0 .. Len(u) : t = SubSeq(u, a + 1, b)
    BY <1>4 DEF SubSeqs
  <2>2. a \in Nat /\ b \in Nat /\ b <= i
    BY <1>2, <2>1
  <2>3. a < b
    <3>1. SUFFICES ASSUME ~(a < b) PROVE FALSE
      OBVIOUS
    <3>2. b < a + 1 /\ a + 1 \in Int /\ b \in Int
      BY <2>2, <3>1
    <3>3. SubSeq(u, a + 1, b) = <<>>
      BY <3>2, SubSeqEmpty
    <3> QED
      BY <2>1, <3>3
  <2>4. t = SubSeq(s, a + 1, b) /\ k = b - a
    BY <1>1, <1>3, <2>1, <2>2, <2>3
  <2>5. a + k = b /\ a + k <= i
    BY <2>2, <2>4
  <2> QED
    BY <1>1, <2>2, <2>4, <2>5 DEF Within
<1>5. ASSUME Within(s, t, i) PROVE t \in SubSeqs(u)
  <2>1. PICK p \in Nat : p + k <= i /\ SubSeq(s, p + 1, p + k) = t
    BY <1>1, <1>5 DEF Within
  <2>2. p < p + k /\ p + k \in Nat /\ p \in 0 .. Len(u) /\ p + k \in 0 .. Len(u)
    BY <1>1, <1>2, <2>1
  <2>3. SubSeq(u, p + 1, p + k) = t
    BY <1>3, <2>1, <2>2
  <2> QED
    BY <2>2, <2>3 DEF SubSeqs
<1> QED
  BY <1>2, <1>4, <1>5

(* The search for t finds it where the sequence library does.              *)
LEMMA FoundIs ==
  ASSUME NEW s, s \in Seq(Codes), NEW t, t \in Seq(Codes), t # <<>>
  PROVE  \/ Occurrences(s, t) = {} /\ t \notin SubSeqs(s)
         \/ /\ Occurrences(s, t) # {} /\ t \in SubSeqs(s)
            /\ \E f \in Nat :
                 /\ f = Min(Occurrences(s, t)) /\ f + Len(t) <= Len(s)
                 /\ \A r : ReplaceFirstSubSeq(r, t, s) = Spliced(s, f, r, f + Len(t))
<1>1. PICK n \in Nat, k \in Nat : n = Len(s) /\ k = Len(t) /\ k >= 1
  BY LenProperties, EmptySeq
<1>2. \A p : p \in Occurrences(s, t) <=>
              p \in Nat /\ p + k <= n /\ SubSeq(s, p + 1, p + k) = t
  <2>1. ASSUME NEW p PROVE p \in 0 .. n - k <=> p \in Nat /\ p + k <= n
    OBVIOUS
  <2> QED
    BY <1>1, <2>1 DEF Occurrences
<1>3. t \in SubSeqs(s) <=> Within(s, t, n)
  <2>1. SubSeq(s, 1, Len(s)) = s
    BY SubSeqFull
  <2>2. n <= Len(s)
    BY <1>1
  <2>3. t \in SubSeqs(SubSeq(s, 1, n)) <=> Within(s, t, n)
    BY <2>2, WithinIs
  <2> QED
    BY <1>1, <2>1, <2>3
<1>4. Within(s, t, n) <=> Occurrences(s, t) # {}
  BY <1>1, <1>2 DEF Within
<1>5. CASE Occurrences(s, t) = {}
  BY <1>3, <1>4, <1>5
<1>6. CASE Occurrences(s, t) # {}
  <2>1. Occurrences(s, t) \in SUBSET Nat
    BY <1>2
  <2>2. PICK f \in Occurrences(s, t) : /\ f = Min(Occurrences(s, t))
                                       /\ \A p \in Occurrences(s, t) : f <= p
    BY <1>6, <2>1, LeastExists
  <2>3. f \in Nat /\ f + k <= n /\ SubSeq(s, f + 1, f + k) = t
    BY <1>2, <2>2
  <2>4. ASSUME NEW i \in 0 .. n PROVE t \in SubSeqs(SubSeq(s, 1, i)) <=> f + k <= i
    <3>1. i \in Nat /\ i <= Len(s) /\ i <= n
      BY <1>1
    <3>2. t \in SubSeqs(SubSeq(s, 1, i)) <=> Within(s, t, i)
      BY <3>1, WithinIs
    <3>3. ASSUME Within(s, t, i) PROVE f + k <= i
      <4>1. PICK p \in Nat : p + k <= i /\ SubSeq(s, p + 1, p + k) = t
        BY <1>1, <3>3 DEF Within
      <4>2. p + k <= n
        BY <3>1, <4>1
      <4>3. f <= p
        BY <1>2, <2>2, <4>1, <4>2
      <4> QED
        BY <2>3, <3>1, <4>1, <4>3
    <3>4. ASSUME f + k <= i PROVE Within(s, t, i)
      BY <1>1, <2>3, <3>4 DEF Within
    <3> QED
      BY <3>2, <3>3, <3>4
  <2> DEFINE EndsAt(i) == /\ t \in SubSeqs(SubSeq(s, 1, i))
                          /\ \A j \in 0 .. i - 1 : t \notin SubSeqs(SubSeq(s, 1, j))
  <2>5. PICK l \in 0 .. n : l = f + k /\ EndsAt(l)
    <3>1. PICK l \in 0 .. n : l = f + k
      BY <2>3
    <3>2. ASSUME NEW j \in 0 .. l - 1 PROVE t \notin SubSeqs(SubSeq(s, 1, j))
      <4>1. j \in 0 .. n /\ ~(f + k <= j)
        BY <2>3, <3>1
      <4> QED
        BY <4>1, <2>4
    <3>3. t \in SubSeqs(SubSeq(s, 1, l))
      <4>1. f + k <= l
        BY <2>3, <3>1
      <4> QED
        BY <4>1, <2>4
    <3>4. EndsAt(l)
      BY <3>2, <3>3
    <3> QED
      BY <3>1, <3>4
  <2>6. ASSUME NEW i \in 0 .. n, EndsAt(i) PROVE i = f + k
    <3>1. f + k <= i
      BY <2>4, <2>6
    <3>2. ~(f + k < i)
      <4>1. SUFFICES ASSUME f + k < i PROVE FALSE
        OBVIOUS
      <4>2. l \in 0 .. i - 1
        BY <2>3, <2>5, <4>1
      <4> QED
        BY <4>2, <2>5, <2>6
    <3> QED
      BY <2>3, <3>1, <3>2
  <2>7. PICK c : c = (CHOOSE i \in 0 .. n : EndsAt(i)) /\ c = f + k
    <3> HIDE DEF EndsAt
    <3> QED
      BY <2>5, <2>6
  <2>8. IndexFirstSubSeq(t, s) = f + 1
    <3>1. IndexFirstSubSeq(t, s) = c - (k - 1)
      BY <1>1, <2>7, Zenon DEF IndexFirstSubSeq
    <3> QED
      BY <2>3, <2>7, <3>1
  <2>9. ASSUME NEW r PROVE ReplaceFirstSubSeq(r, t, s) = Spliced(s, f, r, f + k)
    <3>1. PICK i : i = f + 1 /\ i - 1 = f /\ i + k = f + k + 1
      BY <1>1, <2>3
    <3>2. ReplaceFirstSubSeq(r, t, s) = ReplaceSubSeqAt(i, r, t, s)
      BY <1>3, <1>4, <1>6, <2>8, <3>1 DEF ReplaceFirstSubSeq
    <3>3. ReplaceSubSeqAt(i, r, t, s) = SubSeq(s, 1, i - 1) \o r \o SubSeq(s, i + Len(t), Len(s))
      BY DEF ReplaceSubSeqAt
    <3>4. ReplaceSubSeqAt(i, r, t, s) = SubSeq(s, 1, f) \o r \o SubSeq(s, f + k + 1, Len(s))
      BY <1>1, <3>1, <3>3, Zenon
    <3> QED
      BY <3>2, <3>4, Zenon DEF Spliced
  <2> QED
    BY <1>1, <1>3, <1>4, <1>6, <2>2, <2>3, <2>9
<1> QED
  BY <1>5, <1>6

(* What follows the first t.                                               *)
LEMMA AfterIs ==
  ASSUME NEW s, s \in Seq(Codes), NEW t, t \in Seq(Codes),
         NEW f \in Nat, f = Min(Occurrences(s, t)), f + Len(t) <= Len(s)
  PROVE  /\ After(s, t) = SubSeq(s, f + Len(t) + 1, Len(s))
         /\ Len(After(s, t)) = Len(s) - (f + Len(t))
<1>1. PICK n \in Nat, k \in Nat : n = Len(s) /\ k = Len(t)
  BY LenProperties
<1>2. After(s, t) = SubSeq(s, f + k + 1, n)
  BY <1>1 DEF After
<1>3. Len(SubSeq(s, f + k + 1, n)) = n - (f + k + 1) + 1
  <2>1. 1 <= f + k + 1 /\ f + k + 1 <= n + 1 /\ n <= Len(s) /\ f + k + 1 \in Nat
    BY <1>1
  <2> QED
    BY <2>1, PartIs
<1>4. n - (f + k + 1) + 1 = n - (f + k)
  BY <1>1
<1> QED
  BY <1>1, <1>2, <1>3, <1>4

(* The first t taken out.                                                  *)
LEMMA RemoveMade ==
  ASSUME NEW m, NEW s, Holds(m, s), NEW t, t \in Seq(Codes)
  PROVE  Made(IF t # <<>> /\ t \in SubSeqs(s) THEN ReplaceFirstSubSeq(<<>>, t, s) ELSE None,
              Size, m, s, rl_remove_substr(m, t))
<1>1. s \in Seq(Codes) /\ strlen(m) = Len(s) /\ Str(m) = s
  BY HoldsIs DEF Holds
<1>2. CASE t = <<>>
  BY <1>1, <1>2 DEF Made, rl_remove_substr
<1>3. CASE t # <<>> /\ Occurrences(s, t) = {}
  <2>1. t \notin SubSeqs(s)
    BY <1>1, <1>3, FoundIs
  <2>2. rl_remove_substr(m, t) = Refused(m)
    BY <1>1, <1>3 DEF rl_remove_substr
  <2> QED
    BY <2>1, <2>2 DEF Made
<1>4. CASE t # <<>> /\ Occurrences(s, t) # {}
  <2>1. t \in SubSeqs(s)
    BY <1>1, <1>4, FoundIs
  <2>2. PICK f \in Nat : /\ f = Min(Occurrences(s, t)) /\ f + Len(t) <= Len(s)
                         /\ \A r : ReplaceFirstSubSeq(r, t, s) = Spliced(s, f, r, f + Len(t))
    BY <1>1, <1>4, FoundIs
  <2>3. PICK n \in Nat, k \in Nat : n = Len(s) /\ k = Len(t) /\ k >= 1
    BY <1>1, <1>4, LenProperties, EmptySeq
  <2>4. PICK b \in Nat : b = f + k /\ b <= n /\ f <= b
    BY <2>2, <2>3
  <2>5. Len(After(s, t)) + 1 = n - b + 1
    <3>1. Len(After(s, t)) = Len(s) - (f + Len(t))
      BY <1>1, <2>2, AfterIs, Zenon
    <3>2. Len(After(s, t)) = n - b
      BY <2>3, <2>4, <3>1
    <3> QED
      BY <3>2
  <2>6. rl_remove_substr(m, t) = Done(memmove(m, f, b, n - b + 1))
    <3>1. n # 0
      BY <2>3, <2>4
    <3> QED
      BY <1>1, <1>4, <2>2, <2>3, <2>4, <2>5, <3>1 DEF rl_remove_substr
  <2>7. Made(Spliced(s, f, <<>>, b), Size, m, s, Done(memmove(m, f, b, Len(s) - b + 1)))
    BY <2>3, <2>4, ShiftMade
  <2> QED
    BY <1>4, <2>1, <2>2, <2>3, <2>4, <2>6, <2>7
<1> QED
  BY <1>2, <1>3, <1>4

(* The first t replaced by r, built beside the array and copied back.      *)
LEMMA RebuiltMade ==
  ASSUME NEW m, NEW s, Holds(m, s), NEW x, x \in Seq(Codes), NEW n \in 0 .. Size,
         Len(x) < n
  PROVE  Made(x, n, m, s, Done(strcpy(m, 0, x)))
<1>1. Len(x) \in Nat /\ n \in Nat /\ Len(x) < Size
  BY StrEditAssumption, RlStrAssumption
<1>2. PICK w : w = strcpy(m, 0, x) /\ Holds(w, x) /\ SameFrom(w, m, Len(x) + 1)
  BY <1>1, WrittenIs
<1>3. ASSUME NEW i \in Offsets, i >= n PROVE w[i] = m[i]
  <2>1. i >= Len(x) + 1
    BY <1>1, <1>3 DEF Offsets
  <2> QED
    BY <1>2, <2>1 DEF SameFrom
<1>4. Made(x, n, m, s, Done(w))
  BY <1>2, <1>3 DEF Made, Fits, Done
<1> QED
  BY <1>2, <1>4

(* The text that both functions of replacement build.                      *)
LEMMA SwappedIs ==
  ASSUME NEW s, s \in Seq(Codes), NEW t, t \in Seq(Codes), NEW r, r \in Seq(Codes),
         t # <<>>, Occurrences(s, t) # {}
  PROVE  /\ t \in SubSeqs(s)
         /\ ReplaceFirstSubSeq(r, t, s) =
              SubSeq(s, 1, Min(Occurrences(s, t))) \o r \o After(s, t)
         /\ ReplaceFirstSubSeq(r, t, s) \in Seq(Codes)
<1>1. t \in SubSeqs(s)
  BY FoundIs
<1>2. PICK f \in Nat : /\ f = Min(Occurrences(s, t)) /\ f + Len(t) <= Len(s)
                       /\ \A x : ReplaceFirstSubSeq(x, t, s) = Spliced(s, f, x, f + Len(t))
  BY FoundIs
<1>3. PICK n \in Nat, k \in Nat : n = Len(s) /\ k = Len(t)
  BY LenProperties
<1>4. PICK b \in Nat : b = f + k /\ b <= n /\ f <= n
  BY <1>2, <1>3
<1>5. After(s, t) = SubSeq(s, b + 1, n)
  BY <1>2, <1>3, <1>4, AfterIs
<1>6. ReplaceFirstSubSeq(r, t, s) = Spliced(s, f, r, b)
  BY <1>2, <1>3, <1>4
<1>7. Spliced(s, f, r, b) = SubSeq(s, 1, Min(Occurrences(s, t))) \o r \o After(s, t)
  BY <1>2, <1>3, <1>5, Zenon DEF Spliced
<1>8. HasSpliced(Spliced(s, f, r, b), s, f, r, b)
  BY <1>3, <1>4, SplicedIs
<1> QED
  BY <1>1, <1>6, <1>7, <1>8 DEF HasSpliced

(* What a replacement is meant to make.                                    *)
Swapped(s, t, r) ==
  IF t # <<>> /\ r # <<>> /\ t \in SubSeqs(s) THEN ReplaceFirstSubSeq(r, t, s) ELSE None

(* The text it builds, and its answer when it stays within its buffer.     *)
Joined(s, t, r) == SubSeq(s, 1, Min(Occurrences(s, t))) \o r \o After(s, t)

Answer(m, x, n) == IF Len(x) + 1 > n THEN Refused(m) ELSE Done(strcpy(m, 0, x))

(* Either function of replacement, when it stays within its buffer.        *)
LEMMA SwapMade ==
  ASSUME NEW m, NEW s, Holds(m, s), NEW t, t \in Seq(Codes), NEW r, r \in Seq(Codes),
         t # <<>>, r # <<>>, Occurrences(s, t) # {}, NEW n \in 0 .. Size,
         NEW x, x = Joined(s, t, r)
  PROVE  /\ Swapped(s, t, r) = x /\ x \in Seq(Codes) /\ x # None
         /\ Made(Swapped(s, t, r), n, m, s, Answer(m, x, n))
<1>1. s \in Seq(Codes)
  BY DEF Holds
<1>2. Swapped(s, t, r) = x /\ x \in Seq(Codes)
  <2>1. t \in SubSeqs(s)
    BY <1>1, SwappedIs
  <2>2. ReplaceFirstSubSeq(r, t, s) = x /\ ReplaceFirstSubSeq(r, t, s) \in Seq(Codes)
    BY <1>1, SwappedIs, Zenon DEF Joined
  <2> QED
    BY <2>1, <2>2 DEF Swapped
<1>3. Len(x) \in Nat /\ n \in Nat
  BY <1>2, LenProperties, StrEditAssumption
<1>4. Len(x) < n <=> ~(Len(x) + 1 > n)
  <2>1. \A a, b \in Nat : a < b <=> ~(a + 1 > b)
    OBVIOUS
  <2> QED
    BY <1>3, <2>1, Zenon
<1>0. x # None
  BY <1>2, NotNone
<1>5. CASE Len(x) + 1 > n
  <2>1. Made(x, n, m, s, Refused(m))
    BY <1>2, <1>4, <1>5 DEF Made
  <2> QED
    BY <1>0, <1>2, <1>5, <2>1 DEF Answer
<1>6. CASE ~(Len(x) + 1 > n)
  <2>1. Made(x, n, m, s, Done(strcpy(m, 0, x)))
    BY <1>2, <1>4, <1>6, RebuiltMade
  <2> QED
    BY <1>0, <1>2, <1>6, <2>1 DEF Answer
<1> QED
  BY <1>5, <1>6

(* Nothing to replace.                                                     *)
LEMMA SwapNothing ==
  ASSUME NEW s, s \in Seq(Codes), NEW t, t \in Seq(Codes), NEW r,
         s = <<>> \/ t = <<>> \/ r = <<>> \/ Occurrences(s, t) = {}
  PROVE  Swapped(s, t, r) = None
<1>1. CASE t = <<>> \/ r = <<>>
  BY <1>1 DEF Swapped
<1>2. CASE t # <<>> /\ Occurrences(s, t) = {}
  BY <1>2, FoundIs DEF Swapped
<1>3. CASE t # <<>> /\ s = <<>>
  <2>1. Occurrences(s, t) = {}
    <3>1. Len(t) \in Nat \ {0} /\ Len(s) = 0
      BY <1>3, EmptySeq
    <3>2. 0 .. Len(s) - Len(t) = {}
      BY <3>1
    <3> QED
      BY <3>2 DEF Occurrences
  <2> QED
    BY <1>3, <2>1, FoundIs DEF Swapped
<1> QED
  BY <1>1, <1>2, <1>3

(* What makes a replacement overrun its buffer.                            *)
TooLong(s, x, n) == x # None /\ Len(x) < n /\ Len(s) >= n

(* The first t replaced by a text.                                         *)
LEMMA ReplaceMade ==
  ASSUME NEW m, NEW s, Holds(m, s), NEW t, t \in Seq(Codes), NEW r, r \in Seq(Codes),
         NEW n \in 0 .. Size
  PROVE  IF TooLong(s, Swapped(s, t, r), n)
         THEN rl_replace_substr(m, t, r, n) = Overrun(m)
         ELSE Made(Swapped(s, t, r), n, m, s, rl_replace_substr(m, t, r, n))
<1>1. s \in Seq(Codes) /\ Str(m) = s
  BY HoldsIs DEF Holds
<1>2. CASE s = <<>> \/ t = <<>> \/ r = <<>> \/ Occurrences(s, t) = {}
  <2>1. Swapped(s, t, r) = None
    BY <1>1, <1>2, SwapNothing
  <2>2. rl_replace_substr(m, t, r, n) = Refused(m)
    BY <1>1, <1>2 DEF rl_replace_substr
  <2> QED
    BY <2>1, <2>2 DEF Made, TooLong
<1>3. CASE ~(s = <<>> \/ t = <<>> \/ r = <<>> \/ Occurrences(s, t) = {})
  <2>1. PICK x : x = Joined(s, t, r)
    OBVIOUS
  <2>2. rl_replace_substr(m, t, r, n) =
          IF Len(x) + 1 > n THEN Refused(m)
          ELSE IF Len(s) + 1 > n THEN Overrun(m) ELSE Done(strcpy(m, 0, x))
    BY <1>1, <1>3, <2>1, Zenon DEF rl_replace_substr, Joined
  <2>3. /\ Swapped(s, t, r) = x /\ x \in Seq(Codes) /\ x # None
        /\ Made(Swapped(s, t, r), n, m, s, Answer(m, x, n))
    BY <1>3, <2>1, SwapMade
  <2>4. PICK a \in Nat, b \in Nat : a = Len(s) /\ b = Len(x)
    BY <1>1, <2>3, LenProperties
  <2>5. n \in Nat
    BY StrEditAssumption, RlStrAssumption
  <2>6. /\ Len(x) + 1 > n <=> ~(Len(x) < n)
        /\ Len(s) + 1 > n <=> Len(s) >= n
    BY <2>4, <2>5
  <2>7. CASE Len(x) + 1 > n
    BY <2>2, <2>3, <2>6, <2>7 DEF TooLong, Answer
  <2>8. CASE ~(Len(x) + 1 > n) /\ Len(s) + 1 > n
    BY <2>2, <2>3, <2>6, <2>8 DEF TooLong, Answer
  <2>9. CASE ~(Len(x) + 1 > n) /\ ~(Len(s) + 1 > n)
    BY <2>2, <2>3, <2>6, <2>9 DEF TooLong, Answer
  <2> QED
    BY <2>7, <2>8, <2>9
<1> QED
  BY <1>2, <1>3

(* The first t replaced by a code.                                         *)
LEMMA ReplaceCharMade ==
  ASSUME NEW m, NEW s, Holds(m, s), NEW t, t \in Seq(Codes), NEW ch, ch \in Codes,
         NEW n \in 0 .. Size
  PROVE  Made(Swapped(s, t, <<ch>>), n, m, s, rl_replace_char(m, t, ch, n))
<1>1. s \in Seq(Codes) /\ Str(m) = s
  BY HoldsIs DEF Holds
<1>2. PICK r : r = <<ch>> /\ r \in Seq(Codes) /\ r # <<>>
  <2>1. <<ch>> \in Seq(Codes) /\ Len(<<ch>>) = 1 /\ Len(<<>>) = 0
    BY OneCode
  <2>2. <<ch>> # <<>>
    BY <2>1
  <2> QED
    BY <2>1, <2>2, Zenon
<1>3. CASE s = <<>> \/ t = <<>> \/ Occurrences(s, t) = {}
  <2>1. Swapped(s, t, r) = None
    BY <1>1, <1>3, SwapNothing
  <2>2. rl_replace_char(m, t, ch, n) = Refused(m)
    BY <1>1, <1>3 DEF rl_replace_char
  <2> QED
    BY <1>2, <2>1, <2>2 DEF Made
<1>4. CASE ~(s = <<>> \/ t = <<>> \/ Occurrences(s, t) = {})
  <2>1. PICK x : x = Joined(s, t, r)
    OBVIOUS
  <2>2. rl_replace_char(m, t, ch, n) = Answer(m, x, n)
    BY <1>1, <1>2, <1>4, <2>1, Zenon DEF rl_replace_char, Joined, Answer
  <2>3. Made(Swapped(s, t, r), n, m, s, Answer(m, x, n))
    BY <1>2, <1>4, <2>1, SwapMade
  <2> QED
    BY <1>2, <2>2, <2>3
<1> QED
  BY <1>3, <1>4

(* Where a single code stands.                                             *)
LEMMA CodeFound ==
  ASSUME NEW s, s \in Seq(Codes), NEW ch, ch \in Codes
  PROVE  \/ First(s, ch) = 0 /\ Occurrences(s, <<ch>>) = {}
         \/ \E k \in 1 .. Len(s) : /\ First(s, ch) = k /\ Occurrences(s, <<ch>>) # {}
                                   /\ After(s, <<ch>>) = SubSeq(s, k + 1, Len(s))
<1>1. PICK n \in Nat : n = Len(s)
  BY LenProperties
<1>2. PICK t : t = <<ch>> /\ t \in Seq(Codes) /\ Len(t) = 1 /\ t[1] = ch
  <2>1. <<ch>> \in Seq(Codes) /\ Len(<<ch>>) = 1 /\ <<ch>>[1] = ch
    BY OneCode
  <2> QED
    BY <2>1, Zenon
<1>3. ASSUME NEW p \in Nat, p + 1 <= n
      PROVE  SubSeq(s, p + 1, p + 1) = t <=> s[p + 1] = ch
  <2> DEFINE u == SubSeq(s, p + 1, p + 1)
  <2>1. 1 <= p + 1 /\ p + 1 <= p + 1 + 1 /\ p + 1 <= Len(s) /\ p + 1 \in Nat
    BY <1>1, <1>3
  <2>2. /\ u \in Seq(Codes) /\ Len(u) = p + 1 - (p + 1) + 1
        /\ \A i \in 1 .. p + 1 - (p + 1) + 1 : u[i] = s[p + 1 + i - 1]
    BY <2>1, PartIs
  <2> HIDE DEF u
  <2>3. Len(u) = 1 /\ u[1] = s[p + 1]
    <3>1. 1 \in 1 .. p + 1 - (p + 1) + 1 /\ p + 1 + 1 - 1 = p + 1 /\ p + 1 - (p + 1) + 1 = 1
      OBVIOUS
    <3>2. u[1] = s[p + 1 + 1 - 1]
      BY <2>2, <3>1
    <3> QED
      BY <2>2, <3>1, <3>2
  <2>4. ASSUME u[1] = ch PROVE u = t
    <3>1. Len(u) = Len(t) /\ \A i \in 1 .. Len(u) : u[i] = t[i]
      BY <1>2, <2>3, <2>4
    <3> QED
      BY <1>2, <2>2, <3>1, SeqEqual
  <2>5. ASSUME u = t PROVE u[1] = ch
    BY <1>2, <2>5
  <2> QED
    BY <2>3, <2>4, <2>5 DEF u
<1>4. \A p : p \in Occurrences(s, t) <=> p \in Nat /\ p + 1 <= n /\ s[p + 1] = ch
  <2>1. ASSUME NEW p PROVE p \in 0 .. n - 1 <=> p \in Nat /\ p + 1 <= n
    BY <1>1
  <2>2. \A p : p \in Occurrences(s, t) <=> p \in 0 .. n - 1 /\ SubSeq(s, p + 1, p + 1) = t
    BY <1>1, <1>2 DEF Occurrences
  <2> QED
    BY <1>3, <2>1, <2>2
<1>5. CASE First(s, ch) = 0 /\ \A i \in 1 .. n : s[i] # ch
  <2>1. ASSUME NEW p \in Occurrences(s, t) PROVE FALSE
    <3>1. p \in Nat /\ p + 1 <= n /\ s[p + 1] = ch
      BY <1>4
    <3>2. p + 1 \in 1 .. n
      BY <1>1, <3>1
    <3> QED
      BY <1>5, <3>1, <3>2
  <2> QED
    BY <1>2, <1>5, <2>1
<1>6. ASSUME NEW k \in 1 .. n, First(s, ch) = k, s[k] = ch, \A i \in 1 .. k - 1 : s[i] # ch
      PROVE  /\ Occurrences(s, t) # {}
             /\ After(s, t) = SubSeq(s, k + 1, n)
  <2>1. PICK z \in Nat : z = k - 1 /\ z + 1 = k /\ z + 1 <= n
    OBVIOUS
  <2>2. z \in Occurrences(s, t) /\ Occurrences(s, t) \in SUBSET Nat
    BY <1>4, <1>6, <2>1
  <2>3. ASSUME NEW p \in Occurrences(s, t) PROVE z <= p
    <3>1. p \in Nat /\ p + 1 <= n /\ s[p + 1] = ch
      BY <1>4
    <3>2. ~(p + 1 \in 1 .. k - 1)
      BY <1>6, <3>1
    <3> QED
      BY <2>1, <3>1, <3>2
  <2>4. Min(Occurrences(s, t)) = z
    BY <2>2, <2>3, LeastIs
  <2>5. After(s, t) = SubSeq(s, z + 1 + 1, n)
    BY <1>1, <1>2, <2>4 DEF After
  <2> QED
    BY <2>1, <2>2, <2>5
<1>7. \/ First(s, ch) = 0 /\ \A i \in 1 .. n : s[i] # ch
      \/ \E k \in 1 .. n : /\ First(s, ch) = k /\ s[k] = ch
                           /\ \A i \in 1 .. k - 1 : s[i] # ch
  BY <1>1, FirstExists, Zenon
<1> QED
  BY <1>1, <1>2, <1>5, <1>6, <1>7

(* What stands after the first code ch.                                    *)
LEMMA AfterMade ==
  ASSUME NEW m, NEW s, Holds(m, s), NEW src, src \in Seq(Codes), NEW ch, ch \in Codes,
         NEW n \in 0 .. Size
  PROVE  Made(IF First(src, ch) \in {0, Len(src)} \/ n = 0 THEN None
              ELSE Cut(SubSeq(src, First(src, ch) + 1, Len(src)), n - 1), n, m, s,
              rl_get_str_after_char(m, src, ch, n))
<1>1. PICK l \in Nat : l = Len(src)
  BY LenProperties
<1>2. CASE n = 0
  BY <1>2 DEF Made, rl_get_str_after_char
<1>3. CASE First(src, ch) = 0 /\ Occurrences(src, <<ch>>) = {}
  BY <1>3 DEF Made, rl_get_str_after_char
<1>4. ASSUME n # 0, NEW k \in 1 .. l, First(src, ch) = k, Occurrences(src, <<ch>>) # {},
             After(src, <<ch>>) = SubSeq(src, k + 1, l)
      PROVE  Made(IF First(src, ch) \in {0, Len(src)} \/ n = 0 THEN None
                  ELSE Cut(SubSeq(src, First(src, ch) + 1, Len(src)), n - 1), n, m, s,
                  rl_get_str_after_char(m, src, ch, n))
  <2>1. PICK y : y = SubSeq(src, k + 1, l) /\ y \in Seq(Codes) /\ Len(y) = l - k
    <3>1. 1 <= k + 1 /\ k + 1 <= l + 1 /\ l <= Len(src) /\ k + 1 \in Nat
      BY <1>1
    <3>2. SubSeq(src, k + 1, l) \in Seq(Codes) /\ Len(SubSeq(src, k + 1, l)) = l - (k + 1) + 1
      BY <3>1, PartIs
    <3>3. l - (k + 1) + 1 = l - k
      OBVIOUS
    <3> QED
      BY <3>2, <3>3
  <2>2. src # <<>> /\ k # 0
    <3>1. l # 0 /\ Len(<<>>) = 0
      OBVIOUS
    <3> QED
      BY <1>1, <3>1
  <2>3. CASE k = l
    <3>1. y = <<>>
      BY <2>1, <2>3, EmptySeq
    <3>2. rl_get_str_after_char(m, src, ch, n) = Refused(m)
      BY <1>4, <2>1, <2>2, <3>1 DEF rl_get_str_after_char
    <3> QED
      BY <1>1, <1>4, <2>3, <3>2 DEF Made
  <2>4. CASE k # l
    <3>1. y # <<>>
      <4>1. Len(y) # 0 /\ Len(<<>>) = 0
        BY <2>1, <2>4
      <4> QED
        BY <4>1
    <3>2. PICK x : x = Cut(y, n - 1)
      OBVIOUS
    <3>3. n \in Nat /\ n - 1 \in Nat /\ n <= Size /\ 0 <= n
      BY <1>4, StrEditAssumption, RlStrAssumption
    <3>4. x \in Seq(Codes) /\ Len(x) \in Nat /\ Len(x) <= n - 1
      BY <2>1, <3>2, <3>3, CutFits
    <3>5. Len(x) < n
      BY <3>3, <3>4
    <3>6. rl_get_str_after_char(m, src, ch, n) = Done(strcpy(m, 0, x))
      BY <1>4, <2>1, <2>2, <3>1, <3>2 DEF rl_get_str_after_char
    <3>7. Made(x, n, m, s, Done(strcpy(m, 0, x)))
      BY <3>3, <3>4, <3>5, RebuiltMade
    <3> QED
      BY <1>1, <1>4, <2>1, <2>2, <2>4, <3>2, <3>6, <3>7
  <2> QED
    BY <2>3, <2>4
<1> QED
  BY <1>1, <1>2, <1>3, <1>4, CodeFound

-----------------------------------------------------------------------------
(* The host                                                                *)

(* What holds between the calls and after each of them.                    *)
EditInv == (\E s : Holds(mem, s)) /\ EditExact /\ InBounds

(* The answers differ.                                                     *)
LEMMA AnswersDiffer == UNDEFINED # RL_SUCCESS /\ UNDEFINED # RL_FAILED
BY DEF UNDEFINED, RL_SUCCESS, RL_FAILED

(* The array at the start.                                                 *)
LEMMA EditBegins == EditInit => EditInv
<1> SUFFICES ASSUME EditInit PROVE EditInv
  OBVIOUS
<1>1. Size \in Nat /\ 1 <= Size /\ Offsets \in SUBSET Nat /\ 0 \in Offsets
  BY StrEditAssumption, RlStrAssumption DEF Offsets
<1>2. Holds(mem, <<>>)
  <2>1. <<>> \in Seq(Codes) /\ Len(<<>>) = 0
    BY EmptySeq
  <2>2. mem \in [Offsets -> Nat]
    BY DEF EditInit, NUL, FOREIGN
  <2>3. mem[0] = NUL
    BY <1>1 DEF EditInit
  <2>4. \A i \in Offsets : i >= Size => mem[i] = FOREIGN
    BY <1>1 DEF EditInit
  <2>5. 0 < Size /\ 1 .. 0 = {}
    BY <1>1
  <2> QED
    BY <2>1, <2>2, <2>3, <2>4, <2>5 DEF Holds
<1>3. strlen(mem) = 0
  BY <1>2, HoldsIs
<1>4. /\ call.fn = "none" /\ call.was = mem /\ call.len = Size
      /\ call.ret # UNDEFINED /\ ~Overruns(call)
  BY AnswersDiffer DEF EditInit, NoCall, Overruns
<1>5. EditExact
  BY <1>4 DEF EditExact
<1>6. InBounds
  BY <1>1, <1>2, <1>3, <1>4 DEF InBounds, Holds
<1> QED
  BY <1>2, <1>5, <1>6 DEF EditInv

(* An answered call leaves no claim on the next.                           *)
LEMMA EditAnswered == EditInv /\ answered => EditInv'
<1> SUFFICES ASSUME EditInv, answered PROVE EditInv'
  OBVIOUS
<1>1. PICK s : Holds(mem, s)
  BY DEF EditInv
<1>2. mem' = mem /\ Holds(mem', s)
  BY <1>1 DEF answered
<1>3. strlen(mem) = Len(s) /\ Len(s) < Size /\ Size \in Nat /\ Len(s) \in Nat
  BY <1>1, HoldsIs, StrEditAssumption, RlStrAssumption DEF Holds
<1>4. /\ call'.fn = "none" /\ call'.was = mem /\ call'.len = Size
      /\ call'.ret # UNDEFINED /\ ~Overruns(call)'
  BY AnswersDiffer DEF answered, NoCall, Overruns
<1>5. EditExact'
  BY <1>4 DEF EditExact
<1>6. InBounds'
  BY <1>1, <1>2, <1>3, <1>4 DEF InBounds, Holds
<1> QED
  BY <1>2, <1>5, <1>6 DEF EditInv

(* A call that has overrun.                                                *)
LEMMA EditOverrun ==
  ASSUME NEW s, Holds(mem, s), call'.ret = UNDEFINED, mem' = mem, Overruns(call)'
  PROVE  EditInv'
<1>1. Holds(mem', s)
  OBVIOUS
<1>2. EditExact' /\ InBounds'
  BY DEF EditExact, InBounds
<1> QED
  BY <1>1, <1>2 DEF EditInv

(* A call that has made what it is meant to, or refused.                   *)
LEMMA EditCalled ==
  ASSUME NEW s, Holds(mem, s), NEW o, call'.was = mem, call'.len \in 0 .. Size,
         call'.ret = o.ret, mem' = o.mem, ~Overruns(call)',
         Made(Meant(call', s), call'.len, mem, s, o)
  PROVE  EditInv'
<1>1. strlen(mem) = Len(s) /\ Str(mem) = s
  BY HoldsIs
<1>2. PICK n \in Nat, k \in Nat :
        n = call'.len /\ k = Len(s) /\ n <= Size /\ k < Size /\ Size \in Nat
  BY StrEditAssumption, RlStrAssumption DEF Holds
<1>3. PICK x : x = Meant(call', s)
  OBVIOUS
<1>4. Offsets \in SUBSET Nat
  BY <1>2 DEF Offsets
<1>5. \A i \in Offsets : i >= Max({n, k + 1}) => i >= n /\ i >= k + 1
  <2>1. Max({n, k + 1}) = IF n >= k + 1 THEN n ELSE k + 1
    <3>1. k + 1 \in Nat
      OBVIOUS
    <3> QED
      BY <3>1, LargerOfTwo
  <2> QED
    BY <1>4, <2>1
<1>6. CASE o = Refused(mem) /\ (x = None \/ (x \in Seq(Codes) /\ ~(Len(x) < n)))
  <2>1. o.ret = RL_FAILED /\ o.mem = mem /\ o.ret # UNDEFINED
    BY <1>6, AnswersDiffer DEF Refused
  <2>2. Holds(mem', s) /\ mem' = mem
    BY <2>1
  <2>3. ~(x # None /\ Len(x) < n)
    BY <1>6
  <2>4. EditExact'
    BY <1>1, <1>2, <1>3, <2>1, <2>2, <2>3 DEF EditExact
  <2>5. InBounds'
    BY <1>1, <1>2, <2>1, <2>2 DEF InBounds, Holds
  <2> QED
    BY <2>2, <2>4, <2>5 DEF EditInv
<1>7. CASE /\ Fits(x, n)
           /\ o.ret = RL_SUCCESS /\ Holds(o.mem, x)
           /\ \A i \in Offsets : i >= n /\ i >= Len(s) + 1 => o.mem[i] = mem[i]
  <2>1. Holds(mem', x) /\ x \in Seq(Codes) /\ Len(x) < n
    BY <1>7 DEF Fits
  <2>2. strlen(mem') = Len(x) /\ Str(mem') = x /\ Len(x) < Size
    BY <2>1, HoldsIs DEF Holds
  <2>3. x # None
    BY <2>1, NotNone
  <2>4. EditExact'
    BY <1>1, <1>2, <1>3, <1>7, <2>1, <2>2, <2>3 DEF EditExact
  <2>5. \A i \in Offsets : i >= Max({n, k + 1}) => mem'[i] = mem[i]
    BY <1>2, <1>5, <1>7
  <2>6. \A i \in Offsets : i >= Size => mem'[i] = FOREIGN
    BY <2>1 DEF Holds
  <2>7. InBounds'
    BY <1>1, <1>2, <1>7, <2>2, <2>5, <2>6, AnswersDiffer DEF InBounds
  <2> QED
    BY <2>1, <2>4, <2>7 DEF EditInv
<1> QED
  BY <1>2, <1>3, <1>6, <1>7 DEF Made

(* Every call of the host.                                                 *)
LEMMA EditCalls ==
  ASSUME EditInv, EditNext
  PROVE  EditInv'
<1>1. PICK s : Holds(mem, s)
  BY DEF EditInv
<1>2. /\ s \in Seq(Codes) /\ Str(mem) = s /\ Size \in Nat /\ Size \in 0 .. Size
      /\ Chars \subseteq Codes /\ Lengths \subseteq 0 .. Size
  BY <1>1, HoldsIs, StrEditAssumption, RlStrAssumption DEF Holds, Codes
<1>3. ASSUME NEW t \in Sources PROVE t \in Seq(Codes)
  <2>1. t \in Seq(Chars)
    BY StrEditAssumption
  <2> QED
    BY <1>2, <2>1, SeqMonotonic
<1>4. CASE answered \/ undefined
  <2>1. CASE undefined
    BY <2>1 DEF undefined, editvars, EditInv, EditExact, InBounds, Overruns, Holds
  <2> QED
    BY <1>4, <2>1, EditAnswered
<1>5. CASE copy
  <2>1. PICK src \in Sources, n \in Lengths :
          Do([NoCall EXCEPT !.fn = "copy", !.s = src, !.len = n], rl_strcpy_s(mem, n, src))
    BY <1>5 DEF copy
  <2>2. PICK o : o = rl_strcpy_s(mem, n, src)
    OBVIOUS
  <2>3. /\ call'.fn = "copy" /\ call'.s = src /\ call'.len = n /\ call'.was = mem
        /\ call'.ret = o.ret /\ mem' = o.mem
    BY <2>1, <2>2 DEF Do, NoCall
  <2>4. n \in 0 .. Size /\ src \in Seq(Codes)
    BY <1>2, <1>3
  <2>5. CASE n = 0 /\ src # <<>>
    <3>1. o = Overrun(mem)
      BY <2>2, <2>4, <2>5, CopyOverruns
    <3>2. Overruns(call)'
      BY <2>3, <2>5 DEF Overruns
    <3> QED
      BY <1>1, <2>3, <3>1, <3>2, EditOverrun DEF Overrun
  <2>6. CASE ~(n = 0 /\ src # <<>>)
    <3>1. Meant(call', s) = IF src = <<>> THEN None ELSE Cut(src, n - 1)
      BY <2>3 DEF Meant
    <3>2. ~Overruns(call)'
      BY <2>3, <2>6 DEF Overruns
    <3>3. CASE src = <<>>
      <4>1. o = Refused(mem) /\ Meant(call', s) = None
        BY <2>2, <3>1, <3>3 DEF rl_strcpy_s
      <4> QED
        BY <1>1, <2>3, <2>4, <3>2, <4>1, EditCalled DEF Made
    <3>4. CASE src # <<>>
      <4>1. n \in 1 .. Size
        BY <1>2, <2>4, <2>6, <3>4
      <4>2. Made(Meant(call', s), n, mem, s, o)
        BY <1>1, <2>2, <2>4, <3>1, <4>1, CopyMade
      <4> QED
        BY <1>1, <2>3, <2>4, <3>2, <4>2, EditCalled
    <3> QED
      BY <3>3, <3>4
  <2> QED
    BY <2>5, <2>6
<1>6. CASE remove_line
  <2>1. PICK o : o = rl_str_rm_line(mem)
    OBVIOUS
  <2>2. /\ call'.fn = "line" /\ call'.len = Size /\ call'.was = mem
        /\ call'.ret = o.ret /\ mem' = o.mem /\ ~Overruns(call)'
    BY <1>6, <2>1 DEF remove_line, Do, NoCall, Overruns
  <2>3. Meant(call', s) = IF s = <<>> THEN None ELSE Cut(s, First(s \o <<NEWLINE>>, NEWLINE) - 1)
    BY <2>2 DEF Meant, SelectInSeq, First
  <2>4. Made(Meant(call', s), Size, mem, s, o)
    BY <1>1, <2>1, <2>3, LineMade
  <2> QED
    BY <1>1, <1>2, <2>2, <2>4, EditCalled
<1>7. CASE insert
  <2>1. PICK p \in 0 .. Size, ch \in Chars, n \in Lengths :
          Do([NoCall EXCEPT !.fn = "insert", !.pos = p, !.ch = ch, !.len = n],
             rl_str_insert_ch(mem, p, ch, n))
    BY <1>7 DEF insert
  <2>2. PICK o : o = rl_str_insert_ch(mem, p, ch, n)
    OBVIOUS
  <2>3. /\ call'.fn = "insert" /\ call'.pos = p /\ call'.ch = ch /\ call'.len = n
        /\ call'.was = mem /\ call'.ret = o.ret /\ mem' = o.mem /\ ~Overruns(call)'
    BY <2>1, <2>2 DEF Do, NoCall, Overruns
  <2>4. n \in 0 .. Size /\ ch \in Codes
    BY <1>2
  <2>5. Meant(call', s) = IF p > Len(s) THEN None ELSE InsertAt(s, p + 1, ch)
    BY <2>3 DEF Meant
  <2>6. Made(Meant(call', s), n, mem, s, o)
    BY <1>1, <2>2, <2>4, <2>5, InsertMade
  <2> QED
    BY <1>1, <2>3, <2>4, <2>6, EditCalled
<1>8. CASE delete
  <2>1. PICK p \in 0 .. Size :
          Do([NoCall EXCEPT !.fn = "delete", !.pos = p], rl_delete_char(mem, p))
    BY <1>8 DEF delete
  <2>2. PICK o : o = rl_delete_char(mem, p)
    OBVIOUS
  <2>3. /\ call'.fn = "delete" /\ call'.pos = p /\ call'.len = Size
        /\ call'.was = mem /\ call'.ret = o.ret /\ mem' = o.mem /\ ~Overruns(call)'
    BY <2>1, <2>2 DEF Do, NoCall, Overruns
  <2>4. p \in Nat
    BY <1>2
  <2>5. Meant(call', s) = IF p >= Len(s) THEN None ELSE RemoveAt(s, p + 1)
    BY <2>3 DEF Meant
  <2>6. Made(Meant(call', s), Size, mem, s, o)
    BY <1>1, <2>2, <2>4, <2>5, DeleteMade
  <2> QED
    BY <1>1, <1>2, <2>3, <2>6, EditCalled
<1>9. CASE remove
  <2>1. PICK t \in Sources :
          Do([NoCall EXCEPT !.fn = "remove", !.t = t], rl_remove_substr(mem, t))
    BY <1>9 DEF remove
  <2>2. PICK o : o = rl_remove_substr(mem, t)
    OBVIOUS
  <2>3. /\ call'.fn = "remove" /\ call'.t = t /\ call'.len = Size
        /\ call'.was = mem /\ call'.ret = o.ret /\ mem' = o.mem /\ ~Overruns(call)'
    BY <2>1, <2>2 DEF Do, NoCall, Overruns
  <2>4. Meant(call', s) = IF t # <<>> /\ t \in SubSeqs(s)
                          THEN ReplaceFirstSubSeq(<<>>, t, s) ELSE None
    BY <2>3 DEF Meant
  <2>5. Made(Meant(call', s), Size, mem, s, o)
    BY <1>1, <1>3, <2>2, <2>4, RemoveMade
  <2> QED
    BY <1>1, <1>2, <2>3, <2>5, EditCalled
<1>10. CASE replace_text
  <2>1. PICK t \in Sources, r \in Sources, n \in Lengths :
          Do([NoCall EXCEPT !.fn = "replace", !.t = t, !.s = r, !.len = n],
             rl_replace_substr(mem, t, r, n))
    BY <1>10 DEF replace_text
  <2>2. PICK o : o = rl_replace_substr(mem, t, r, n)
    OBVIOUS
  <2>3. /\ call'.fn = "replace" /\ call'.t = t /\ call'.s = r /\ call'.len = n
        /\ call'.was = mem /\ call'.ret = o.ret /\ mem' = o.mem
    BY <2>1, <2>2 DEF Do, NoCall
  <2>4. n \in 0 .. Size /\ t \in Seq(Codes) /\ r \in Seq(Codes)
    BY <1>2, <1>3
  <2>5. Meant(call', s) = Swapped(s, t, r)
    BY <2>3 DEF Meant, Swapped
  <2>6. strlen(mem) = Len(s)
    BY <1>1, HoldsIs
  <2>7. Overruns(call)' <=> TooLong(s, Meant(call', s), n)
    BY <1>2, <2>3, <2>6 DEF Overruns, TooLong
  <2>8. CASE TooLong(s, Meant(call', s), n)
    <3>1. o = Overrun(mem)
      BY <1>1, <2>2, <2>4, <2>5, <2>8, ReplaceMade
    <3> QED
      BY <1>1, <2>3, <2>7, <2>8, <3>1, EditOverrun DEF Overrun
  <2>9. CASE ~TooLong(s, Meant(call', s), n)
    <3>1. Made(Meant(call', s), n, mem, s, o)
      BY <1>1, <2>2, <2>4, <2>5, <2>9, ReplaceMade
    <3> QED
      BY <1>1, <2>3, <2>4, <2>7, <2>9, <3>1, EditCalled
  <2> QED
    BY <2>8, <2>9
<1>11. CASE replace_ch
  <2>1. PICK t \in Sources, ch \in Chars, n \in Lengths :
          Do([NoCall EXCEPT !.fn = "replace_char", !.t = t, !.ch = ch, !.len = n],
             rl_replace_char(mem, t, ch, n))
    BY <1>11 DEF replace_ch
  <2>2. PICK o : o = rl_replace_char(mem, t, ch, n)
    OBVIOUS
  <2>3. /\ call'.fn = "replace_char" /\ call'.t = t /\ call'.ch = ch /\ call'.len = n
        /\ call'.was = mem /\ call'.ret = o.ret /\ mem' = o.mem /\ ~Overruns(call)'
    BY <2>1, <2>2 DEF Do, NoCall, Overruns
  <2>4. n \in 0 .. Size /\ t \in Seq(Codes) /\ ch \in Codes
    BY <1>2, <1>3
  <2>5. Meant(call', s) = Swapped(s, t, <<ch>>)
    BY <2>3 DEF Meant, Swapped
  <2>6. Made(Meant(call', s), n, mem, s, o)
    BY <1>1, <2>2, <2>4, <2>5, ReplaceCharMade
  <2> QED
    BY <1>1, <2>3, <2>4, <2>6, EditCalled
<1>12. CASE after_char
  <2>1. PICK src \in Sources, ch \in Chars, n \in Lengths :
          Do([NoCall EXCEPT !.fn = "after", !.s = src, !.ch = ch, !.len = n],
             rl_get_str_after_char(mem, src, ch, n))
    BY <1>12 DEF after_char
  <2>2. PICK o : o = rl_get_str_after_char(mem, src, ch, n)
    OBVIOUS
  <2>3. /\ call'.fn = "after" /\ call'.s = src /\ call'.ch = ch /\ call'.len = n
        /\ call'.was = mem /\ call'.ret = o.ret /\ mem' = o.mem /\ ~Overruns(call)'
    BY <2>1, <2>2 DEF Do, NoCall, Overruns
  <2>4. n \in 0 .. Size /\ src \in Seq(Codes) /\ ch \in Codes
    BY <1>2, <1>3
  <2>5. Meant(call', s) =
          IF First(src, ch) \in {0, Len(src)} \/ n = 0 THEN None
          ELSE Cut(SubSeq(src, First(src, ch) + 1, Len(src)), n - 1)
    BY <2>3 DEF Meant, SelectInSeq, First
  <2>6. Made(Meant(call', s), n, mem, s, o)
    BY <1>1, <2>2, <2>4, <2>5, AfterMade
  <2> QED
    BY <1>1, <2>3, <2>4, <2>6, EditCalled
<1> QED
  BY <1>4, <1>5, <1>6, <1>7, <1>8, <1>9, <1>10, <1>11, <1>12 DEF EditNext

(* The invariant.                                                          *)
LEMMA EditAlways == EditSpec => []EditInv
<1>1. EditInit => EditInv
  BY EditBegins
<1>2. EditInv /\ [EditNext]_editvars => EditInv'
  <2> SUFFICES ASSUME EditInv, [EditNext]_editvars PROVE EditInv'
    OBVIOUS
  <2>1. CASE EditNext
    BY <2>1, EditCalls
  <2>2. CASE UNCHANGED editvars
    BY <2>2 DEF editvars, EditInv, EditExact, InBounds, Overruns, Holds
  <2> QED
    BY <2>1, <2>2
<1> QED
  BY <1>1, <1>2, PTL DEF EditSpec

(* Every editing function of rlstr makes of the text in the array what the *)
(* operation on sequences makes of it, when that fits the size it is given *)
(* (rlstr.c:46 to :296); otherwise it answers RL_FAILED and has not        *)
(* touched the memory. For any array, any texts and any history of calls   *)
(* before the first that overruns, and of that one nothing is said.        *)
THEOREM TextsAlwaysExact == EditSpec => []EditExact
<1>1. EditInv => EditExact
  BY DEF EditInv
<1> QED
  BY <1>1, EditAlways, PTL

(* Two calls write outside what they have, and no others: rl_strcpy_s of   *)
(* anything into a size of 0, and rl_replace_substr where the new text     *)
(* fits the size named and the old one does not. Before the first of them  *)
(* no editing function writes behind the array, nor past the old text and  *)
(* the size it is given, and the array always holds a string.              *)
THEOREM EditsAlwaysInBounds == EditSpec => []InBounds
<1>1. EditInv => InBounds
  BY DEF EditInv
<1> QED
  BY <1>1, EditAlways, PTL
=============================================================================
