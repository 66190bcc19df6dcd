---------------------------- MODULE AnswersProofs ---------------------------
(***************************************************************************)
(* The status code and the outputs of an answer are those of the script,   *)
(* and reading them never throws, however much program and tests print and *)
(* whatever the width of size_t.                                           *)
(***************************************************************************)
EXTENDS Answers, WellFoundedInduction, TLAPS

-----------------------------------------------------------------------------
(* Sizes.                                                                  *)

\* The number of values of a size_t.
Sizes == 2^SizeBits

\* A size_t keeps what it can count, and wraps around once below zero and once
\* above the end.
LEMMA Wraps ==
    ASSUME NEW n \in Int
    PROVE  /\ Sizes \in Nat /\ Sizes > 2 * MaxPrints + 100 /\ MaxPrints \in Nat
           /\ n \in 0..Sizes - 1 => Size(n) = n
           /\ n \in 0..Sizes - 1 => Size(n + Sizes) = n
           /\ Size(n) \in 0..Sizes - 1
           /\ npos = Sizes - 1
  <1>1. Sizes \in Nat /\ Sizes > 2 * MaxPrints + 100 /\ MaxPrints \in Nat
    BY AnswersAssumption DEF Sizes
  <1>4. Size(n) = n % Sizes /\ Size(n + Sizes) = (n + Sizes) % Sizes /\ npos = (-1) % Sizes
    BY DEF Size, npos, Sizes
  <1> QED
    BY <1>1, <1>4

-----------------------------------------------------------------------------
(* Texts.                                                                  *)

\* Every nonempty set of natural numbers has a least element.
LEMMA LeastNatural ==
    ASSUME NEW S \in SUBSET Nat, S # {} PROVE \E i \in S : \A j \in S : i <= j
  <1> DEFINE R == OpToRel(<, Nat)
  <1>1. IsWellFoundedOn(R, Nat)
    BY NatLessThanWellFounded, Zenon
  <1>2. \A i, j \in Nat : i < j => <<i, j>> \in R
    BY DEF OpToRel
  <1> HIDE DEF R
  <1>3. \E i \in S : \A j \in S : ~(<<j, i>> \in R)
    BY <1>1, WFMin, Zenon
  <1>4. PICK i \in S : \A j \in S : ~(<<j, i>> \in R)
    BY <1>3
  <1>5. ASSUME NEW j \in S PROVE i <= j
    <2>2. ~(j < i)
      BY <1>2, <1>4, Zenon
    <2> QED
      BY <2>2
  <1> QED
    BY <1>5

Lacks(s, c) == \A i \in 1..Len(s) : s[i] # c

LEMMA Widths ==
    /\ Width("user_code_ok") = 21 /\ Width("user_solution_ok") = 25
    /\ Width("tests_cases_error") = 26 /\ Width("user_solution_error") = 28
    /\ Width("124") = 3 /\ Width("125") = 3 /\ Width("137") = 3 /\ Width("CRLF") = 2
    /\ Width("out") = 1 /\ Width("daemon_error") = 1
  BY DEF Width

LEMMA WidthType == ASSUME NEW p \in Pieces PROVE Width(p) \in 1..28
  <1>1. /\ Width("internal_error") = 1 /\ Width("timeout") = 1
        /\ Width("out_of_memory") = 1
    BY DEF Width
  <1>2. Width(p) \in {1, 2, 3, 21, 25, 26, 28}
    BY <1>1, Widths DEF Pieces
  <1> QED
    BY <1>2

LEMMA SameInterval == ASSUME NEW m \in Nat, NEW n \in Nat, 1..m = 1..n PROVE m = n
  OBVIOUS

LEMMA Spelled ==
    ASSUME NEW p \in Pieces
    PROVE  /\ Spell(p) \in Seq(Char)
           /\ Len(Spell(p)) = Width(p) /\ Width(p) \in 1..28
           /\ \A i \in 1..Width(p) : Spell(p)[i] = <<p, i>>
  <1>1. Width(p) \in 1..28
    BY WidthType
  <1>2. \A i \in 1..Width(p) : <<p, i>> \in Char
    BY DEF Char
  <1>3. Spell(p) \in [1..Width(p) -> Char] /\ DOMAIN Spell(p) = 1..Width(p)
    BY <1>2 DEF Spell
  <1>4. Spell(p) \in UNION {[1..n -> Char] : n \in Nat}
    <2>1. Width(p) \in Nat
      BY <1>1
    <2> QED
      BY <1>3, <2>1, Zenon
  <1>5. Spell(p) \in Seq(Char)
    BY <1>4
  <1>6. Len(Spell(p)) \in Nat /\ 1..Len(Spell(p)) = 1..Width(p)
    BY <1>3
  <1>7. Len(Spell(p)) = Width(p)
    <2>1. Width(p) \in Nat
      BY <1>1
    <2> QED
      BY <1>6, <2>1, SameInterval, Zenon
  <1> QED
    BY <1>1, <1>5, <1>7, Zenon DEF Spell

\* What find returns when it finds something is an occurrence.
LEMMA FindMatches ==
    ASSUME NEW s \in Seq(Char), NEW q \in Seq(Char), find(s, q) # npos
    PROVE  /\ find(s, q) \in 0..Len(s) - Len(q)
           /\ \A j \in 1..Len(q) : s[find(s, q) + j] = q[j]
  <1> DEFINE at == {i \in 0..(Len(s) - Len(q)) : SubSeq(s, i + 1, i + Len(q)) = q}
  <1>1. at # {} /\ find(s, q) = Min(at)
    BY Zenon DEF find
  <1>3. PICK i \in at : \A j \in at : i <= j
    <2>1. at \in SUBSET Nat
      OBVIOUS
    <2> HIDE DEF at
    <2> QED
      BY <1>1, <2>1, LeastNatural
  <1>4. Min(at) \in at
    BY <1>3, Zenon DEF Min
  <1>5. ASSUME NEW k \in at
        PROVE  k \in 0..Len(s) - Len(q) /\ \A j \in 1..Len(q) : s[k + j] = q[j]
    <2>3. \A j \in 1..(k + Len(q)) - (k + 1) + 1 : SubSeq(s, k + 1, k + Len(q))[j] = s[k + 1 + j - 1]
      OBVIOUS
    <2>4. ASSUME NEW j \in 1..Len(q) PROVE s[k + j] = q[j]
      <3>1. j \in 1..(k + Len(q)) - (k + 1) + 1 /\ k + 1 + j - 1 = k + j
        OBVIOUS
      <3> QED
        BY <2>3, <3>1, Zenon
    <2> QED
      BY <2>4, Zenon
  <1> HIDE DEF at
  <1> QED
    BY <1>1, <1>4, <1>5, Zenon

LEMMA MinIs ==
    ASSUME NEW S \in SUBSET Int, NEW x \in S, \A y \in S : x <= y PROVE Min(S) = x
  <1>1. Min(S) \in S /\ \A y \in S : Min(S) <= y
    BY Zenon DEF Min
  <1>2. Min(S) \in Int /\ x \in Int /\ x <= Min(S) /\ Min(S) <= x
    BY <1>1, Zenon
  <1> QED
    BY <1>2

LEMMA SameText ==
    ASSUME NEW s \in Seq(Char), NEW t \in Seq(Char), Len(s) = Len(t),
           \A i \in 1..Len(t) : s[i] = t[i]
    PROVE  s = t
  OBVIOUS

\* An occurrence at i, read character by character.
LEMMA Occurs ==
    ASSUME NEW s \in Seq(Char), NEW q \in Seq(Char), NEW i \in 0..Len(s) - Len(q)
    PROVE  SubSeq(s, i + 1, i + Len(q)) = q <=> \A j \in 1..Len(q) : s[i + j] = q[j]
  <1> DEFINE t == SubSeq(s, i + 1, i + Len(q))
  <1>2. \A j \in (i + 1)..(i + Len(q)) : s[j] \in Char
    OBVIOUS
  <1>3. /\ t \in Seq(Char)
        /\ Len(t) = IF i + 1 <= i + Len(q) THEN (i + Len(q)) - (i + 1) + 1 ELSE 0
        /\ \A j \in 1..(i + Len(q)) - (i + 1) + 1 : t[j] = s[i + 1 + j - 1]
    BY <1>2
  <1> HIDE DEF t
  <1>4. Len(t) = Len(q)
    BY <1>3
  <1>5. ASSUME NEW j \in 1..Len(q) PROVE t[j] = s[i + j]
    <2>1. j \in 1..(i + Len(q)) - (i + 1) + 1 /\ i + 1 + j - 1 = i + j
      OBVIOUS
    <2> QED
      BY <1>3, <2>1, Zenon
  <1>6. t = q <=> \A j \in 1..Len(q) : t[j] = q[j]
    BY <1>3, <1>4, SameText, Zenon
  <1>7. t = q <=> \A j \in 1..Len(q) : s[i + j] = q[j]
    BY <1>5, <1>6
  <1> QED
    BY <1>7, Zenon DEF t

\* Where the first character is missing find finds nothing.
LEMMA FindNone ==
    ASSUME NEW s \in Seq(Char), NEW q \in Seq(Char), Len(q) > 0, Lacks(s, q[1])
    PROVE  find(s, q) = npos
  <1>2. ASSUME NEW i \in 0..Len(s) - Len(q) PROVE SubSeq(s, i + 1, i + Len(q)) # q
    <2>1. 1 \in 1..Len(q) /\ i + 1 \in 1..Len(s)
      OBVIOUS
    <2>2. s[i + 1] # q[1]
      BY DEF Lacks
    <2> QED
      BY <2>1, <2>2, Occurs, Zenon
  <1> QED
    BY <1>2, Zenon DEF find

\* The pieces of a concatenation.
LEMMA Joined ==
    ASSUME NEW a \in Seq(Char), NEW b \in Seq(Char)
    PROVE  /\ a \o b \in Seq(Char)
           /\ Len(a) \in Nat /\ Len(b) \in Nat /\ Len(a \o b) = Len(a) + Len(b)
           /\ \A i \in 1..Len(a) : (a \o b)[i] = a[i]
           /\ \A i \in 1..Len(b) : (a \o b)[Len(a) + i] = b[i]
  <1>1. /\ a \o b \in Seq(Char)
        /\ Len(a) \in Nat /\ Len(b) \in Nat /\ Len(a \o b) = Len(a) + Len(b)
        /\ \A i \in 1..Len(a) + Len(b) :
             (a \o b)[i] = IF i <= Len(a) THEN a[i] ELSE b[i - Len(a)]
    OBVIOUS
  <1>2. \A i \in 1..Len(a) : (a \o b)[i] = a[i]
    OBVIOUS
  <1>3. ASSUME NEW i \in 1..Len(b) PROVE (a \o b)[Len(a) + i] = b[i]
    <2>1. Len(a) + i \in 1..Len(a) + Len(b) /\ ~(Len(a) + i <= Len(a)) /\ (Len(a) + i) - Len(a) = i
      OBVIOUS
    <2> QED
      BY <1>1, <2>1, Zenon
  <1> QED
    BY <1>1, <1>2, <1>3, Zenon

LEMMA TextLen == ASSUME NEW s \in Seq(Char) PROVE Len(s) \in Nat
  OBVIOUS

LEMMA EmptyTail == ASSUME NEW s \in Seq(Char) PROVE s \o << >> = s
  OBVIOUS

LEMMA Assoc ==
    ASSUME NEW a \in Seq(Char), NEW b \in Seq(Char), NEW c \in Seq(Char)
    PROVE  (a \o b) \o c = a \o (b \o c)
  OBVIOUS

\* A part of a text.
LEMMA Part ==
    ASSUME NEW s \in Seq(Char), NEW m \in Nat, NEW n \in Nat, m <= n, n <= Len(s)
    PROVE  /\ SubSeq(s, m + 1, n) \in Seq(Char)
           /\ Len(SubSeq(s, m + 1, n)) = n - m
           /\ \A i \in 1..n - m : SubSeq(s, m + 1, n)[i] = s[m + i]
  <1> DEFINE t == SubSeq(s, m + 1, n)
  <1>3. /\ t \in Seq(Char) /\ Len(t) = IF m + 1 <= n THEN n - (m + 1) + 1 ELSE 0
        /\ \A i \in 1..n - (m + 1) + 1 : t[i] = s[(m + 1) + i - 1]
    OBVIOUS
  <1> HIDE DEF t
  <1>4. Len(t) = n - m
    BY <1>3
  <1>5. ASSUME NEW i \in 1..n - m PROVE t[i] = s[m + i]
    <2>1. i \in 1..n - (m + 1) + 1 /\ (m + 1) + i - 1 = m + i
      OBVIOUS
    <2> QED
      BY <1>3, <2>1, Zenon
  <1> QED
    BY <1>3, <1>4, <1>5, Zenon DEF t

\* A text is found after a part that lacks its first character.
LEMMA FindAt ==
    ASSUME NEW a \in Seq(Char), NEW q \in Seq(Char), NEW b \in Seq(Char), Len(q) > 0,
           Lacks(a, q[1])
    PROVE  find(a \o (q \o b), q) = Len(a)
  <1> DEFINE s  == a \o (q \o b)
             at == {i \in 0..(Len(s) - Len(q)) : SubSeq(s, i + 1, i + Len(q)) = q}
  <1>1. /\ s \in Seq(Char) /\ Len(a) \in Nat /\ Len(q) \in Nat /\ Len(b) \in Nat
        /\ Len(s) = Len(a) + (Len(q) + Len(b))
        /\ \A i \in 1..Len(a) : s[i] = a[i]
        /\ \A i \in 1..Len(q) : s[Len(a) + i] = q[i]
    <2>1. /\ q \o b \in Seq(Char) /\ Len(q \o b) = Len(q) + Len(b)
          /\ Len(q) \in Nat /\ Len(b) \in Nat
          /\ \A i \in 1..Len(q) : (q \o b)[i] = q[i]
      OBVIOUS
    <2>2. /\ s \in Seq(Char) /\ Len(s) = Len(a) + Len(q \o b)
          /\ Len(a) \in Nat
          /\ \A i \in 1..Len(a) : s[i] = a[i]
          /\ \A i \in 1..Len(q \o b) : s[Len(a) + i] = (q \o b)[i]
      BY <2>1, Joined, Zenon
    <2>3. \A i \in 1..Len(q) : i \in 1..Len(q \o b)
      OBVIOUS
    <2> QED
      BY <2>1, <2>2, <2>3, Zenon
  <1> HIDE DEF s
  <1>2. Len(a) \in 0..Len(s) - Len(q)
    BY <1>1
  <1>3. Len(a) \in at
    BY <1>1, <1>2, Occurs, Zenon
  <1>4. ASSUME NEW i \in at PROVE Len(a) <= i
    <2>1. i \in 0..Len(s) - Len(q) /\ s[i + 1] = q[1]
      <3>1. i \in 0..Len(s) - Len(q) /\ SubSeq(s, i + 1, i + Len(q)) = q
        OBVIOUS
      <3>2. 1 \in 1..Len(q)
        OBVIOUS
      <3> QED
        BY <1>1, <3>1, <3>2, Occurs, Zenon
    <2>2. i + 1 \notin 1..Len(a)
      BY <1>1, <2>1, Zenon DEF Lacks
    <2> QED
      BY <2>2
  <1>6. find(s, q) = IF at = {} THEN npos ELSE Min(at)
    BY DEF find
  <1> HIDE DEF at
  <1>7. find(s, q) = Len(a)
    BY <1>3, <1>4, <1>6, MinIs
  <1> QED
    BY <1>7 DEF s

\* The two parts of a concatenation, cut out again.
LEMMA Cut ==
    ASSUME NEW a \in Seq(Char), NEW b \in Seq(Char)
    PROVE  /\ SubSeq(a \o b, 1, Len(a)) = a
           /\ SubSeq(a \o b, Len(a) + 1, Len(a) + Len(b)) = b
           /\ SubSeq(a \o b, Len(a) + 1, Len(a \o b)) = b
  <1>1. /\ a \o b \in Seq(Char)
        /\ Len(a) \in Nat /\ Len(b) \in Nat /\ Len(a \o b) = Len(a) + Len(b)
        /\ \A i \in 1..Len(a) : (a \o b)[i] = a[i]
        /\ \A i \in 1..Len(b) : (a \o b)[Len(a) + i] = b[i]
    OBVIOUS
  <1>2. SubSeq(a \o b, 0 + 1, 0 + Len(a)) = a
    <2>1. 0 \in 0..Len(a \o b) - Len(a) /\ \A j \in 1..Len(a) : 0 + j = j
      OBVIOUS
    <2>2. \A j \in 1..Len(a) : (a \o b)[0 + j] = a[j]
      OBVIOUS
    <2> QED
      BY <1>1, <2>1, <2>2, Occurs, Zenon
  <1>3. SubSeq(a \o b, Len(a) + 1, Len(a) + Len(b)) = b
    <2>1. Len(a) \in 0..Len(a \o b) - Len(b)
      OBVIOUS
    <2> QED
      BY <1>1, <2>1, Occurs, Zenon
  <1>4. 0 + 1 = 1 /\ 0 + Len(a) = Len(a)
    OBVIOUS
  <1> QED
    BY <1>1, <1>2, <1>3, <1>4, Zenon

-----------------------------------------------------------------------------
(* What a text is made of.                                                 *)

Of(P) == Seq(P \X Nat)

LEMMA OfText == ASSUME NEW P \in SUBSET Pieces, NEW s \in Of(P) PROVE s \in Seq(Char)
  BY DEF Of, Char

LEMMA OfMore ==
    ASSUME NEW Q, NEW P \in SUBSET Q, NEW s \in Of(P) PROVE s \in Of(Q)
  BY DEF Of

LEMMA OfLacks == ASSUME NEW P, NEW s \in Of(P), NEW p, p \notin P PROVE Lacks(s, <<p, 1>>)
  <1> SUFFICES ASSUME NEW i \in 1..Len(s) PROVE s[i] # <<p, 1>>
    BY DEF Lacks
  <1>1. s[i] \in P \X Nat
    BY DEF Of
  <1> QED
    BY <1>1

LEMMA OfSpell == ASSUME NEW P \in SUBSET Pieces, NEW p \in P PROVE Spell(p) \in Of(P)
  <1>1. /\ Spell(p) \in Seq(Char) /\ Len(Spell(p)) = Width(p) /\ Width(p) \in 1..28
        /\ \A i \in 1..Width(p) : Spell(p)[i] = <<p, i>>
    BY Spelled, Zenon
  <1>2. ASSUME NEW i \in 1..Len(Spell(p)) PROVE Spell(p)[i] \in P \X Nat
    <2>1. i \in Nat /\ Spell(p)[i] = <<p, i>>
      BY <1>1
    <2> QED
      BY <2>1
  <1> QED
    BY <1>1, <1>2 DEF Of

LEMMA OfJoin == ASSUME NEW P, NEW a \in Of(P), NEW b \in Of(P) PROVE a \o b \in Of(P)
  BY DEF Of

LEMMA OfCut ==
    ASSUME NEW P, NEW s \in Of(P), NEW m \in Nat \ {0}, NEW n \in 0..Len(s)
    PROVE  SubSeq(s, m, n) \in Of(P)
  BY DEF Of

-----------------------------------------------------------------------------
(* removeEscapeSequencesTender.                                            *)

LEMMA EscapedIs ==
    ASSUME NEW p \in Pieces
    PROVE  /\ Spell(p) \in Seq(Char) /\ Spell("CRLF") \in Seq(Char) /\ Escaped(p) \in Seq(Char)
           /\ Width(p) \in 1..28 /\ Len(Spell(p)) = Width(p) /\ Len(Spell("CRLF")) = 2
           /\ Len(Escaped(p)) = Width(p) + 2
           /\ \A i \in 1..Width(p) : Escaped(p)[i] = <<p, i>>
           /\ Escaped(p)[1] = <<p, 1>>
           /\ Escaped(p)[Width(p) + 1] = <<"CRLF", 1>>
           /\ Escaped(p)[Width(p) + 2] = <<"CRLF", 2>>
  <1>0. "CRLF" \in Pieces
    BY DEF Pieces
  <1>1. /\ Spell(p) \in Seq(Char) /\ Len(Spell(p)) = Width(p) /\ Width(p) \in 1..28
        /\ \A i \in 1..Width(p) : Spell(p)[i] = <<p, i>>
    BY Spelled, Zenon
  <1>2. /\ Spell("CRLF") \in Seq(Char) /\ Len(Spell("CRLF")) = 2
        /\ Spell("CRLF")[1] = <<"CRLF", 1>> /\ Spell("CRLF")[2] = <<"CRLF", 2>>
    <2>1. /\ Spell("CRLF") \in Seq(Char) /\ Len(Spell("CRLF")) = Width("CRLF")
          /\ \A i \in 1..Width("CRLF") : Spell("CRLF")[i] = <<"CRLF", i>>
      BY <1>0, Spelled, Zenon
    <2>2. Width("CRLF") = 2
      BY Widths
    <2>3. 1 \in 1..Width("CRLF") /\ 2 \in 1..Width("CRLF")
      BY <2>2
    <2>4. Spell("CRLF")[1] = <<"CRLF", 1>> /\ Spell("CRLF")[2] = <<"CRLF", 2>>
      BY <2>1, <2>3, Zenon
    <2> QED
      BY <2>1, <2>2, <2>4, Zenon
  <1>3. /\ Escaped(p) \in Seq(Char)
        /\ Len(Escaped(p)) = Len(Spell(p)) + Len(Spell("CRLF"))
        /\ \A i \in 1..Len(Spell(p)) : Escaped(p)[i] = Spell(p)[i]
        /\ \A i \in 1..Len(Spell("CRLF")) : Escaped(p)[Len(Spell(p)) + i] = Spell("CRLF")[i]
    BY <1>1, <1>2, Joined, Zenon DEF Escaped
  <1>5. Escaped(p)[Width(p) + 1] = <<"CRLF", 1>> /\ Escaped(p)[Width(p) + 2] = <<"CRLF", 2>>
    BY <1>1, <1>2, <1>3
  <1>6. Escaped(p)[1] = <<p, 1>> /\ Len(Escaped(p)) = Width(p) + 2
    <2>1. 1 \in 1..Width(p)
      <3>1. Width(p) \in 1..28
        BY WidthType
      <3> QED
        BY <3>1
    <2> QED
      BY <1>1, <1>2, <1>3, <2>1, Zenon
  <1> QED
    BY <1>1, <1>2, <1>3, <1>5, <1>6, Zenon

\* A mark that does not occur: nothing changes.
LEMMA RemoveNone ==
    ASSUME NEW p \in Pieces, NEW s \in Seq(Char), Lacks(s, <<p, 1>>)
    PROVE  removeEscapeSequence(s, p) = s
  <1>0. Escaped(p) \in Seq(Char) /\ Len(Escaped(p)) > 0 /\ Escaped(p)[1] = <<p, 1>>
    BY EscapedIs
  <1>1. find(s, Escaped(p)) = npos
    BY <1>0, FindNone
  <1> QED
    BY <1>1 DEF removeEscapeSequence, Escaped

\* A mark that occurs once: its line break goes.
LEMMA RemoveAt ==
    ASSUME NEW p \in Pieces, NEW a \in Seq(Char), NEW b \in Seq(Char), Lacks(a, <<p, 1>>),
           Len(a) # npos
    PROVE  removeEscapeSequence(a \o (Escaped(p) \o b), p) = a \o (Spell(p) \o b)
  <1> DEFINE m == Spell(p)
             c == Spell("CRLF")
             s == a \o (Escaped(p) \o b)
  <1>1. /\ m \in Seq(Char) /\ c \in Seq(Char) /\ Len(m) = Width(p) /\ Width(p) \in Nat
        /\ Len(c) = 2 /\ Escaped(p) \in Seq(Char) /\ Len(Escaped(p)) > 0
        /\ Escaped(p)[1] = <<p, 1>> /\ Len(a) \in Nat /\ Len(b) \in Nat
    BY EscapedIs
  <1>2. find(s, Escaped(p)) = Len(a)
    BY <1>1, FindAt, Zenon
  <1>3. s = (a \o m) \o (c \o b) /\ s = ((a \o m) \o c) \o b
    <2>0. Escaped(p) = m \o c
      BY DEF Escaped
    <2> HIDE DEF m, c
    <2>1. /\ c \o b \in Seq(Char) /\ a \o m \in Seq(Char) /\ m \o c \in Seq(Char)
      <3>3. m \o c \in Seq(Char)
        BY <1>1, Joined, Zenon
      <3> QED
        BY <3>3
    <2>2. m \in Seq(Char) /\ c \in Seq(Char)
      BY <1>1
    <2>3. (m \o c) \o b = m \o (c \o b)
      BY <2>2, Assoc, ZenonT(30)
    <2>4. (a \o m) \o (c \o b) = a \o (m \o (c \o b))
      BY <2>1, <2>2, Assoc, ZenonT(30)
    <2>5. ((a \o m) \o c) \o b = (a \o m) \o (c \o b)
      <3>1. \A x \in Seq(Char) : (x \o c) \o b = x \o (c \o b)
        BY <2>2, Assoc, ZenonT(30)
      <3> QED
        BY <2>1, <3>1, Zenon
    <2> QED
      BY <2>0, <2>3, <2>4, <2>5, Zenon
  <1>4. removeEscapeSequence(s, p) =
          SubSeq(s, 1, Len(a) + Width(p)) \o SubSeq(s, Len(a) + Width(p) + 2 + 1, Len(s))
    BY <1>2, Zenon DEF removeEscapeSequence, erase, Escaped
  <1> HIDE DEF m, c, s
  <1>5. /\ a \o m \in Seq(Char) /\ Len(a \o m) = Len(a) + Len(m)
        /\ (a \o m) \o c \in Seq(Char) /\ Len((a \o m) \o c) = Len(a) + Len(m) + Len(c)
        /\ c \o b \in Seq(Char)
    <2>2. (a \o m) \o c \in Seq(Char) /\ Len((a \o m) \o c) = Len(a \o m) + Len(c)
      BY <1>1, Joined, Zenon
    <2> QED
      BY <2>2
  <1>6. SubSeq(s, 1, Len(a) + Width(p)) = a \o m
    <2>1. SubSeq((a \o m) \o (c \o b), 1, Len(a \o m)) = a \o m
      BY <1>5, Cut, Zenon
    <2> QED
      BY <1>1, <1>3, <1>5, <2>1, Zenon
  <1>7. SubSeq(s, Len((a \o m) \o c) + 1, Len(s)) = b
    BY <1>3
  <1>8. Len((a \o m) \o c) + 1 = Len(a) + Width(p) + 2 + 1
    BY <1>1, <1>5, Zenon
  <1>9. removeEscapeSequence(s, p) = (a \o m) \o b
    BY <1>4, <1>6, <1>7, <1>8, Zenon
  <1>10. (a \o m) \o b = a \o (m \o b)
    BY <1>1, Assoc, Zenon
  <1> QED
    BY <1>9, <1>10, Zenon DEF m, s

\* Ends, read character by character.
LEMMA EndsWith ==
    ASSUME NEW s \in Seq(Char), NEW q \in Seq(Char)
    PROVE  ends_with(s, q) <=>
             Len(q) <= Len(s) /\ \A j \in 1..Len(q) : s[Len(s) - Len(q) + j] = q[j]
  BY DEF ends_with

LEMMA Offset ==
    ASSUME NEW k \in Nat, NEW n \in Nat, NEW i \in Nat, i > k, i <= n - 2
    PROVE  i - k \in 1..n - (k + 2) /\ k + (i - k) = i /\ k + 2 + (i - k) = i + 2
  OBVIOUS

\* A round that finds its mark takes two characters out, after the mark.
LEMMA Removed ==
    ASSUME NEW P \in SUBSET Pieces, NEW s \in Of(P), NEW p \in Pieces,
           NEW at, at = find(s, Escaped(p)), at # npos,
           NEW r, r = removeEscapeSequence(s, p)
    PROVE  /\ at \in Nat /\ Width(p) \in Nat /\ Len(s) \in Nat /\ at + Width(p) + 2 <= Len(s)
           /\ \A i \in 1..Width(p) + 2 : s[at + i] = Escaped(p)[i]
           /\ r \in Of(P) /\ Len(r) = Len(s) - 2
           /\ \A i \in 1..Len(s) - 2 : i > at + Width(p) => r[i] = s[i + 2]
  <1> DEFINE w == Width(p)
  <1>a. s \in Seq(Char)
    BY OfText, Zenon
  <1>b. Escaped(p) \in Seq(Char) /\ Len(Escaped(p)) = w + 2 /\ w \in 1..28
    BY EscapedIs, Zenon
  <1>c. \A n \in 1..28 : n \in Nat
    OBVIOUS
  <1>1. s \in Seq(Char) /\ Escaped(p) \in Seq(Char) /\ Len(Escaped(p)) = w + 2 /\ w \in Nat
    BY <1>a, <1>b, <1>c, Zenon
  <1>2. Len(s) \in Nat
    OBVIOUS
  <1>3. /\ at \in 0..Len(s) - (w + 2)
        /\ \A i \in 1..w + 2 : s[at + i] = Escaped(p)[i]
    BY <1>1, FindMatches
  <1>4. at \in Nat /\ at + w + 2 <= Len(s)
    BY <1>1, <1>2, <1>3
  <1> DEFINE a == SubSeq(s, 1, at + w)
             b == SubSeq(s, at + w + 2 + 1, Len(s))
  <1>5. r = a \o b
    BY Zenon DEF removeEscapeSequence, erase
  <1> HIDE DEF w
  <1>6. a \in Of(P) /\ b \in Of(P)
    <2>1. 1 \in Nat \ {0} /\ at + w \in 0..Len(s) /\ at + w + 2 + 1 \in Nat \ {0}
          /\ Len(s) \in 0..Len(s)
      BY <1>1, <1>2, <1>4
    <2> HIDE DEF a, b
    <2> QED
      BY <2>1, OfCut, Zenon DEF a, b
  <1>7. r \in Of(P)
    BY <1>5, <1>6, OfJoin, Zenon
  <1>8. Len(a) = at + w /\ Len(b) = Len(s) - (at + w + 2)
        /\ \A i \in 1..Len(b) : b[i] = s[at + w + 2 + i]
    <2>1. 0 \in Nat /\ at + w \in Nat /\ 0 <= at + w /\ at + w <= Len(s) /\ at + w - 0 = at + w
      BY <1>1, <1>2, <1>4
    <2>2. Len(SubSeq(s, 0 + 1, at + w)) = at + w
      BY <2>1
    <2>3. at + w + 2 \in Nat /\ at + w + 2 <= Len(s)
      BY <1>1, <1>2, <1>4
    <2>4. /\ Len(b) = Len(s) - (at + w + 2)
          /\ \A i \in 1..Len(s) - (at + w + 2) : b[i] = s[at + w + 2 + i]
      BY <1>1, <1>2, <2>3, Part
    <2>5. 0 + 1 = 1
      OBVIOUS
    <2>6. Len(a) = at + w
      BY <2>2, <2>5, Zenon
    <2> HIDE DEF a, b
    <2> QED
      BY <2>4, <2>6, Zenon
  <1> HIDE DEF a, b
  <1>10. Len(r) = Len(a) + Len(b) /\ \A i \in 1..Len(b) : r[Len(a) + i] = b[i]
    BY <1>5
  <1>11. Len(r) = Len(s) - 2
    BY <1>1, <1>2, <1>4, <1>8, <1>10, SMTT(30)
  <1>12. ASSUME NEW i \in 1..Len(s) - 2, i > at + w PROVE r[i] = s[i + 2]
    <2> DEFINE j == i - (at + w)
    <2>1. j \in 1..Len(b) /\ Len(a) + j = i /\ at + w + 2 + j = i + 2
      <3>1. at \in Nat /\ w \in Nat /\ Len(s) \in Nat /\ i \in Nat /\ i > at + w /\ i <= Len(s) - 2
        BY <1>1, <1>4, <1>12
      <3>2. Len(a) = at + w /\ Len(b) = Len(s) - (at + w + 2)
        BY <1>8, Zenon
      <3>3. at + w \in Nat
        BY <3>1
      <3>4. j \in 1..Len(s) - (at + w + 2) /\ at + w + j = i /\ at + w + 2 + j = i + 2
        BY <3>1, <3>3, Offset, ZenonT(30)
      <3> HIDE DEF j
      <3> QED
        BY <3>2, <3>4, Zenon
    <2> HIDE DEF j
    <2>2. r[Len(a) + j] = b[j] /\ b[j] = s[at + w + 2 + j]
      BY <1>8, <1>10, <2>1, Zenon
    <2> QED
      BY <2>1, <2>2, Zenon
  <1> QED
    BY <1>1, <1>2, <1>3, <1>4, <1>7, <1>11, <1>12, Zenon DEF w

\* The marks that a line break may follow.
Escapes == {"user_code_ok", "user_solution_ok", "tests_cases_error", "user_solution_error"}

LEMMA EscapesAre ==
    /\ kEscapePatterns[1] = "user_code_ok" /\ kEscapePatterns[2] = "user_solution_ok"
    /\ kEscapePatterns[3] = "tests_cases_error" /\ kEscapePatterns[4] = "user_solution_error"
    /\ Escapes \subseteq Pieces /\ UtilCodes \subseteq Pieces /\ "CRLF" \in Pieces
    /\ \A p \in Escapes : Width(p) \in 21..28 /\ p \notin UtilCodes /\ p # "CRLF"
    /\ \A c \in UtilCodes : Width(c) = 3 /\ c # "CRLF"
  <1>1. /\ kEscapePatterns[1] = "user_code_ok" /\ kEscapePatterns[2] = "user_solution_ok"
        /\ kEscapePatterns[3] = "tests_cases_error" /\ kEscapePatterns[4] = "user_solution_error"
    BY DEF kEscapePatterns
  <1>2. Escapes \subseteq Pieces /\ UtilCodes \subseteq Pieces /\ "CRLF" \in Pieces
    BY DEF Escapes, UtilCodes, Pieces
  <1>3. \A p \in Escapes : Width(p) \in 21..28 /\ p \notin UtilCodes /\ p # "CRLF"
    <2> SUFFICES ASSUME NEW p \in Escapes
                 PROVE  Width(p) \in 21..28 /\ p \notin UtilCodes /\ p # "CRLF"
      OBVIOUS
    <2>1. \/ p = "user_code_ok" \/ p = "user_solution_ok" \/ p = "tests_cases_error"
          \/ p = "user_solution_error"
      BY DEF Escapes
    <2>2. Width(p) = 21 \/ Width(p) = 25 \/ Width(p) = 26 \/ Width(p) = 28
      BY <2>1, Widths
    <2>3. Width(p) \in 21..28
      BY <2>2
    <2>4. p \notin UtilCodes /\ p # "CRLF"
      BY <2>1 DEF UtilCodes
    <2> QED
      BY <2>3, <2>4
  <1>4. \A c \in UtilCodes : Width(c) = 3 /\ c # "CRLF"
    BY Widths DEF UtilCodes
  <1> QED
    BY <1>1, <1>2, <1>3, <1>4, Zenon

\* A round adds nothing.
LEMMA RemoveType ==
    ASSUME NEW P \in SUBSET Pieces, NEW s \in Of(P), NEW p \in Pieces
    PROVE  removeEscapeSequence(s, p) \in Of(P) /\ Len(removeEscapeSequence(s, p)) <= Len(s)
  <1>2. CASE find(s, Escaped(p)) = npos
    BY <1>2 DEF removeEscapeSequence
  <1>3. CASE find(s, Escaped(p)) # npos
    <2>1. /\ removeEscapeSequence(s, p) \in Of(P)
          /\ Len(removeEscapeSequence(s, p)) = Len(s) - 2
      BY <1>3, Removed
    <2> QED
      BY <2>1
  <1> QED
    BY <1>2, <1>3

LEMMA UnescapedType ==
    ASSUME NEW P \in SUBSET Pieces, NEW s \in Of(P)
    PROVE  Unescaped(s) \in Of(P) /\ Len(Unescaped(s)) <= Len(s)
  <1>1. PICK s1 : s1 = removeEscapeSequence(s, "user_code_ok")
    OBVIOUS
  <1>2. PICK s2 : s2 = removeEscapeSequence(s1, "user_solution_ok")
    OBVIOUS
  <1>3. PICK s3 : s3 = removeEscapeSequence(s2, "tests_cases_error")
    OBVIOUS
  <1>4. PICK s4 : s4 = removeEscapeSequence(s3, "user_solution_error")
    OBVIOUS
  <1>5. removeEscapeSequencesTender(s) = s4
    BY <1>1, <1>2, <1>3, <1>4, EscapesAre, Zenon DEF removeEscapeSequencesTender
  <1>6. /\ "user_code_ok" \in Pieces /\ "user_solution_ok" \in Pieces
        /\ "tests_cases_error" \in Pieces /\ "user_solution_error" \in Pieces
    BY DEF Pieces
  <1>7. s1 \in Of(P) /\ Len(s1) <= Len(s)
    BY <1>1, <1>6, RemoveType
  <1>8. s2 \in Of(P) /\ Len(s2) <= Len(s1)
    BY <1>2, <1>6, <1>7, RemoveType
  <1>9. s3 \in Of(P) /\ Len(s3) <= Len(s2)
    BY <1>3, <1>6, <1>8, RemoveType
  <1>10. s4 \in Of(P) /\ Len(s4) <= Len(s3)
    BY <1>4, <1>6, <1>9, RemoveType
  <1>12. Len(s4) <= Len(s) /\ Len(s) <= Len(s)
    BY <1>7, <1>8, <1>9, <1>10
  <1> QED
    BY <1>5, <1>10, <1>12 DEF Unescaped

\* A text that ends with a code of the timeout utility, character by character.
LEMMA EndsInCode ==
    ASSUME NEW s \in Seq(Char), NEW c \in UtilCodes
    PROVE  ends_with(s, Escaped(c)) <=>
             /\ Len(s) >= 5
             /\ s[Len(s) - 4] = <<c, 1>> /\ s[Len(s) - 3] = <<c, 2>> /\ s[Len(s) - 2] = <<c, 3>>
             /\ s[Len(s) - 1] = <<"CRLF", 1>> /\ s[Len(s)] = <<"CRLF", 2>>
  <1> DEFINE q == Escaped(c)
  <1>1. c \in Pieces /\ Width(c) = 3
    BY EscapesAre
  <1>2. q \in Seq(Char) /\ Len(q) = 5
    <2>1. q \in Seq(Char) /\ Len(q) = Width(c) + 2
      BY <1>1, EscapedIs, Zenon
    <2> HIDE DEF q
    <2> QED
      BY <1>1, <2>1
  <1>3. /\ q[1] = <<c, 1>> /\ q[2] = <<c, 2>> /\ q[3] = <<c, 3>>
        /\ q[4] = <<"CRLF", 1>> /\ q[5] = <<"CRLF", 2>>
    <2>1. /\ \A i \in 1..Width(c) : q[i] = <<c, i>>
          /\ q[Width(c) + 1] = <<"CRLF", 1>> /\ q[Width(c) + 2] = <<"CRLF", 2>>
      BY <1>1, EscapedIs, Zenon
    <2>2. /\ 1 \in 1..Width(c) /\ 2 \in 1..Width(c) /\ 3 \in 1..Width(c)
          /\ Width(c) + 1 = 4 /\ Width(c) + 2 = 5
      BY <1>1
    <2> HIDE DEF q
    <2> QED
      BY <2>1, <2>2, Zenon
  <1> HIDE DEF q
  <1>5. ends_with(s, q) <=> 5 <= Len(s) /\ \A j \in 1..5 : s[Len(s) - 5 + j] = q[j]
    <2>1. ends_with(s, q) <=>
            Len(q) <= Len(s) /\ \A j \in 1..Len(q) : s[Len(s) - Len(q) + j] = q[j]
      BY <1>2, EndsWith, Zenon
    <2> QED
      BY <1>2, <2>1, Zenon
  <1>6. /\ Len(s) - 5 + 1 = Len(s) - 4 /\ Len(s) - 5 + 2 = Len(s) - 3
        /\ Len(s) - 5 + 3 = Len(s) - 2 /\ Len(s) - 5 + 4 = Len(s) - 1 /\ Len(s) - 5 + 5 = Len(s)
        /\ (5 <= Len(s) <=> Len(s) >= 5)
    OBVIOUS
  <1>7. (\A j \in 1..5 : s[Len(s) - 5 + j] = q[j]) <=>
          /\ s[Len(s) - 5 + 1] = q[1] /\ s[Len(s) - 5 + 2] = q[2] /\ s[Len(s) - 5 + 3] = q[3]
          /\ s[Len(s) - 5 + 4] = q[4] /\ s[Len(s) - 5 + 5] = q[5]
    <2>1. \A j \in 1..5 : j = 1 \/ j = 2 \/ j = 3 \/ j = 4 \/ j = 5
      OBVIOUS
    <2>2. 1 \in 1..5 /\ 2 \in 1..5 /\ 3 \in 1..5 /\ 4 \in 1..5 /\ 5 \in 1..5
      OBVIOUS
    <2> QED
      BY <2>1, <2>2, Zenon
  <1> QED
    BY <1>3, <1>5, <1>6, <1>7, Zenon DEF q

\* A round keeps the code that ends a text.
LEMMA RemoveKeeps ==
    ASSUME NEW s \in Seq(Char), NEW c \in UtilCodes, NEW p \in Escapes, ends_with(s, Escaped(c)),
           NEW r, r = removeEscapeSequence(s, p)
    PROVE  r \in Seq(Char) /\ ends_with(r, Escaped(c))
  <1> DEFINE w == Width(p)
  <1>1. /\ p \in Pieces /\ c \in Pieces /\ w \in 21..28 /\ p # c /\ p # "CRLF"
        /\ c # "CRLF"
    BY EscapesAre, Zenon
  <1>2. Pieces \in SUBSET Pieces /\ Of(Pieces) = Seq(Char)
    BY DEF Of, Char
  <1>3. CASE find(s, Escaped(p)) = npos
    BY <1>3 DEF removeEscapeSequence
  <1>4. ASSUME NEW at, at = find(s, Escaped(p)), at # npos
        PROVE  r \in Seq(Char) /\ ends_with(r, Escaped(c))
    <2>1. /\ at \in Nat /\ w \in Nat /\ Len(s) \in Nat /\ at + w + 2 <= Len(s)
          /\ \A i \in 1..w + 2 : s[at + i] = Escaped(p)[i]
          /\ r \in Of(Pieces) /\ Len(r) = Len(s) - 2
          /\ \A i \in 1..Len(s) - 2 : i > at + w => r[i] = s[i + 2]
      BY <1>1, <1>2, <1>4, Removed, SMTT(20)
    <2>2. /\ Len(s) >= 5
          /\ s[Len(s) - 4] = <<c, 1>> /\ s[Len(s) - 3] = <<c, 2>> /\ s[Len(s) - 2] = <<c, 3>>
          /\ s[Len(s) - 1] = <<"CRLF", 1>> /\ s[Len(s)] = <<"CRLF", 2>>
      BY EndsInCode, Zenon
    <2>3. \A i \in 1..w + 2 : Escaped(p)[i] # <<c, 1>>
      <3>1. /\ \A i \in 1..w : Escaped(p)[i] = <<p, i>>
            /\ Escaped(p)[w + 1] = <<"CRLF", 1>> /\ Escaped(p)[w + 2] = <<"CRLF", 2>>
        BY <1>1, EscapedIs, Zenon
      <3> HIDE DEF w
      <3> QED
        BY <1>1, <3>1
    <2> HIDE DEF w
    <2>4. at + w + 2 <= Len(s) - 5
      <3>1. SUFFICES ASSUME at + w + 2 > Len(s) - 5 PROVE FALSE
        BY <2>1
      <3> DEFINE i == Len(s) - 4 - at
      <3>2. i \in 1..w + 2 /\ at + i = Len(s) - 4
        BY <1>1, <2>1, <3>1
      <3> HIDE DEF i
      <3> QED
        BY <2>1, <2>2, <2>3, <3>2, ZenonT(30)
    <2>5. \A k \in 0..4 : r[Len(r) - k] = s[Len(s) - k]
      <3> SUFFICES ASSUME NEW k \in 0..4 PROVE r[Len(r) - k] = s[Len(s) - k]
        BY Zenon
      <3> DEFINE i == Len(s) - 2 - k
      <3>1. i \in 1..Len(s) - 2 /\ i > at + w /\ i + 2 = Len(s) - k /\ i = Len(r) - k
        BY <2>1, <2>4
      <3> HIDE DEF i
      <3> QED
        BY <2>1, <3>1, Zenon
    <2>6. /\ r[Len(r) - 4] = <<c, 1>> /\ r[Len(r) - 3] = <<c, 2>> /\ r[Len(r) - 2] = <<c, 3>>
          /\ r[Len(r) - 1] = <<"CRLF", 1>>
      <3>1. 1 \in 0..4 /\ 2 \in 0..4 /\ 3 \in 0..4 /\ 4 \in 0..4
        OBVIOUS
      <3>2. /\ r[Len(r) - 4] = s[Len(s) - 4] /\ r[Len(r) - 3] = s[Len(s) - 3]
            /\ r[Len(r) - 2] = s[Len(s) - 2] /\ r[Len(r) - 1] = s[Len(s) - 1]
        BY <2>5, <3>1, Zenon
      <3> QED
        BY <2>2, <3>2, Zenon
    <2>7. r[Len(r)] = <<"CRLF", 2>> /\ Len(r) >= 5
      <3>1. Len(s) - 0 = Len(s) /\ Len(r) - 0 = Len(r) /\ Len(r) >= 5
        BY <2>1, <2>4
      <3>2. 0 \in 0..4
        OBVIOUS
      <3>3. r[Len(r) - 0] = s[Len(s) - 0]
        BY <2>5, <3>2, Zenon
      <3> QED
        BY <2>2, <3>1, <3>3, Zenon
    <2> QED
      BY <1>2, <2>1, <2>6, <2>7, EndsInCode, Zenon
  <1> QED
    BY <1>3, <1>4

LEMMA UnescapedKeeps ==
    ASSUME NEW s \in Seq(Char), NEW c \in UtilCodes, ends_with(s, Escaped(c))
    PROVE  Unescaped(s) \in Seq(Char) /\ ends_with(Unescaped(s), Escaped(c))
  <1>1. PICK s1 : s1 = removeEscapeSequence(s, "user_code_ok")
    OBVIOUS
  <1>2. PICK s2 : s2 = removeEscapeSequence(s1, "user_solution_ok")
    OBVIOUS
  <1>3. PICK s3 : s3 = removeEscapeSequence(s2, "tests_cases_error")
    OBVIOUS
  <1>4. PICK s4 : s4 = removeEscapeSequence(s3, "user_solution_error")
    OBVIOUS
  <1>5. removeEscapeSequencesTender(s) = s4
    BY <1>1, <1>2, <1>3, <1>4, EscapesAre, Zenon DEF removeEscapeSequencesTender
  <1>6. /\ "user_code_ok" \in Escapes /\ "user_solution_ok" \in Escapes
        /\ "tests_cases_error" \in Escapes /\ "user_solution_error" \in Escapes
    BY DEF Escapes
  <1>7. s1 \in Seq(Char) /\ ends_with(s1, Escaped(c))
    BY <1>1, <1>6, RemoveKeeps
  <1>8. s2 \in Seq(Char) /\ ends_with(s2, Escaped(c))
    BY <1>2, <1>6, <1>7, RemoveKeeps, Zenon
  <1>9. s3 \in Seq(Char) /\ ends_with(s3, Escaped(c))
    BY <1>3, <1>6, <1>8, RemoveKeeps, Zenon
  <1>10. s4 \in Seq(Char) /\ ends_with(s4, Escaped(c))
    BY <1>4, <1>6, <1>9, RemoveKeeps
  <1> QED
    BY <1>5, <1>10 DEF Unescaped

-----------------------------------------------------------------------------
(* getExitCode.                                                            *)

LEMMA Tables ==
    /\ kCorrelations[1][1] = "user_solution_ok" /\ kCorrelations[1][2] = 0
    /\ kCorrelations[2][1] = "user_solution_error" /\ kCorrelations[2][2] = 1
    /\ kCorrelations[3][1] = "tests_cases_error" /\ kCorrelations[3][2] = 2
    /\ kTimeoutUtilCodes[1][1] = "124" /\ kTimeoutUtilCodes[1][2] = 124
    /\ kTimeoutUtilCodes[2][1] = "125" /\ kTimeoutUtilCodes[2][2] = 125
    /\ kTimeoutUtilCodes[3][1] = "137" /\ kTimeoutUtilCodes[3][2] = 137
    /\ \A i \in 1..3 : kCorrelations[i][1] \in Escapes /\ kTimeoutUtilCodes[i][1] \in UtilCodes
  <1>1. /\ kCorrelations[1][1] = "user_solution_ok" /\ kCorrelations[1][2] = 0
        /\ kCorrelations[2][1] = "user_solution_error" /\ kCorrelations[2][2] = 1
        /\ kCorrelations[3][1] = "tests_cases_error" /\ kCorrelations[3][2] = 2
    BY DEF kCorrelations
  <1>2. /\ kTimeoutUtilCodes[1][1] = "124" /\ kTimeoutUtilCodes[1][2] = 124
        /\ kTimeoutUtilCodes[2][1] = "125" /\ kTimeoutUtilCodes[2][2] = 125
        /\ kTimeoutUtilCodes[3][1] = "137" /\ kTimeoutUtilCodes[3][2] = 137
    BY DEF kTimeoutUtilCodes
  <1>3. \A i \in 1..3 : i = 1 \/ i = 2 \/ i = 3
    OBVIOUS
  <1>4. /\ kCorrelations[1][1] \in Escapes /\ kCorrelations[2][1] \in Escapes
        /\ kCorrelations[3][1] \in Escapes
    BY <1>1 DEF Escapes
  <1>5. /\ kTimeoutUtilCodes[1][1] \in UtilCodes /\ kTimeoutUtilCodes[2][1] \in UtilCodes
        /\ kTimeoutUtilCodes[3][1] \in UtilCodes
    BY <1>2 DEF UtilCodes
  <1>6. \A i \in 1..3 : kCorrelations[i][1] \in Escapes /\ kTimeoutUtilCodes[i][1] \in UtilCodes
    BY <1>3, <1>4, <1>5, Zenon
  <1> QED
    BY <1>1, <1>2, <1>6, Zenon

\* A set of positions with one element.
LEMMA OnlyOne == ASSUME NEW S \in SUBSET (1..3), NEW i \in 1..3, \A j \in 1..3 : j \in S <=> j = i
                 PROVE  S # {} /\ Min(S) = i
  BY MinIs

\* The code of the timeout utility at the end of a text decides.
LEMMA StoppedCode ==
    ASSUME NEW s \in Seq(Char), NEW c \in UtilCodes, ends_with(s, Escaped(c))
    PROVE  getExitCode(s) = CodeOf(c)
  <1>1. s[Len(s) - 4] = <<c, 1>>
    BY EndsInCode, Zenon
  <1>2. ASSUME NEW i \in 1..3 PROVE i \in TimedOut(s) <=> kTimeoutUtilCodes[i][1] = c
    <2>1. kTimeoutUtilCodes[i][1] \in UtilCodes
      BY Tables, Zenon
    <2>2. ends_with(s, Escaped(kTimeoutUtilCodes[i][1])) =>
            s[Len(s) - 4] = <<kTimeoutUtilCodes[i][1], 1>>
      BY <2>1, EndsInCode, Zenon
    <2>3. i \in TimedOut(s) <=> ends_with(s, Escaped(kTimeoutUtilCodes[i][1]))
      BY DEF TimedOut
    <2> QED
      BY <1>1, <2>2, <2>3
  <1>3. PICK n \in 1..3 : /\ kTimeoutUtilCodes[n][1] = c /\ kTimeoutUtilCodes[n][2] = CodeOf(c)
                          /\ \A j \in 1..3 : kTimeoutUtilCodes[j][1] = c <=> j = n
    <2>3. CodeOf("124") = 124 /\ CodeOf("125") = 125 /\ CodeOf("137") = 137
      BY DEF CodeOf
    <2>4. c = "124" \/ c = "125" \/ c = "137"
      BY DEF UtilCodes
    <2>5. CASE c = "124"
      BY <2>3, <2>5, Tables
    <2>6. CASE c = "125"
      BY <2>3, <2>6, Tables
    <2>7. CASE c = "137"
      BY <2>3, <2>7, Tables
    <2> QED
      BY <2>4, <2>5, <2>6, <2>7, Zenon
  <1>4. TimedOut(s) \in SUBSET (1..3)
    BY DEF TimedOut
  <1>5. TimedOut(s) # {} /\ Min(TimedOut(s)) = n
    BY <1>2, <1>3, <1>4, OnlyOne
  <1> QED
    BY <1>3, <1>5, Zenon DEF getExitCode

LEMMA Starts ==
    ASSUME NEW p \in Pieces
    PROVE  Spell(p) \in Seq(Char) /\ Len(Spell(p)) > 0 /\ Spell(p)[1] = <<p, 1>>
  <1>1. /\ Spell(p) \in Seq(Char) /\ Len(Spell(p)) = Width(p) /\ Width(p) \in 1..28
        /\ \A j \in 1..Width(p) : Spell(p)[j] = <<p, j>>
    BY Spelled, Zenon
  <1>2. PICK w \in 1..28 : w = Width(p)
    BY <1>1
  <1>3. w > 0 /\ 1 \in 1..w
    OBVIOUS
  <1> QED
    BY <1>1, <1>2, <1>3, Zenon

\* A text without a code of the timeout utility was not stopped.
LEMMA NotTimedOut ==
    ASSUME NEW P \in SUBSET Pieces, P \cap UtilCodes = {}, NEW s \in Of(P)
    PROVE  TimedOut(s) = {}
  <1>1. s \in Seq(Char) /\ Len(s) \in Nat
    BY OfText
  <1> SUFFICES ASSUME NEW i \in 1..3, ends_with(s, Escaped(kTimeoutUtilCodes[i][1])) PROVE FALSE
    BY DEF TimedOut
  <1>2. kTimeoutUtilCodes[i][1] \in UtilCodes
    BY Tables, Zenon
  <1>3. PICK c \in UtilCodes : c = kTimeoutUtilCodes[i][1]
    BY <1>2
  <1>4. Len(s) >= 5 /\ s[Len(s) - 4] = <<c, 1>>
    BY <1>1, <1>3, EndsInCode, Zenon
  <1>5. Lacks(s, <<c, 1>>)
    BY OfLacks
  <1> QED
    BY <1>4, <1>5 DEF Lacks

\* Marks that are not among the pieces of a text are not found.
LEMMA NotFound ==
    ASSUME NEW P \in SUBSET Pieces, NEW s \in Of(P), NEW i \in 1..3, kCorrelations[i][1] \notin P
    PROVE  i \notin Found(s)
  <1>1. PICK p \in Escapes : p = kCorrelations[i][1]
    BY Tables, Zenon
  <1>2. p \in Pieces
    BY EscapesAre
  <1>3. Spell(p) \in Seq(Char) /\ Len(Spell(p)) > 0 /\ Spell(p)[1] = <<p, 1>>
    BY <1>2, Starts
  <1>4. s \in Seq(Char) /\ Lacks(s, <<p, 1>>)
    BY <1>1, OfText, OfLacks, Zenon
  <1>5. find(s, Spell(p)) = npos
    BY <1>3, <1>4, FindNone, Zenon
  <1> QED
    BY <1>1, <1>5 DEF Found

\* A text of which no mark is a piece has no verdict.
LEMMA NoVerdict ==
    ASSUME NEW P \in SUBSET Pieces, P \cap UtilCodes = {}, NEW s \in Of(P),
           \A i \in 1..3 : kCorrelations[i][1] \notin P
    PROVE  getExitCode(s) = 3
  <1>1. Found(s) = {}
    BY NotFound, Zenon DEF Found
  <1> QED
    BY <1>1, NotTimedOut, Zenon DEF getExitCode, Unknown

\* The one mark that a text ends with tells the verdict.
LEMMA MarkCode ==
    ASSUME NEW P \in SUBSET Pieces, P \cap UtilCodes = {}, NEW n \in 1..3,
           NEW a \in Of(P), \A i \in 1..3 : kCorrelations[i][1] \notin P,
           Len(a) + 1 < Sizes
    PROVE  getExitCode(a \o Spell(kCorrelations[n][1])) = kCorrelations[n][2]
  <1>1. PICK p \in Escapes : p = kCorrelations[n][1]
    BY Tables, Zenon
  <1>2. p \in Pieces /\ p \notin UtilCodes
    BY EscapesAre, Zenon
  <1> DEFINE Q == P \cup {p}
             s == a \o Spell(p)
  <1>3. Q \in SUBSET Pieces /\ Q \cap UtilCodes = {} /\ P \in SUBSET Q
    BY <1>2
  <1>4. a \in Of(Q) /\ Spell(p) \in Of(Q)
    <2>1. p \in Q
      OBVIOUS
    <2> HIDE DEF Q
    <2>2. a \in Of(Q)
      BY <1>3, OfMore
    <2> QED
      BY <1>3, <2>1, <2>2, OfSpell, Zenon
  <1>5. s \in Of(Q)
    BY <1>4, OfJoin
  <1>6. TimedOut(s) = {}
    BY <1>3, <1>5, NotTimedOut, Zenon
  <1>7. ASSUME NEW i \in 1..3 PROVE i \in Found(s) <=> i = n
    <2>1. CASE i # n
      <3>1. kCorrelations[i][1] # p
        BY <1>1, <2>1, Tables
      <3>2. kCorrelations[i][1] \notin Q
        BY <3>1
      <3> QED
        BY <1>3, <1>5, <2>1, <3>2, NotFound, Zenon
    <2>2. CASE i = n
      <3>1. Spell(p) \in Seq(Char)
        BY <1>2, Starts
      <3>2. Len(Spell(p)) > 0 /\ Spell(p)[1] = <<p, 1>>
        BY <1>2, Starts, Zenon
      <3>3. a \in Seq(Char) /\ << >> \in Seq(Char) /\ Lacks(a, <<p, 1>>)
        BY <1>1, OfText, OfLacks
      <3>4. find(a \o (Spell(p) \o << >>), Spell(p)) = Len(a)
        BY <3>1, <3>2, <3>3, FindAt, Zenon
      <3>6. Len(a) # npos
        <4>2. npos = Sizes - 1 /\ Sizes \in Nat
          BY Wraps
        <4> QED
          BY <4>2
      <3>7. find(s, Spell(p)) # npos
        BY <3>4, <3>6
      <3> QED
        BY <1>1, <2>2, <3>7, Zenon DEF Found
    <2> QED
      BY <2>1, <2>2
  <1> HIDE DEF s
  <1>8. Found(s) \in SUBSET (1..3)
    BY DEF Found
  <1>9. Found(s) # {} /\ Min(Found(s)) = n
    BY <1>7, <1>8, OnlyOne, Zenon
  <1>10. getExitCode(s) = kCorrelations[n][2]
    BY <1>6, <1>9, Zenon DEF getExitCode
  <1> QED
    BY <1>1, <1>10, Zenon DEF s

-----------------------------------------------------------------------------
(* What the launcher reads once the line breaks of the marks are gone.     *)

\* A mark as a script prints it: Line for either kind of script.
Marked(nl, p) == IF nl THEN Escaped(p) ELSE Spell(p)

\* Pieces of the text of programs and tests; marks that end a script.
Outputs   == {"out", "CRLF"}
EndMarks  == {"user_solution_ok", "tests_cases_error", "user_solution_error"}

LEMMA EndMarksAre ==
    /\ EndMarks \subseteq Escapes /\ Escapes \subseteq Pieces /\ Outputs \subseteq Pieces
    /\ Outputs \cap Escapes = {} /\ "user_code_ok" \in Pieces /\ "user_code_ok" \notin EndMarks
    /\ "user_code_ok" \in Escapes /\ "CRLF" \in Pieces /\ "CRLF" \notin EndMarks
    /\ "CRLF" \in Outputs /\ EndMarks \cap Outputs = {} /\ "user_code_ok" \notin Outputs
    /\ EndMarks \cap UtilCodes = {} /\ Outputs \cap UtilCodes = {} /\ "user_code_ok" \notin UtilCodes
  BY DEF EndMarks, Escapes, Outputs, Pieces, UtilCodes

\* A text joined of two ends with the second.
LEMMA JoinEnds ==
    ASSUME NEW a \in Seq(Char), NEW b \in Seq(Char) PROVE ends_with(a \o b, b)
  <1> DEFINE s == a \o b
  <1>1. /\ s \in Seq(Char) /\ Len(a) \in Nat /\ Len(b) \in Nat /\ Len(s) = Len(a) + Len(b)
        /\ \A i \in 1..Len(b) : s[Len(a) + i] = b[i]
    OBVIOUS
  <1> HIDE DEF s
  <1>2. Len(b) <= Len(s) /\ Len(s) - Len(b) = Len(a)
    BY <1>1
  <1> QED
    BY <1>1, <1>2, EndsWith, Zenon DEF s

\* Only a mark with its line break ends a text with a line break.
LEMMA LineBreaks ==
    ASSUME NEW a \in Seq(Char), NEW m \in EndMarks
    PROVE  hasEscapeSequence(a \o Escaped(m)) /\ ~hasEscapeSequence(a \o Spell(m))
  <1>1. m \in Pieces /\ m # "CRLF"
    BY EndMarksAre
  <1> DEFINE q == Spell(m)
             c == Spell("CRLF")
  <1>2. /\ q \in Seq(Char) /\ c \in Seq(Char) /\ Len(q) = Width(m) /\ Width(m) \in 1..28
        /\ Len(c) = 2
    BY <1>1, EscapedIs, Zenon
  <1>3. \A i \in 1..Width(m) : q[i] = <<m, i>>
    BY <1>1, Spelled
  <1>4. c[2] = <<"CRLF", 2>>
    <2>1. "CRLF" \in Pieces /\ Width("CRLF") = 2
      BY EndMarksAre, Widths, Zenon
    <2>2. \A i \in 1..Width("CRLF") : c[i] = <<"CRLF", i>>
      BY <2>1, Spelled
    <2> HIDE DEF c
    <2> QED
      BY <2>1, <2>2
  <1>5. hasEscapeSequence(a \o Escaped(m))
    <2>1. Escaped(m) = q \o c
      BY DEF Escaped
    <2> HIDE DEF q, c
    <2>2. a \o q \in Seq(Char)
      BY <1>2
    <2>3. (a \o q) \o c = a \o (q \o c)
      BY <1>2, Assoc, Zenon
    <2>4. ends_with((a \o q) \o c, c)
      BY <1>2, <2>2, JoinEnds, Zenon
    <2> QED
      BY <2>1, <2>3, <2>4, Zenon DEF hasEscapeSequence, c
  <1> HIDE DEF q
  <1>6. PICK w \in 1..28 : w = Width(m)
    BY <1>2
  <1> DEFINE s == a \o q
  <1>7. /\ s \in Seq(Char) /\ Len(a) \in Nat /\ Len(s) = Len(a) + w
        /\ \A i \in 1..w : s[Len(a) + i] = q[i]
    <2>1. /\ s \in Seq(Char) /\ Len(a) \in Nat /\ Len(s) = Len(a) + Len(q)
          /\ \A i \in 1..Len(q) : s[Len(a) + i] = q[i]
      BY <1>2, Joined, Zenon
    <2> HIDE DEF s
    <2>2. Len(q) = w
      BY <1>2, <1>6
    <2> QED
      BY <2>1, <2>2, Zenon
  <1>8. s[Len(s)] = <<m, w>>
    <2>1. w \in 1..w
      OBVIOUS
    <2> HIDE DEF s
    <2> QED
      BY <1>3, <1>6, <1>7, <2>1, Zenon
  <1> HIDE DEF s
  <1>9. ~ends_with(s, c)
    <2>1. SUFFICES ASSUME ends_with(s, c) PROVE FALSE
      OBVIOUS
    <2> HIDE DEF c
    <2>2. \A j \in 1..Len(c) : s[Len(s) - Len(c) + j] = c[j]
      BY <1>2, <1>7, <2>1, EndsWith, Zenon
    <2>3. 2 \in 1..Len(c) /\ Len(s) - Len(c) + 2 = Len(s)
      BY <1>2
    <2>4. s[Len(s)] = c[2]
      BY <2>2, <2>3
    <2> QED
      BY <1>1, <1>4, <1>8, <2>4
  <1> QED
    BY <1>5, <1>9 DEF hasEscapeSequence, s, q

\* The rounds for the marks that end a script.
LEMMA EndRounds ==
    ASSUME NEW P \in SUBSET Pieces, P \cap EndMarks = {}, NEW a \in Of(P), NEW m \in EndMarks,
           Len(a) + 1 < Sizes
    PROVE  removeEscapeSequence(removeEscapeSequence(removeEscapeSequence(
             a \o Escaped(m), "user_solution_ok"), "tests_cases_error"), "user_solution_error")
               = a \o Spell(m)
  <1> DEFINE Q  == P \cup {m, "CRLF"}
             s1 == a \o Escaped(m)
             s2 == a \o Spell(m)
  <1>1. /\ Q \in SUBSET Pieces /\ P \in SUBSET Q /\ m \in Q /\ "CRLF" \in Q /\ m \in Pieces
        /\ \A p \in EndMarks : p # m => p \notin Q
        /\ \A p \in EndMarks : p \in Pieces
    BY EndMarksAre, Zenon
  <1> HIDE DEF Q
  <1>2. a \in Of(Q) /\ Spell(m) \in Of(Q) /\ Spell("CRLF") \in Of(Q)
    BY <1>1, OfMore, OfSpell
  <1>3. Escaped(m) \in Of(Q)
    BY <1>2, OfJoin DEF Escaped
  <1>4. s1 \in Of(Q) /\ s2 \in Of(Q)
    BY <1>2, <1>3, OfJoin
  <1>5. ASSUME NEW p \in EndMarks, p # m
        PROVE  removeEscapeSequence(s1, p) = s1 /\ removeEscapeSequence(s2, p) = s2
    <2>1. p \in Pieces /\ p \notin Q
      BY <1>1, <1>5
    <2>2. s1 \in Seq(Char) /\ s2 \in Seq(Char)
      BY <1>1, <1>4, OfText, Zenon
    <2>3. Lacks(s1, <<p, 1>>) /\ Lacks(s2, <<p, 1>>)
      BY <1>4, <2>1, OfLacks
    <2> QED
      BY <2>1, <2>2, <2>3, RemoveNone, Zenon
  <1>6. removeEscapeSequence(s1, m) = s2
    <2>1. a \in Seq(Char) /\ << >> \in Seq(Char) /\ Lacks(a, <<m, 1>>) /\ m \in Pieces
      BY <1>1, OfText, OfLacks
    <2>2. Len(a) # npos
      <3>2. npos = Sizes - 1 /\ Sizes \in Nat
        BY Wraps
      <3> QED
        BY <3>2
    <2>3. removeEscapeSequence(a \o (Escaped(m) \o << >>), m) = a \o (Spell(m) \o << >>)
      BY <2>1, <2>2, RemoveAt, Zenon
    <2>4. Escaped(m) \o << >> = Escaped(m) /\ Spell(m) \o << >> = Spell(m)
      BY <2>1, EscapedIs, EmptyTail, Zenon
    <2> QED
      BY <2>3, <2>4, Zenon
  <1> HIDE DEF s1, s2
  <1>7. m = "user_solution_ok" \/ m = "tests_cases_error" \/ m = "user_solution_error"
    BY DEF EndMarks
  <1>8. /\ "user_solution_ok" \in EndMarks /\ "tests_cases_error" \in EndMarks
        /\ "user_solution_error" \in EndMarks
    BY DEF EndMarks
  <1>9. removeEscapeSequence(removeEscapeSequence(removeEscapeSequence(
             s1, "user_solution_ok"), "tests_cases_error"), "user_solution_error") = s2
    <2>1. CASE m = "user_solution_ok"
      BY <1>5, <1>6, <1>8, <2>1
    <2>2. CASE m = "tests_cases_error"
      BY <1>5, <1>6, <1>8, <2>2
    <2>3. CASE m = "user_solution_error"
      BY <1>5, <1>6, <1>8, <2>3
    <2> QED
      BY <1>7, <2>1, <2>2, <2>3
  <1> QED
    BY <1>9, Zenon DEF s1, s2

LEMMA Tender ==
    ASSUME NEW s, NEW s1, s1 = removeEscapeSequence(s, "user_code_ok")
    PROVE  removeEscapeSequencesTender(s) =
             removeEscapeSequence(removeEscapeSequence(removeEscapeSequence(
               s1, "user_solution_ok"), "tests_cases_error"), "user_solution_error")
  BY EscapesAre DEF removeEscapeSequencesTender

\* Program, then verdict.
LEMMA UnescapedProgram ==
    ASSUME NEW u \in Of(Outputs), NEW m \in EndMarks, NEW nl \in BOOLEAN, Len(u) + 1 < Sizes
    PROVE  Unescaped(u \o Marked(nl, m)) = u \o Spell(m)
  <1>1. u \in Seq(Char) /\ Outputs \in SUBSET Pieces /\ Outputs \cap EndMarks = {} /\ m \in Pieces
    BY EndMarksAre, OfText
  <1>2. CASE ~nl
    BY <1>1, <1>2, LineBreaks DEF Marked, Unescaped
  <1>3. CASE nl
    <2> DEFINE s == u \o Escaped(m)
    <2>1. Marked(nl, m) = Escaped(m)
      BY <1>3 DEF Marked
    <2>2. hasEscapeSequence(s)
      BY <1>1, LineBreaks
    <2>3. removeEscapeSequence(s, "user_code_ok") = s
      <3> DEFINE Q == Outputs \cup {m}
      <3>1. Q \in SUBSET Pieces /\ Outputs \in SUBSET Q /\ m \in Q /\ "CRLF" \in Q
            /\ "user_code_ok" \notin Q /\ "user_code_ok" \in Pieces
        BY EndMarksAre
      <3> HIDE DEF Q
      <3>2. u \in Of(Q) /\ Spell(m) \in Of(Q) /\ Spell("CRLF") \in Of(Q)
        BY <3>1, OfMore, OfSpell
      <3>3. Escaped(m) \in Of(Q)
        BY <3>2, OfJoin DEF Escaped
      <3>4. s \in Of(Q)
        BY <3>2, <3>3, OfJoin
      <3>5. s \in Seq(Char) /\ Lacks(s, <<"user_code_ok", 1>>)
        BY <3>1, <3>4, OfText, OfLacks, Zenon
      <3> QED
        BY <3>1, <3>5, RemoveNone, Zenon
    <2>4. removeEscapeSequencesTender(s) = u \o Spell(m)
      BY <1>1, <2>3, Tender, EndRounds, ZenonT(30)
    <2> HIDE DEF s
    <2>5. Unescaped(s) = u \o Spell(m)
      BY <2>2, <2>4 DEF Unescaped
    <2> QED
      BY <2>1, <2>5 DEF s
  <1> QED
    BY <1>2, <1>3, Zenon

\* Program, user_code_ok, tests, then verdict.
LEMMA UnescapedTested ==
    ASSUME NEW u \in Of(Outputs), NEW t \in Of(Outputs), NEW m \in EndMarks, NEW nl \in BOOLEAN,
           Len(u) + Len(t) + 30 < Sizes
    PROVE  Unescaped((u \o (Marked(nl, "user_code_ok") \o t)) \o Marked(nl, m)) =
             (u \o (Spell("user_code_ok") \o t)) \o Spell(m)
  <1> DEFINE k == "user_code_ok"
             P == Outputs \cup {k}
  <1>1. /\ u \in Seq(Char) /\ t \in Seq(Char) /\ m \in Pieces /\ k \in Pieces
        /\ P \in SUBSET Pieces /\ P \cap EndMarks = {}
        /\ Outputs \in SUBSET P /\ k \in P /\ k \notin Outputs
    BY EndMarksAre, OfText, Zenon
  <1>a. Sizes \in Nat /\ npos = Sizes - 1
    BY Wraps
  <1>2. Len(u) \in Nat /\ Len(t) \in Nat /\ Sizes \in Nat /\ npos = Sizes - 1
    BY <1>1, <1>a, TextLen, Zenon
  <1> HIDE DEF P
  <1>3. u \in Of(P) /\ t \in Of(P) /\ Spell(k) \in Of(P)
    BY <1>1, OfMore, OfSpell
  <1>4. /\ Spell(k) \in Seq(Char) /\ Escaped(k) \in Seq(Char) /\ Len(Spell(k)) = Width(k)
        /\ Spell(m) \in Seq(Char) /\ Escaped(m) \in Seq(Char)
    BY <1>1, EscapedIs, Zenon
  <1> DEFINE a == u \o (Spell(k) \o t)
  <1>5. a \in Of(P) /\ a \in Seq(Char)
    BY <1>1, <1>3, OfJoin, OfText
  <1>6. Len(a) + 1 < Sizes
    <2>1. Spell(k) \o t \in Seq(Char) /\ Len(Spell(k) \o t) = Len(Spell(k)) + Len(t)
      BY <1>1, <1>4, Joined, Zenon
    <2>2. Len(a) = Len(u) + Len(Spell(k) \o t)
      BY <1>1, <2>1, Joined, Zenon
    <2>3. Width(k) = 21
      BY Widths
    <2> HIDE DEF a, k
    <2>4. Len(a) = Len(u) + (21 + Len(t))
      BY <1>4, <2>1, <2>2, <2>3
    <2> QED
      BY <1>2, <2>4
  <1>7. CASE ~nl
    <2>1. Marked(nl, k) = Spell(k) /\ Marked(nl, m) = Spell(m)
      BY <1>7 DEF Marked
    <2>2. ~hasEscapeSequence(a \o Spell(m))
      BY <1>5, LineBreaks, Zenon
    <2> QED
      BY <2>1, <2>2, Zenon DEF Unescaped
  <1>8. CASE nl
    <2>1. Marked(nl, k) = Escaped(k) /\ Marked(nl, m) = Escaped(m)
      BY <1>8 DEF Marked
    <2> DEFINE s == (u \o (Escaped(k) \o t)) \o Escaped(m)
    <2> HIDE DEF k
    <2>2. Escaped(k) \o t \in Seq(Char) /\ Spell(k) \o t \in Seq(Char)
          /\ t \o Escaped(m) \in Seq(Char)
      BY <1>1, <1>4, Joined, Zenon
    <2>a. /\ u \in Seq(Char) /\ t \in Seq(Char) /\ Escaped(k) \in Seq(Char)
          /\ Spell(k) \in Seq(Char) /\ Escaped(m) \in Seq(Char)
      BY <1>1, <1>4
    <2>b. ASSUME NEW x \in Seq(Char), NEW y \in Seq(Char)
          PROVE  (u \o (x \o t)) \o y = u \o (x \o (t \o y))
      <3>1. x \o t \in Seq(Char) /\ u \in Seq(Char) /\ t \in Seq(Char)
        BY <2>a
      <3>2. (u \o (x \o t)) \o y = u \o ((x \o t) \o y)
        BY <3>1, Assoc, ZenonT(30)
      <3>3. (x \o t) \o y = x \o (t \o y)
        BY <3>1, Assoc
      <3> QED
        BY <3>2, <3>3, Zenon
    <2>3. s = u \o (Escaped(k) \o (t \o Escaped(m)))
      BY <2>a, <2>b, Zenon
    <2>4. a \o Escaped(m) = u \o (Spell(k) \o (t \o Escaped(m)))
      BY <2>a, <2>b, Zenon
    <2>5. hasEscapeSequence(s)
      <3>1. u \o (Escaped(k) \o t) \in Seq(Char)
        BY <1>1, <2>2
      <3> QED
        BY <3>1, LineBreaks, Zenon
    <2> HIDE DEF a, s
    <2>6. removeEscapeSequence(s, k) = a \o Escaped(m)
      <3>1. Lacks(u, <<k, 1>>)
        BY <1>1, OfLacks
      <3>2. Len(u) # npos
        BY <1>2
      <3> QED
        BY <1>1, <2>2, <2>3, <2>4, <3>1, <3>2, RemoveAt, ZenonT(30)
    <2>7. removeEscapeSequencesTender(s) = a \o Spell(m)
      BY <1>1, <1>5, <1>6, <2>6, Tender, EndRounds, Zenon DEF k
    <2>8. Unescaped(s) = a \o Spell(m)
      BY <2>5, <2>7 DEF Unescaped
    <2> QED
      BY <2>1, <2>8, Zenon DEF s, a, k
  <1> QED
    BY <1>7, <1>8

-----------------------------------------------------------------------------
(* Responses.                                                              *)

Responses == [sourceCode : Int, output : Text, testsOutput : Text \cup {nullopt}]

LEMMA Responds ==
    ASSUME NEW code \in Int, NEW o \in Text, NEW t \in Text \cup {nullopt}
    PROVE  /\ Respond(code, o, t) = [sourceCode |-> code, output |-> o, testsOutput |-> t]
           /\ Respond(code, o, t) \in Responses
           /\ Respond(code, o, t).sourceCode = code
           /\ Respond(code, o, t).output = o /\ Respond(code, o, t).testsOutput = t
  <1>1. OutOfRange # o /\ OutOfRange # t
    BY AnswersAssumption
  <1>2. Respond(code, o, t) = [sourceCode |-> code, output |-> o, testsOutput |-> t]
    BY <1>1 DEF Respond
  <1> QED
    BY <1>2 DEF Responses

\* substr does not throw when it starts within the text; it takes what it is asked
\* for, or what there is.
LEMMA Substr ==
    ASSUME NEW s \in Seq(Char), NEW from \in Nat, from <= Len(s), NEW n \in Nat
    PROVE  /\ substr(s, from, n) \in Text
           /\ from + n <= Len(s) => substr(s, from, n) = SubSeq(s, from + 1, from + n)
  <1>2. substr(s, from, n) = SubSeq(s, from + 1, Min({from + n, Len(s)}))
    <2>1. ~(from > Len(s))
      OBVIOUS
    <2> QED
      BY <2>1, Zenon DEF substr
  <1>3. CASE from + n <= Len(s)
    <2>1. Min({from + n, Len(s)}) = from + n
      <3>1. {from + n, Len(s)} \in SUBSET Int /\ from + n \in {from + n, Len(s)}
            /\ \A y \in {from + n, Len(s)} : from + n <= y
        BY <1>3
      <3> QED
        BY <3>1, MinIs, Zenon
    <2>2. SubSeq(s, from + 1, from + n) \in Seq(Char)
      BY <1>3
    <2> QED
      BY <1>2, <2>1, <2>2, Zenon DEF Text
  <1>4. CASE ~(from + n <= Len(s))
    <2>1. Min({from + n, Len(s)}) = Len(s)
      <3>1. {from + n, Len(s)} \in SUBSET Int /\ Len(s) \in {from + n, Len(s)}
            /\ \A y \in {from + n, Len(s)} : Len(s) <= y
        BY <1>4
      <3> QED
        BY <3>1, MinIs, Zenon
    <2>2. SubSeq(s, from + 1, Len(s)) \in Seq(Char)
      OBVIOUS
    <2> QED
      BY <1>2, <1>4, <2>1, <2>2, Zenon DEF Text
  <1> QED
    BY <1>3, <1>4, Zenon

\* The values of getExitCode; two of them say that a mark was found.
LEMMA ExitCodes ==
    ASSUME NEW s \in Seq(Char)
    PROVE  /\ getExitCode(s) \in {0, 1, 2, 3, 124, 125, 137}
           /\ getExitCode(s) = 0 => find(s, Spell("user_solution_ok")) # npos
           /\ getExitCode(s) = 2 => find(s, Spell("tests_cases_error")) # npos
  <1>1. ASSUME NEW S \in SUBSET (1..3), S # {} PROVE Min(S) \in S
    <2>2. PICK i \in S : \A j \in S : i <= j
      BY <1>1, LeastNatural
    <2>3. Min(S) = i
      BY <2>2, MinIs
    <2> QED
      BY <2>3
  <1>2. \A i \in 1..3 : i = 1 \/ i = 2 \/ i = 3
    OBVIOUS
  <1>3. CASE TimedOut(s) # {}
    <2>1. TimedOut(s) \in SUBSET (1..3)
      BY DEF TimedOut
    <2>2. PICK i \in 1..3 : i = Min(TimedOut(s))
      BY <1>1, <1>3, <2>1
    <2>3. getExitCode(s) = kTimeoutUtilCodes[i][2]
      BY <1>3, <2>2 DEF getExitCode
    <2>4. getExitCode(s) \in {124, 125, 137}
      BY <2>3, Tables
    <2> QED
      BY <2>4
  <1>4. CASE TimedOut(s) = {} /\ Found(s) # {}
    <2>1. Found(s) \in SUBSET (1..3)
      BY DEF Found
    <2>2. PICK i \in 1..3 : i = Min(Found(s)) /\ i \in Found(s)
      BY <1>1, <1>4, <2>1
    <2>3. getExitCode(s) = kCorrelations[i][2]
      BY <1>4, <2>2 DEF getExitCode
    <2>4. find(s, Spell(kCorrelations[i][1])) # npos
      BY <2>2, Zenon DEF Found
    <2>5. CASE i = 1
      BY <2>3, <2>4, Tables
    <2>6. CASE i = 2
      BY <2>3, <2>6, Tables
    <2>7. CASE i = 3
      BY <2>3, <2>4, Tables
    <2> QED
      BY <1>2, <2>5, <2>6, <2>7, Zenon
  <1>5. CASE TimedOut(s) = {} /\ Found(s) = {}
    BY <1>5 DEF getExitCode, Unknown
  <1> QED
    BY <1>3, <1>4, <1>5, Zenon

LEMMA StringLengths ==
    getStringLength(0) = 25 /\ getStringLength(1) = 28 /\ getStringLength(2) = 26
  <1>1. /\ getStringLength(0) = Width(kCorrelations[1][1])
        /\ getStringLength(1) = Width(kCorrelations[2][1])
        /\ getStringLength(2) = Width(kCorrelations[3][1])
    <2>2. \A code \in 0..2 : getStringLength(code) = Width(kCorrelations[code + 1][1])
      BY DEF getStringLength
    <2> QED
      BY <2>2
  <1>2. /\ kCorrelations[1][1] = "user_solution_ok" /\ kCorrelations[2][1] = "user_solution_error"
        /\ kCorrelations[3][1] = "tests_cases_error"
    BY Tables, Zenon
  <1>3. /\ getStringLength(0) = Width("user_solution_ok")
        /\ getStringLength(1) = Width("user_solution_error")
        /\ getStringLength(2) = Width("tests_cases_error")
    BY <1>1, <1>2
  <1> QED
    BY <1>3, Widths

\* The text before a mark, wherever the mark is.
LEMMA BeforeMark ==
    ASSUME NEW s \in Seq(Char), NEW end \in Nat
    PROVE  (IF end = 0 THEN << >> ELSE substr(s, 0, end)) \in Text
  <1>2. substr(s, 0, end) \in Text
    BY Substr
  <1> QED
    BY <1>2 DEF Text

\* find returns a position of the text, with room for the pattern, or npos.
LEMMA FindRange ==
    ASSUME NEW s \in Seq(Char), NEW p \in Pieces
    PROVE  /\ find(s, Spell(p)) \in Nat
           /\ find(s, Spell(p)) # npos => find(s, Spell(p)) + Width(p) <= Len(s)
  <1> DEFINE q == Spell(p)
  <1>1. q \in Seq(Char) /\ Len(q) = Width(p) /\ Width(p) \in 1..28 /\ Len(s) \in Nat
    BY Spelled
  <1>2. npos \in Nat
    <2>1. Sizes \in Nat /\ Sizes > 2 * MaxPrints + 100 /\ MaxPrints \in Nat /\ npos = Sizes - 1
      BY Wraps
    <2> QED
      BY <2>1
  <1> HIDE DEF q
  <1>3. ASSUME find(s, q) # npos PROVE find(s, q) \in 0..Len(s) - Len(q)
    BY <1>1, <1>3, FindMatches
  <1>4. ASSUME find(s, q) # npos PROVE find(s, q) \in Nat /\ find(s, q) + Width(p) <= Len(s)
    <2>1. PICK w \in 1..28 : w = Width(p)
      BY <1>1
    <2>2. find(s, q) \in 0..Len(s) - w
      BY <1>1, <1>3, <1>4, <2>1
    <2>3. find(s, q) \in Nat /\ find(s, q) + w <= Len(s)
      BY <2>2
    <2> QED
      BY <2>1, <2>3
  <1> QED
    BY <1>2, <1>4 DEF q

\* getMessageOutput never starts beyond the end: without user_code_ok it computes
\* npos + 21, which wraps around to 20, and the mark of the verdict is longer.
LEMMA MessageOutputType ==
    ASSUME NEW s \in Seq(Char), Len(s) < Sizes, NEW code \in {0, 2}, getExitCode(s) = code
    PROVE  /\ getMessageOutput(code, s) \in Responses
           /\ getMessageOutput(code, s).sourceCode = code
  <1> DEFINE end  == find(s, Spell("user_code_ok"))
             from == Size(end + Width("user_code_ok"))
             o    == IF end = 0 THEN << >> ELSE substr(s, 0, end)
             n    == Size(Len(s) - from - getStringLength(code))
  <1>1. /\ Len(s) \in Nat /\ Width("user_code_ok") = 21 /\ Sizes \in Nat /\ Sizes > 100
        /\ npos = Sizes - 1
    <2>1. MaxPrints \in Nat /\ Sizes \in Nat /\ Sizes > 2 * MaxPrints + 100 /\ npos = Sizes - 1
      BY Wraps
    <2>2. Len(s) \in Nat /\ Width("user_code_ok") = 21
      BY Widths
    <2> QED
      BY <2>1, <2>2
  <1>2. end \in Nat /\ (end # npos => end + 21 <= Len(s))
    <2>1. "user_code_ok" \in Pieces
      BY DEF Pieces
    <2>2. end \in Nat /\ (end # npos => end + Width("user_code_ok") <= Len(s))
      BY <2>1, FindRange
    <2> HIDE DEF end
    <2> QED
      BY <1>1, <2>2
  <1>3. Len(s) >= 20
    <2>1. CASE code = 0
      <3>1. "user_solution_ok" \in Pieces /\ Width("user_solution_ok") = 25
        BY Widths DEF Pieces
      <3>2. find(s, Spell("user_solution_ok")) # npos
        BY <2>1, ExitCodes
      <3>3. PICK f \in Nat : f + Width("user_solution_ok") <= Len(s)
        BY <3>1, <3>2, FindRange
      <3>4. f + 25 <= Len(s)
        BY <3>1, <3>3
      <3> QED
        BY <3>4
    <2>2. CASE code = 2
      <3>1. "tests_cases_error" \in Pieces /\ Width("tests_cases_error") = 26
        BY Widths DEF Pieces
      <3>2. find(s, Spell("tests_cases_error")) # npos
        BY <2>2, ExitCodes
      <3>3. PICK f \in Nat : f + Width("tests_cases_error") <= Len(s)
        BY <3>1, <3>2, FindRange
      <3>4. f + 26 <= Len(s)
        BY <3>1, <3>3
      <3> QED
        BY <3>4
    <2> QED
      BY <2>1, <2>2
  <1>4. from \in Nat /\ from <= Len(s)
    <2>1. from = Size(end + 21)
      BY <1>1
    <2> HIDE DEF end, from
    <2>2. CASE end # npos
      <3>1. end + 21 \in Int /\ end + 21 \in 0..Sizes - 1 /\ end + 21 <= Len(s)
        BY <1>1, <1>2, <2>2
      <3>2. Size(end + 21) = end + 21
        BY <3>1, Wraps
      <3> QED
        BY <2>1, <3>1, <3>2
    <2>3. CASE end = npos
      <3>1. 20 \in 0..Sizes - 1 /\ end + 21 = 20 + Sizes /\ 20 \in Int
        BY <1>1, <2>3
      <3>2. Size(20 + Sizes) = 20
        BY <3>1, Wraps
      <3> QED
        BY <1>3, <2>1, <3>1, <3>2
    <2> QED
      BY <2>2, <2>3
  <1>5. o \in Text
    BY <1>2, BeforeMark
  <1>6. n \in Nat
    <2> HIDE DEF from
    <2>1. getStringLength(code) \in Int
      BY StringLengths
    <2>2. Len(s) - from - getStringLength(code) \in Int
      BY <1>4, <2>1
    <2>3. n \in 0..Sizes - 1
      BY <2>2, Wraps
    <2> HIDE DEF n
    <2> QED
      BY <2>3
  <1>7. getMessageOutput(code, s) = Respond(code, o, substr(s, from, n))
    BY Zenon DEF getMessageOutput
  <1> HIDE DEF from, n, o, end
  <1>8. substr(s, from, n) \in Text /\ code \in Int
    BY <1>4, <1>6, Substr
  <1> QED
    BY <1>5, <1>7, <1>8, Responds

LEMMA UserOutputType ==
    ASSUME NEW s \in Seq(Char)
    PROVE  /\ Respond(1, getUserOutput(s), nullopt) \in Responses
           /\ Respond(1, getUserOutput(s), nullopt).sourceCode = 1
  <1>a. PICK n \in Int : n = Len(s) - getStringLength(1)
    <2>1. PICK k \in Int : k = getStringLength(1)
      BY StringLengths
    <2> QED
      BY <2>1
  <1>2. Size(Len(s) - getStringLength(1)) = Size(n)
    BY <1>a
  <1>3. Sizes \in Nat /\ Size(n) \in 0..Sizes - 1
    BY Wraps, Zenon
  <1>4. Size(Len(s) - getStringLength(1)) \in Nat
    BY <1>2, <1>3
  <1>5. getUserOutput(s) \in Text
    BY <1>4, Substr DEF getUserOutput
  <1> QED
    BY <1>5, Responds

LEMMA InternalErrorType ==
    ASSUME NEW code \in Int
    PROVE  InternalError(code) \in Responses /\ InternalError(code).sourceCode = code
  <1>1. "internal_error" \in Pieces
    BY DEF Pieces
  <1>2. Spell("internal_error") \in Text /\ << >> \in Text
    BY <1>1, Spelled DEF Text
  <1> QED
    BY <1>2, Responds DEF InternalError

\* Both readers give a response with the exit code of the text, whatever the text.
LEMMA ChapterType ==
    ASSUME NEW s \in Seq(Char), Len(s) < Sizes
    PROVE  processChapter(s) \in Responses /\ processChapter(s).sourceCode = getExitCode(s)
  <1>1. PICK code : code = getExitCode(s)
    OBVIOUS
  <1>2. code \in {0, 1, 2, 3, 124, 125, 137} /\ code \in Int
    BY <1>1, ExitCodes
  <1>3. CASE code \in {0, 2}
    <2>1. processChapter(s) = getMessageOutput(code, s)
      BY <1>1, <1>3 DEF processChapter
    <2> QED
      BY <1>1, <1>3, <2>1, MessageOutputType
  <1>4. CASE code = 1
    <2>1. processChapter(s) = Respond(1, getUserOutput(s), nullopt)
      BY <1>1, <1>4 DEF processChapter
    <2> QED
      BY <1>1, <1>4, <2>1, UserOutputType
  <1>5. CASE code \notin {0, 1, 2}
    <2>1. processChapter(s) = InternalError(code)
      BY <1>1, <1>5 DEF processChapter
    <2> QED
      BY <1>1, <1>2, <2>1, InternalErrorType
  <1> QED
    BY <1>3, <1>4, <1>5

LEMMA PlaygroundType ==
    ASSUME NEW s \in Seq(Char), Len(s) < Sizes
    PROVE  processPlayground(s) \in Responses /\ processPlayground(s).sourceCode = getExitCode(s)
  <1>1. PICK code : code = getExitCode(s)
    OBVIOUS
  <1>2. code \in {0, 1, 2, 3, 124, 125, 137} /\ code \in Int
    BY <1>1, ExitCodes
  <1>3. CASE code = 0
    <2>1. processPlayground(s) = Respond(0, playgroundMessageOutput(s), nullopt)
      BY <1>1, <1>3 DEF processPlayground
    <2>2. "user_solution_ok" \in Pieces
      BY DEF Pieces
    <2>3. find(s, Spell("user_solution_ok")) \in Nat
      BY <2>2, FindRange
    <2>4. playgroundMessageOutput(s) \in Text
      BY <2>3, BeforeMark DEF playgroundMessageOutput
    <2> QED
      BY <1>1, <1>3, <2>1, <2>4, Responds
  <1>4. CASE code = 1
    <2>1. processPlayground(s) = Respond(1, getUserOutput(s), nullopt)
      BY <1>1, <1>4 DEF processPlayground
    <2> QED
      BY <1>1, <1>4, <2>1, UserOutputType
  <1>5. CASE code \notin {0, 1}
    <2>1. processPlayground(s) = InternalError(code)
      BY <1>1, <1>5 DEF processPlayground
    <2> QED
      BY <1>1, <1>2, <2>1, InternalErrorType
  <1> QED
    BY <1>3, <1>4, <1>5

\* What program and tests printed is found again.
LEMMA UserErrorOutput ==
    ASSUME NEW u \in Seq(Char), Len(u) + 30 < Sizes
    PROVE  getUserOutput(u \o Spell("user_solution_error")) = u
  <1> DEFINE q == Spell("user_solution_error")
             s == u \o q
  <1>1. q \in Seq(Char) /\ Len(q) = 28
    <2>1. "user_solution_error" \in Pieces
      BY DEF Pieces
    <2>2. q \in Seq(Char) /\ Len(q) = Width("user_solution_error")
      BY <2>1, Spelled
    <2> HIDE DEF q
    <2> QED
      BY <2>2, Widths
  <1> HIDE DEF q
  <1>2. s \in Seq(Char) /\ Len(u) \in Nat /\ Len(s) = Len(u) + 28 /\ Sizes \in Nat
    <2>1. s \in Seq(Char) /\ Len(u) \in Nat /\ Len(s) = Len(u) + Len(q)
      BY <1>1, Joined, ZenonT(30)
    <2> HIDE DEF s
    <2> QED
      BY <1>1, <2>1, Wraps
  <1>3. SubSeq(s, 1, Len(u)) = u
    OBVIOUS
  <1> HIDE DEF s
  <1>4. Len(s) - getStringLength(1) = Len(u) /\ Len(u) \in 0..Sizes - 1
    BY <1>2, StringLengths
  <1>5. Size(Len(s) - getStringLength(1)) = Len(u)
    BY <1>2, <1>4, Wraps, SMTT(20)
  <1>6. 0 <= Len(s) /\ 0 + Len(u) <= Len(s) /\ 0 + 1 = 1 /\ 0 + Len(u) = Len(u) /\ 0 \in Nat
    BY <1>2
  <1>7. substr(s, 0, Len(u)) = SubSeq(s, 0 + 1, 0 + Len(u))
    BY <1>2, <1>6, Substr, Zenon
  <1>8. substr(s, 0, Len(u)) = u
    BY <1>3, <1>7
  <1> QED
    BY <1>5, <1>8 DEF getUserOutput, s, q

\* substr takes what there is when it is asked for more.
LEMMA SubstrAll ==
    ASSUME NEW s \in Seq(Char), NEW from \in Nat, from <= Len(s), NEW n \in Nat,
           Len(s) <= from + n
    PROVE  substr(s, from, n) = SubSeq(s, from + 1, Len(s))
  <1>1. substr(s, from, n) = SubSeq(s, from + 1, Min({from + n, Len(s)}))
    <2>1. ~(from > Len(s))
      OBVIOUS
    <2> QED
      BY <2>1, Zenon DEF substr
  <1>2. {from + n, Len(s)} \in SUBSET Int /\ Len(s) \in {from + n, Len(s)}
        /\ \A y \in {from + n, Len(s)} : Len(s) <= y
    OBVIOUS
  <1>3. Min({from + n, Len(s)}) = Len(s)
    BY <1>2, MinIs, Zenon
  <1> QED
    BY <1>1, <1>3, Zenon

\* The reader of chapters on a text without user_code_ok.
LEMMA UntestedOutput ==
    ASSUME NEW u \in Of(Outputs), Len(u) + 30 < Sizes, NEW s, s = u \o Spell("user_solution_ok")
    PROVE  getMessageOutput(0, s) =
             Respond(0, s, SubSeq(s, 21, IF Len(u) < 20 THEN Len(u) + 25 ELSE Len(u)))
  <1> DEFINE k    == Spell("user_code_ok")
             q    == Spell("user_solution_ok")
             end  == find(s, k)
             from == Size(end + Width("user_code_ok"))
             n    == Size(Len(s) - from - getStringLength(0))
  <1>1. /\ "user_code_ok" \in Pieces /\ "user_solution_ok" \in Pieces
        /\ k \in Seq(Char) /\ Len(k) > 0 /\ k[1] = <<"user_code_ok", 1>>
        /\ q \in Seq(Char) /\ Len(q) = 25
    <2>1. "user_code_ok" \in Pieces /\ "user_solution_ok" \in Pieces
      BY DEF Pieces
    <2>2. k \in Seq(Char) /\ Len(k) > 0 /\ k[1] = <<"user_code_ok", 1>>
      BY <2>1, Starts
    <2>3. q \in Seq(Char) /\ Len(q) = 25
      BY <2>1, Spelled, Widths, Zenon
    <2> QED
      BY <2>1, <2>2, <2>3
  <1>2. Lacks(s, k[1])
    <2> DEFINE P == Outputs \cup {"user_solution_ok"}
    <2>1. /\ P \in SUBSET Pieces /\ Outputs \in SUBSET P /\ "user_solution_ok" \in P
          /\ "user_code_ok" \notin P
      BY <1>1, EndMarksAre
    <2> HIDE DEF P
    <2>2. u \in Of(P) /\ q \in Of(P)
      BY <2>1, OfMore, OfSpell
    <2>3. s \in Of(P)
      BY <2>2, OfJoin
    <2> QED
      BY <1>1, <2>1, <2>3, OfLacks, Zenon
  <1>3. u \in Seq(Char)
    BY EndMarksAre, OfText
  <1>4. s \in Seq(Char) /\ Len(u) \in Nat /\ Len(s) = Len(u) + 25
    <2> HIDE DEF q
    <2>1. s \in Seq(Char) /\ Len(u) \in Nat /\ Len(s) = Len(u) + Len(q)
      BY <1>1, <1>3, Joined, ZenonT(30) DEF q
    <2> QED
      BY <1>1, <2>1
  <1>5. end = npos
    <2> HIDE DEF k
    <2> QED
      BY <1>1, <1>2, <1>4, FindNone, Zenon
  <1>6. /\ Sizes \in Nat /\ Sizes > 100 /\ npos = Sizes - 1 /\ Width("user_code_ok") = 21
        /\ getStringLength(0) = 25
    <2>1. MaxPrints \in Nat /\ Sizes \in Nat /\ Sizes > 2 * MaxPrints + 100 /\ npos = Sizes - 1
      BY Wraps
    <2>2. Sizes > 100
      BY <2>1
    <2> QED
      BY <2>1, <2>2, Widths, StringLengths, Zenon
  <1>7. from = 20
    <2>1. from = Size(npos + 21)
      BY <1>5, <1>6
    <2>2. 20 \in 0..Sizes - 1 /\ npos + 21 = 20 + Sizes /\ 20 \in Int
      BY <1>6
    <2>3. Size(20 + Sizes) = 20
      BY <2>2, Wraps
    <2> QED
      BY <2>1, <2>2, <2>3
  <1>8. n = Size(Len(u) - 20)
    <2>1. Len(s) - 20 - 25 = Len(u) - 20
      BY <1>4
    <2> QED
      BY <1>6, <1>7, <2>1, Zenon
  <1>9. substr(s, 0, end) = s
    <2>1. 0 \in Nat /\ 0 <= Len(s) /\ npos \in Nat /\ Len(s) <= 0 + npos /\ 0 + 1 = 1
      BY <1>4, <1>6
    <2>2. substr(s, 0, npos) = SubSeq(s, 1, Len(s))
      BY <1>4, <2>1, SubstrAll, Zenon
    <2>3. SubSeq(s, 1, Len(s)) = s
      BY <1>4
    <2> QED
      BY <1>5, <2>2, <2>3, Zenon
  <1>10. getMessageOutput(0, s) =
           Respond(0, IF end = 0 THEN << >> ELSE substr(s, 0, end), substr(s, from, n))
    BY Zenon DEF getMessageOutput
  <1> HIDE DEF from, n, end, k, q
  <1>11. end # 0
    BY <1>5, <1>6
  <1>12. getMessageOutput(0, s) = Respond(0, s, substr(s, 20, n))
    BY <1>7, <1>9, <1>10, <1>11, Zenon
  <1>13. CASE Len(u) < 20
    <2>1. /\ Len(u) + Sizes - 20 \in Int /\ Len(u) + Sizes - 20 \in 0..Sizes - 1
          /\ Len(u) - 20 \in Int
      BY <1>4, <1>6, <1>13
    <2>2. Size(Len(u) - 20) = Len(u) + Sizes - 20
      <3>1. Size(Len(u) - 20) = (Len(u) - 20) % Sizes
        BY Zenon DEF Size, Sizes
      <3>2. PICK l \in Nat : l = Len(u)
        BY <1>4
      <3>3. l < 20 /\ l + Sizes - 20 \in 0..Sizes - 1
        BY <1>13, <2>1, <3>2
      <3>4. (l - 20) % Sizes = l + Sizes - 20
        BY <1>6, <3>3
      <3> QED
        BY <3>1, <3>2, <3>4, Zenon
    <2>3. n \in Nat /\ 20 \in Nat /\ 20 <= Len(s) /\ Len(s) <= 20 + n /\ 20 + 1 = 21
      BY <1>4, <1>6, <1>8, <2>1, <2>2
    <2>4. substr(s, 20, n) = SubSeq(s, 21, Len(s))
      BY <1>4, <2>3, SubstrAll, Zenon
    <2> QED
      BY <1>4, <1>12, <1>13, <2>4, Zenon
  <1>14. CASE ~(Len(u) < 20)
    <2>1. Len(u) - 20 \in Int /\ Len(u) - 20 \in 0..Sizes - 1
      BY <1>4, <1>6, <1>14
    <2>2. n = Len(u) - 20
      BY <1>8, <2>1, Wraps
    <2>3. /\ n \in Nat /\ 20 \in Nat /\ 20 <= Len(s) /\ 20 + n <= Len(s) /\ 20 + 1 = 21
          /\ 20 + n = Len(u)
      BY <1>4, <1>14, <2>2
    <2>4. substr(s, 20, n) = SubSeq(s, 21, Len(u))
      BY <1>4, <2>3, Substr, ZenonT(30)
    <2> QED
      BY <1>12, <1>14, <2>4, Zenon
  <1> QED
    BY <1>13, <1>14

LEMMA PlaygroundOutput ==
    ASSUME NEW P \in SUBSET Pieces, "user_solution_ok" \notin P, NEW u \in Of(P)
    PROVE  playgroundMessageOutput(u \o Spell("user_solution_ok")) = u
  <1> DEFINE q == Spell("user_solution_ok")
             s == u \o q
  <1>1. u \in Seq(Char) /\ q \in Seq(Char) /\ Len(q) > 0 /\ Lacks(u, q[1])
    <2>1. "user_solution_ok" \in Pieces
      BY DEF Pieces
    <2>2. q \in Seq(Char) /\ Len(q) > 0 /\ q[1] = <<"user_solution_ok", 1>>
      BY <2>1, Starts
    <2>3. u \in Seq(Char) /\ Lacks(u, <<"user_solution_ok", 1>>)
      BY OfText, OfLacks
    <2> QED
      BY <2>2, <2>3, Zenon
  <1> HIDE DEF q
  <1>2. find(u \o (q \o << >>), q) = Len(u)
    <2>1. << >> \in Seq(Char)
      OBVIOUS
    <2> QED
      BY <1>1, <2>1, FindAt, Zenon
  <1>4. s \in Seq(Char) /\ Len(u) \in Nat /\ Len(q) \in Nat /\ Len(s) = Len(u) + Len(q)
        /\ SubSeq(s, 1, Len(u)) = u /\ find(s, q) = Len(u)
    <2>1. s \in Seq(Char) /\ Len(u) \in Nat /\ Len(q) \in Nat /\ Len(s) = Len(u) + Len(q)
      BY <1>1
    <2>2. SubSeq(s, 1, Len(u)) = u
      BY <1>1
    <2>3. find(s, q) = Len(u)
      BY <1>2
    <2> HIDE DEF s
    <2> QED
      BY <2>1, <2>2, <2>3
  <1> HIDE DEF s
  <1>5. 0 <= Len(s) /\ 0 + Len(u) <= Len(s) /\ 0 + 1 = 1 /\ 0 + Len(u) = Len(u) /\ 0 \in Nat
    BY <1>4
  <1>6. substr(s, 0, Len(u)) = SubSeq(s, 0 + 1, 0 + Len(u))
    BY <1>4, <1>5, Substr, Zenon
  <1>7. substr(s, 0, Len(u)) = u
    BY <1>4, <1>6
  <1>9. (IF find(s, q) = 0 THEN << >> ELSE substr(s, 0, find(s, q))) = u
    BY <1>4, <1>7
  <1> QED
    BY <1>9 DEF playgroundMessageOutput, s, q

LEMMA Middle ==
    ASSUME NEW a \in Seq(Char), NEW b \in Seq(Char), NEW c \in Seq(Char)
    PROVE  SubSeq(a \o (b \o c), Len(a) + 1, Len(a) + Len(b)) = b
  <1> DEFINE bc == b \o c
             s  == a \o bc
  <1>1. /\ bc \in Seq(Char) /\ Len(b) \in Nat /\ Len(c) \in Nat /\ Len(bc) = Len(b) + Len(c)
        /\ \A i \in 1..Len(b) : bc[i] = b[i]
    OBVIOUS
  <1> HIDE DEF bc
  <1>2. /\ s \in Seq(Char) /\ Len(a) \in Nat /\ Len(s) = Len(a) + Len(bc)
        /\ \A i \in 1..Len(bc) : s[Len(a) + i] = bc[i]
    BY <1>1, Joined, Zenon
  <1> HIDE DEF s
  <1>3. Len(a) \in 0..Len(s) - Len(b)
    BY <1>1, <1>2
  <1>4. ASSUME NEW i \in 1..Len(b) PROVE s[Len(a) + i] = b[i]
    <2>1. i \in 1..Len(bc)
      BY <1>1
    <2> QED
      BY <1>1, <1>2, <2>1
  <1>5. SubSeq(s, Len(a) + 1, Len(a) + Len(b)) = b
    BY <1>2, <1>3, <1>4, Occurs, Zenon
  <1> QED
    BY <1>5, Zenon DEF s, bc

LEMMA TestedOutput ==
    ASSUME NEW u \in Of(Outputs), NEW t \in Of(Outputs), NEW q \in Seq(Char), NEW code \in {0, 2},
           Len(q) = getStringLength(code), Len(u) + Len(t) + 60 < Sizes
    PROVE  getMessageOutput(code, (u \o (Spell("user_code_ok") \o t)) \o q) = Respond(code, u, t)
  <1> DEFINE k == Spell("user_code_ok")
             s == (u \o (k \o t)) \o q
  <1>1. /\ k \in Seq(Char) /\ Len(k) = 21 /\ Len(k) > 0 /\ Lacks(u, k[1])
        /\ u \in Seq(Char) /\ t \in Seq(Char) /\ Width("user_code_ok") = 21
    <2>1. "user_code_ok" \in Pieces /\ "user_code_ok" \notin Outputs /\ Outputs \in SUBSET Pieces
      BY EndMarksAre
    <2>2. /\ k \in Seq(Char) /\ Len(k) > 0 /\ k[1] = <<"user_code_ok", 1>>
          /\ Len(k) = Width("user_code_ok") /\ Width("user_code_ok") = 21
      BY <2>1, Starts, Spelled, Widths, Zenon
    <2>3. u \in Seq(Char) /\ t \in Seq(Char) /\ Lacks(u, <<"user_code_ok", 1>>)
      BY <2>1, OfText, OfLacks
    <2> QED
      BY <2>2, <2>3, Zenon
  <1>2. PICK L \in Nat : L = getStringLength(code)
    OBVIOUS
  <1> HIDE DEF k
  <1>4. /\ t \o q \in Seq(Char) /\ k \o t \in Seq(Char) /\ u \o k \in Seq(Char)
        /\ k \o (t \o q) \in Seq(Char)
        /\ Len(u) \in Nat /\ Len(t) \in Nat /\ Len(t \o q) = Len(t) + L /\ Len(u \o k) = Len(u) + 21
        /\ Len(k \o (t \o q)) = 21 + Len(t \o q)
    <2>a. Len(k) = 21 /\ Len(q) = L
      BY <1>1, <1>2
    <2>b. u \in Seq(Char) /\ k \in Seq(Char) /\ t \in Seq(Char)
      BY <1>1
    <2>1. t \o q \in Seq(Char) /\ Len(t) \in Nat /\ Len(t \o q) = Len(t) + Len(q)
      BY <2>b, Joined, Zenon
    <2>3. u \o k \in Seq(Char) /\ Len(u) \in Nat /\ Len(u \o k) = Len(u) + Len(k)
      BY <2>b
    <2> QED
      BY <2>a, <2>1, <2>3
  <1>5. s = u \o (k \o (t \o q)) /\ s = (u \o k) \o (t \o q)
    <2>a. u \in Seq(Char)
      BY <1>1
    <2>b. k \in Seq(Char)
      BY <1>1
    <2>c. t \in Seq(Char)
      BY <1>1
    <2>d. k \o t \in Seq(Char)
      BY <1>4
    <2>e. t \o q \in Seq(Char)
      BY <1>4
    <2>1. (u \o (k \o t)) \o q = u \o ((k \o t) \o q)
      BY <2>a, <2>d, Assoc, Zenon
    <2>2. (k \o t) \o q = k \o (t \o q)
      BY <2>b, <2>c, Assoc, Zenon
    <2>3. (u \o k) \o (t \o q) = u \o (k \o (t \o q))
      BY <2>a, <2>b, <2>e, Assoc, Zenon
    <2> QED
      BY <2>1, <2>2, <2>3, Zenon
  <1>6. find(s, k) = Len(u)
    <2>1. find(u \o (k \o (t \o q)), k) = Len(u)
      BY <1>1, <1>4, FindAt, Zenon
    <2> QED
      BY <1>5, <2>1, Zenon
  <1>7. SubSeq(s, 1, Len(u)) = u
    <2>1. SubSeq(u \o (k \o (t \o q)), 1, Len(u)) = u
      BY <1>1, <1>4, Cut, Zenon
    <2> QED
      BY <1>5, <2>1, Zenon
  <1>8. SubSeq(s, (Len(u) + 21) + 1, (Len(u) + 21) + Len(t)) = t
    <2>1. SubSeq((u \o k) \o (t \o q), Len(u \o k) + 1, Len(u \o k) + Len(t)) = t
      BY <1>1, <1>4, Middle, Zenon
    <2> QED
      BY <1>4, <1>5, <2>1, Zenon
  <1>9. s \in Seq(Char) /\ Len(s) = Len(u) + (21 + (Len(t) + L))
    <2>a. u \in Seq(Char) /\ k \o (t \o q) \in Seq(Char)
      BY <1>4
    <2>b. /\ u \o (k \o (t \o q)) \in Seq(Char)
          /\ Len(u \o (k \o (t \o q))) = Len(u) + Len(k \o (t \o q))
      BY <2>a
    <2>c. Len(k \o (t \o q)) = 21 + (Len(t) + L)
      BY <1>4
    <2>1. s \in Seq(Char) /\ Len(s) = Len(u) + Len(k \o (t \o q))
      BY <1>5, <2>b, Zenon
    <2> QED
      BY <2>c, <2>1
  <1> HIDE DEF s
  <1>10. Sizes \in Nat
    BY Wraps
  <1>11. Size(Len(u) + 21) = Len(u) + 21
    <2>1. Len(u) + 21 \in Int /\ Len(u) + 21 \in 0..Sizes - 1
      BY <1>4, <1>10
    <2> QED
      BY <2>1, Wraps
  <1>12. Size(Len(s) - (Len(u) + 21) - L) = Len(t)
    <2>1. Len(s) - (Len(u) + 21) - L = Len(t) /\ Len(t) \in Int /\ Len(t) \in 0..Sizes - 1
      <3>1. Len(u) \in Nat /\ Len(t) \in Nat /\ Len(s) = Len(u) + (21 + (Len(t) + L))
        BY <1>9
      <3>3. Len(s) - (Len(u) + 21) - L = Len(t)
        BY <3>1
      <3> QED
        BY <1>10, <3>3
    <2> QED
      BY <2>1, Wraps, Zenon
  <1>13. (IF Len(u) = 0 THEN << >> ELSE substr(s, 0, Len(u))) = u
    <2>1. 0 <= Len(s) /\ 0 + Len(u) <= Len(s) /\ 0 + 1 = 1 /\ 0 + Len(u) = Len(u) /\ 0 \in Nat
      BY <1>9
    <2>2. substr(s, 0, Len(u)) = SubSeq(s, 0 + 1, 0 + Len(u))
      BY <1>4, <1>9, <2>1, Substr, Zenon
    <2>3. Len(u) = 0 => u = << >>
      OBVIOUS
    <2> QED
      BY <1>7, <2>1, <2>2, <2>3, Zenon
  <1>14. substr(s, Len(u) + 21, Len(t)) = t
    <2>1. Len(u) + 21 \in Nat /\ Len(u) + 21 <= Len(s) /\ (Len(u) + 21) + Len(t) <= Len(s)
      <3>1. Len(u) \in Nat /\ Len(t) \in Nat /\ Len(s) = Len(u) + (21 + (Len(t) + L))
        BY <1>9
      <3> QED
        BY <3>1
    <2>2. substr(s, Len(u) + 21, Len(t)) = SubSeq(s, (Len(u) + 21) + 1, (Len(u) + 21) + Len(t))
      BY <1>4, <1>9, <2>1, Substr, Zenon
    <2> QED
      BY <1>8, <2>2, Zenon
  <1>15. getMessageOutput(code, s) =
           Respond(code, IF Len(u) = 0 THEN << >> ELSE substr(s, 0, Len(u)),
                   substr(s, Len(u) + 21, Len(t)))
    <2>1. find(s, Spell("user_code_ok")) = Len(u)
      BY <1>6 DEF k
    <2>2. Size(find(s, Spell("user_code_ok")) + Width("user_code_ok")) = Len(u) + 21
      BY <1>1, <1>11, <2>1, Zenon
    <2>3. Size(Len(s) - Size(find(s, Spell("user_code_ok")) + Width("user_code_ok"))
                 - getStringLength(code)) = Len(t)
      BY <1>2, <1>12, <2>2, Zenon
    <2> QED
      BY <2>1, <2>2, <2>3, Zenon DEF getMessageOutput
  <1> QED
    BY <1>13, <1>14, <1>15 DEF s, k

Jsons == [status_code : Int, user_code_output : Text, tests_output : Text \cup {nullopt}]

LEMMA JsonOf ==
    ASSUME NEW r \in Responses
    PROVE  /\ makeJsonCourse(r) \in Jsons
           /\ makeJsonCourse(r).status_code = r.sourceCode
           /\ makeJsonCourse(r) # OutOfRange /\ makeJsonCourse(r) # nullopt
           /\ r.sourceCode \in 0..3 =>
                /\ makeJsonCourse(r).user_code_output = r.output
                /\ makeJsonCourse(r).tests_output = r.testsOutput
  <1>1. "timeout" \in Pieces /\ "out_of_memory" \in Pieces
    BY DEF Pieces
  <1>2. Spell("timeout") \in Text /\ Spell("out_of_memory") \in Text
    BY <1>1, Spelled DEF Text
  <1>3. r.sourceCode \in Int /\ r.output \in Text /\ r.testsOutput \in Text \cup {nullopt}
    BY DEF Responses
  <1> DEFINE J(o, t) == [status_code |-> r.sourceCode, user_code_output |-> o, tests_output |-> t]
  <1>4. \/ makeJsonCourse(r) = J(Spell("timeout"), nullopt) /\ r.sourceCode = 124
        \/ makeJsonCourse(r) = J(Spell("out_of_memory"), nullopt) /\ r.sourceCode = 137
        \/ makeJsonCourse(r) = J(r.output, r.testsOutput)
    BY DEF makeJsonCourse
  <1>5. ASSUME NEW o \in Text, NEW t \in Text \cup {nullopt}
        PROVE  /\ J(o, t) \in Jsons /\ J(o, t).status_code = r.sourceCode
               /\ J(o, t).user_code_output = o /\ J(o, t).tests_output = t
    BY <1>3 DEF Jsons
  <1> HIDE DEF J
  <1>7. /\ makeJsonCourse(r) \in Jsons
        /\ makeJsonCourse(r).status_code = r.sourceCode
    BY <1>2, <1>3, <1>4, <1>5
  <1>8. ASSUME r.sourceCode \in 0..3
        PROVE  /\ makeJsonCourse(r).user_code_output = r.output
               /\ makeJsonCourse(r).tests_output = r.testsOutput
    <2>1. makeJsonCourse(r) = J(r.output, r.testsOutput)
      BY <1>4, <1>8
    <2> QED
      BY <1>3, <1>5, <2>1
  <1>9. makeJsonCourse(r) # OutOfRange /\ makeJsonCourse(r) # nullopt
    BY <1>7, AnswersAssumption DEF Jsons
  <1> QED
    BY <1>7, <1>8, <1>9

-----------------------------------------------------------------------------
(* The container's script.                                                 *)

Printable == {<<"out", 1>>, <<"CRLF", 1>>, <<"CRLF", 2>>}

\* What programs and tests print, as sequences.
LEMMA TextsAre ==
    \A x : x \in Texts <=> x \in Seq(Printable) /\ Len(x) <= 2 * MaxPrints
  <1>2. ASSUME NEW x \in Texts PROVE x \in Seq(Printable) /\ Len(x) <= 2 * MaxPrints
    <2>1. PICK n \in 0..2*MaxPrints : x \in [1..n -> Printable]
      BY DEF Texts, Printable
    <2>3. x \in Seq(Printable)
      BY <2>1
    <2>4. Len(x) = n
      BY <2>1
    <2> QED
      BY <2>3, <2>4
  <1>3. ASSUME NEW x \in Seq(Printable), Len(x) <= 2 * MaxPrints PROVE x \in Texts
    <2>2. Len(x) \in 0..2*MaxPrints
      BY <1>3
    <2> QED
      BY <2>2 DEF Texts, Printable
  <1> QED
    BY <1>2, <1>3

LEMMA TextsOf == ASSUME NEW x \in Texts PROVE x \in Of(Outputs)
  <1>1. x \in Seq(Printable)
    BY TextsAre
  <1>2. Printable \subseteq Outputs \X Nat
    BY DEF Printable, Outputs
  <1> QED
    BY <1>1, <1>2 DEF Of

\* One more piece is within the bounds.
LEMMA TextsGrow ==
    ASSUME NEW x \in Texts, Len(x) < MaxPrints, NEW p \in Outputs
    PROVE  x \o Spell(p) \in Texts /\ Len(x \o Spell(p)) <= MaxPrints + 1
  <1>1. p \in Pieces /\ (p = "out" \/ p = "CRLF")
    BY EndMarksAre DEF Outputs
  <1>2. Spell(p) \in Seq(Printable) /\ Len(Spell(p)) <= 2 /\ Len(Spell(p)) \in Nat
    <2>1. /\ Spell(p) \in Seq(Char) /\ Len(Spell(p)) = Width(p)
          /\ \A i \in 1..Width(p) : Spell(p)[i] = <<p, i>>
      BY <1>1, Spelled
    <2>2. (p = "out" /\ Width(p) = 1) \/ (p = "CRLF" /\ Width(p) = 2)
      BY <1>1, Widths
    <2>3. PICK w \in 1..2 : w = Width(p)
      BY <2>2
    <2>4. ASSUME NEW i \in 1..w PROVE Spell(p)[i] \in Printable
      <3>1. Spell(p)[i] = <<p, i>>
        BY <2>1, <2>3
      <3>2. CASE p = "out"
        <4>1. w = 1
          BY <2>2, <2>3, <3>2
        <4>2. i = 1
          BY <4>1
        <4> QED
          BY <3>1, <3>2, <4>2 DEF Printable
      <3>3. CASE p = "CRLF"
        BY <3>1, <3>3 DEF Printable
      <3> QED
        BY <1>1, <3>2, <3>3
    <2>5. Len(Spell(p)) = w
      BY <2>1, <2>3
    <2>6. Spell(p) \in [1..w -> Printable]
      <3>1. DOMAIN Spell(p) = 1..w /\ Spell(p) = [i \in 1..w |-> Spell(p)[i]]
        BY <2>1, <2>5
      <3> QED
        BY <2>4, <3>1
    <2> QED
      BY <2>6
  <1>3. x \in Seq(Printable) /\ Len(x) \in Nat
    BY TextsAre
  <1> DEFINE q == Spell(p)
  <1> HIDE DEF q
  <1>4. x \o q \in Seq(Printable) /\ Len(x \o q) = Len(x) + Len(q)
    <2>1. q \in Seq(Printable)
      BY <1>2 DEF q
    <2> QED
      BY <1>3, <2>1
  <1>5. Len(x \o q) <= MaxPrints + 1 /\ Len(x \o q) <= 2 * MaxPrints
    <2>1. Len(q) <= 2 /\ Len(q) \in Nat
      BY <1>2 DEF q
    <2>2. MaxPrints \in Nat
      BY AnswersAssumption
    <2> QED
      BY <2>1, <2>2
  <1> QED
    BY <1>4, <1>5, TextsAre, Zenon DEF q

\* The text of program, user_code_ok and tests, as printed.
LEMMA TestedText ==
    ASSUME NEW u \in Seq(Char), NEW t \in Seq(Char), NEW p \in Pieces, NEW nl \in BOOLEAN
    PROVE  /\ Marked(nl, p) \in Seq(Char) /\ Len(Marked(nl, p)) <= Width(p) + 2
           /\ Len(Marked(nl, p)) \in Nat /\ Width(p) \in Nat
           /\ u \o Marked(nl, p) \in Seq(Char)
           /\ Len(u \o Marked(nl, p)) = Len(u) + Len(Marked(nl, p))
           /\ u \o (Marked(nl, p) \o t) \in Seq(Char)
           /\ Len(u \o (Marked(nl, p) \o t)) = Len(u) + (Len(Marked(nl, p)) + Len(t))
  <1>1. PICK q : q = Marked(nl, p)
    OBVIOUS
  <1>2. q \in Seq(Char) /\ Len(q) <= Width(p) + 2 /\ Width(p) \in Nat
    <2>1. /\ Spell(p) \in Seq(Char) /\ Escaped(p) \in Seq(Char) /\ Width(p) \in 1..28
          /\ Len(Spell(p)) = Width(p) /\ Len(Escaped(p)) = Width(p) + 2
      BY EscapedIs, Zenon
    <2>2. CASE nl
      <3>1. q = Escaped(p)
        BY <1>1, <2>2 DEF Marked
      <3> QED
        BY <2>1, <3>1
    <2>3. CASE ~nl
      <3>1. q = Spell(p)
        BY <1>1, <2>3 DEF Marked
      <3> QED
        BY <2>1, <3>1
    <2> QED
      BY <2>2, <2>3
  <1> QED
    BY <1>1, <1>2

\* The facts of the invariant that the reply depends on.
LEMMA Outcome ==
    ASSUME AInv
    PROVE  /\ users \in Of(Outputs) /\ tests \in Of(Outputs) /\ newline \in BOOLEAN
           /\ Len(users) \in Nat /\ Len(tests) \in Nat
           /\ Len(users) <= MaxPrints + 1 /\ Len(tests) <= MaxPrints + 1
           /\ message \in Seq(Char) /\ Len(message) < Sizes
           /\ Len(users) + Len(tests) + 60 < Sizes
           /\ Len(users) + 30 < Sizes /\ Len(users) + 1 < Sizes
           /\ Len(users) + Len(tests) + 30 < Sizes
           /\ \A p : Line(p) = Marked(newline, p)
  <1>1. /\ users \in Texts /\ tests \in Texts /\ newline \in BOOLEAN /\ message \in Seq(Char)
        /\ Len(users) <= MaxPrints + 1 /\ Len(tests) <= MaxPrints + 1
        /\ Len(message) <= 2 * MaxPrints + (IF verdict \in UtilCodes THEN 60 ELSE 55)
    BY DEF AInv, TypeOK, Text
  <1>2. users \in Of(Outputs) /\ tests \in Of(Outputs)
    BY <1>1, TextsOf
  <1>3. Len(users) \in Nat /\ Len(tests) \in Nat /\ Len(message) \in Nat
    OBVIOUS
  <1>4. MaxPrints \in Nat /\ Sizes \in Nat /\ Sizes > 2 * MaxPrints + 100
    BY Wraps
  <1>6. /\ Len(message) < Sizes
        /\ Len(users) + Len(tests) + 60 < Sizes
        /\ Len(users) + 30 < Sizes /\ Len(users) + 1 < Sizes
        /\ Len(users) + Len(tests) + 30 < Sizes
    BY <1>1, <1>4
  <1>7. \A p : Line(p) = Marked(newline, p)
    BY DEF Line, Marked
  <1> QED
    BY <1>1, <1>2, <1>3, <1>6, <1>7, Zenon

\* The text the readers get from a finished script, and its exit code.
LEMMA ProgramRead ==
    ASSUME NEW u \in Of(Outputs), NEW nl \in BOOLEAN, NEW n \in 1..3,
           NEW m, m = kCorrelations[n][1], Len(u) + 1 < Sizes
    PROVE  /\ Unescaped(u \o Marked(nl, m)) = u \o Spell(m)
           /\ getExitCode(u \o Spell(m)) = kCorrelations[n][2]
  <1>1. m \in EndMarks
    BY Tables DEF EndMarks
  <1>2. /\ Outputs \in SUBSET Pieces /\ Outputs \cap UtilCodes = {}
        /\ \A i \in 1..3 : kCorrelations[i][1] \notin Outputs
    BY EndMarksAre, Tables, Zenon
  <1>3. Unescaped(u \o Marked(nl, m)) = u \o Spell(m)
    BY <1>1, UnescapedProgram, Zenon
  <1>4. getExitCode(u \o Spell(kCorrelations[n][1])) = kCorrelations[n][2]
    BY <1>2, MarkCode, Zenon
  <1> QED
    BY <1>3, <1>4, Zenon

ReadsTested(u, t, nl, n, m) ==
    /\ Unescaped((u \o (Marked(nl, "user_code_ok") \o t)) \o Marked(nl, m)) =
         (u \o (Spell("user_code_ok") \o t)) \o Spell(m)
    /\ getExitCode((u \o (Spell("user_code_ok") \o t)) \o Spell(m)) = kCorrelations[n][2]

LEMMA TestedRead ==
    ASSUME NEW u \in Of(Outputs), NEW t \in Of(Outputs), NEW nl \in BOOLEAN, NEW n \in 1..3,
           NEW m, m = kCorrelations[n][1], Len(u) + Len(t) + 30 < Sizes
    PROVE  ReadsTested(u, t, nl, n, m)
  <1> DEFINE k == Spell("user_code_ok")
             P == Outputs \cup {"user_code_ok"}
             a == u \o (k \o t)
  <1>1. m \in EndMarks
    BY Tables DEF EndMarks
  <1>2. /\ P \in SUBSET Pieces /\ P \cap UtilCodes = {} /\ Outputs \in SUBSET P
        /\ "user_code_ok" \in P /\ Outputs \in SUBSET Pieces /\ "user_code_ok" \in Pieces
    BY EndMarksAre
  <1>3. \A i \in 1..3 : kCorrelations[i][1] \notin P
    <2>1. \A i \in 1..3 : kCorrelations[i][1] \in EndMarks
      BY Tables DEF EndMarks
    <2> QED
      BY <2>1, EndMarksAre, Zenon
  <1>4. Unescaped((u \o (Marked(nl, "user_code_ok") \o t)) \o Marked(nl, m)) = a \o Spell(m)
    BY <1>1, UnescapedTested
  <1> HIDE DEF P
  <1>5. a \in Of(P)
    <2>1. u \in Of(P) /\ t \in Of(P) /\ k \in Of(P)
      BY <1>2, OfMore, OfSpell
    <2> HIDE DEF k
    <2> QED
      BY <2>1, OfJoin
  <1>6. Len(a) + 1 < Sizes
    <2>1. k \in Seq(Char) /\ Len(k) = 21
      <3>1. k \in Seq(Char) /\ Len(k) = Width("user_code_ok")
        BY <1>2, Spelled, Zenon
      <3> HIDE DEF k
      <3> QED
        BY <3>1, Widths
    <2>2. u \in Seq(Char) /\ t \in Seq(Char)
      BY <1>2, OfText
    <2> HIDE DEF k
    <2>3. k \o t \in Seq(Char) /\ Len(k \o t) = Len(k) + Len(t) /\ Len(t) \in Nat
      BY <2>1, <2>2, Joined, ZenonT(30)
    <2>4. Len(a) = Len(u) + Len(k \o t) /\ Len(u) \in Nat
      OBVIOUS
    <2> HIDE DEF a
    <2>5. Len(a) = Len(u) + (21 + Len(t)) /\ Sizes \in Nat
      BY <2>1, <2>3, <2>4, Wraps
    <2> QED
      BY <2>5
  <1> HIDE DEF a
  <1>7. getExitCode(a \o Spell(kCorrelations[n][1])) = kCorrelations[n][2]
    BY <1>2, <1>3, <1>5, <1>6, MarkCode, Zenon
  <1> QED
    BY <1>4, <1>7, Zenon DEF a, k, ReadsTested

\* The exit code of what the script printed is that of its verdict.
LEMMA VerdictRead ==
    ASSUME AInv, verdict # "exec_failed"
    PROVE  /\ Unescaped(message) \in Seq(Char) /\ Len(Unescaped(message)) < Sizes
           /\ getExitCode(Unescaped(message)) = CodeOf(verdict)
  <1>0. Pieces \in SUBSET Pieces /\ Of(Pieces) = Seq(Char)
    BY DEF Of, Char
  <1>1. message \in Seq(Char) /\ Len(message) < Sizes /\ Sizes \in Nat /\ Len(message) \in Nat
    BY Outcome, Wraps
  <1>2. Unescaped(message) \in Seq(Char) /\ Len(Unescaped(message)) <= Len(message)
    BY <1>0, <1>1, UnescapedType
  <1>3. Len(Unescaped(message)) < Sizes
    BY <1>1, <1>2
  <1>4. /\ CodeOf("ok") = 0 /\ CodeOf("user_error") = 1 /\ CodeOf("tests_error") = 2
        /\ CodeOf("none") = 3
    BY DEF CodeOf
  <1>5. 1 \in 1..3 /\ 2 \in 1..3 /\ 3 \in 1..3
    OBVIOUS
  <1>o. /\ users \in Of(Outputs) /\ tests \in Of(Outputs) /\ newline \in BOOLEAN
        /\ Len(users) + 1 < Sizes /\ Len(users) + Len(tests) + 30 < Sizes
    BY Outcome
  <1>t. ASSUME NEW n \in 1..3, NEW m, m = kCorrelations[n][1]
        PROVE  /\ Unescaped((users \o (Marked(newline, "user_code_ok") \o tests)) \o Marked(newline, m))
                    = (users \o (Spell("user_code_ok") \o tests)) \o Spell(m)
               /\ getExitCode((users \o (Spell("user_code_ok") \o tests)) \o Spell(m))
                    = kCorrelations[n][2]
    <2>1. ReadsTested(users, tests, newline, n, m)
      BY <1>o, <1>t, TestedRead
    <2> QED
      BY <2>1, Zenon DEF ReadsTested
  <1>l. \A p : Line(p) = Marked(newline, p)
    BY Outcome
  <1>p. Printed
    BY DEF AInv
  <1>6. CASE verdict = "ok"
    <2>1. message = (IF separator THEN Tested ELSE users) \o Marked(newline, "user_solution_ok")
      BY <1>6, Outcome, Zenon DEF AInv, Printed
    <2>2. CASE separator
      <3>1. message = (users \o (Marked(newline, "user_code_ok") \o tests))
                        \o Marked(newline, "user_solution_ok")
        BY <2>1, <2>2, Outcome, Zenon DEF Tested
      <3>a. "user_solution_ok" = kCorrelations[1][1] /\ kCorrelations[1][2] = 0
        BY Tables, Zenon
      <3>b. /\ Unescaped((users \o (Marked(newline, "user_code_ok") \o tests)) \o Marked(newline, "user_solution_ok")) =
              (users \o (Spell("user_code_ok") \o tests)) \o Spell("user_solution_ok")
           /\ getExitCode((users \o (Spell("user_code_ok") \o tests)) \o Spell("user_solution_ok")) = kCorrelations[1][2]
        BY <1>5, <1>t, <3>a, Zenon
      <3>c. getExitCode(Unescaped(message)) = 0
        BY <3>1, <3>a, <3>b, Zenon
      <3> QED
        BY <1>2, <1>3, <1>4, <1>6, <3>c
    <2>3. CASE ~separator
      <3>1. message = users \o Marked(newline, "user_solution_ok")
        BY <2>1, <2>3
      <3>a. "user_solution_ok" = kCorrelations[1][1] /\ kCorrelations[1][2] = 0
        BY Tables, Zenon
      <3>b. /\ Unescaped(users \o Marked(newline, "user_solution_ok")) = users \o Spell("user_solution_ok")
           /\ getExitCode(users \o Spell("user_solution_ok")) = kCorrelations[1][2]
        BY <1>5, <1>o, <3>a, ProgramRead, ZenonT(30)
      <3>c. getExitCode(Unescaped(message)) = 0
        BY <3>1, <3>a, <3>b, Zenon
      <3> QED
        BY <1>2, <1>3, <1>4, <1>6, <3>c
    <2> QED
      BY <2>2, <2>3
  <1>7. CASE verdict = "user_error"
    <2>1. message = users \o Marked(newline, "user_solution_error")
      BY <1>7, Outcome, Zenon DEF AInv, Printed
    <2>a. "user_solution_error" = kCorrelations[2][1] /\ kCorrelations[2][2] = 1
      BY Tables, Zenon
    <2>b. /\ Unescaped(users \o Marked(newline, "user_solution_error")) = users \o Spell("user_solution_error")
         /\ getExitCode(users \o Spell("user_solution_error")) = kCorrelations[2][2]
      BY <1>5, <1>o, <2>a, ProgramRead, ZenonT(30)
    <2>c. getExitCode(Unescaped(message)) = 1
      BY <2>1, <2>a, <2>b, Zenon
    <2> QED
      BY <1>2, <1>3, <1>4, <1>7, <2>c
  <1>8. CASE verdict = "tests_error"
    <2>1. message = (users \o (Marked(newline, "user_code_ok") \o tests))
                      \o Marked(newline, "tests_cases_error")
      <3>1. message = Tested \o Line("tests_cases_error")
        BY <1>8, <1>p DEF Printed
      <3> QED
        BY <1>l, <3>1, Zenon DEF Tested
    <2>a. "tests_cases_error" = kCorrelations[3][1] /\ kCorrelations[3][2] = 2
      BY Tables
    <2>b. /\ Unescaped((users \o (Marked(newline, "user_code_ok") \o tests)) \o Marked(newline, "tests_cases_error")) =
            (users \o (Spell("user_code_ok") \o tests)) \o Spell("tests_cases_error")
         /\ getExitCode((users \o (Spell("user_code_ok") \o tests)) \o Spell("tests_cases_error")) = kCorrelations[3][2]
      BY <1>5, <1>t, <2>a, Zenon
    <2>c. getExitCode(Unescaped(message)) = 2
      BY <2>1, <2>a, <2>b, Zenon
    <2> QED
      BY <1>2, <1>3, <1>4, <1>8, <2>c
  <1>9. CASE verdict = "none"
    <2> DEFINE P == Outputs \cup {"user_code_ok"}
    <2>1. /\ P \in SUBSET Pieces /\ P \cap UtilCodes = {} /\ Outputs \in SUBSET P
          /\ "user_code_ok" \in P /\ "CRLF" \in P
      BY EndMarksAre
    <2>2. \A i \in 1..3 : kCorrelations[i][1] \notin P
      <3>1. \A i \in 1..3 : kCorrelations[i][1] \in EndMarks
        BY Tables DEF EndMarks
      <3> QED
        BY <3>1, EndMarksAre
    <2> HIDE DEF P
    <2>3. users \in Of(P) /\ tests \in Of(P)
      BY <2>1, Outcome, OfMore
    <2>4. Marked(newline, "user_code_ok") \in Of(P)
      <3>1. Spell("user_code_ok") \in Of(P) /\ Spell("CRLF") \in Of(P)
        BY <2>1, OfSpell
      <3>2. Escaped("user_code_ok") \in Of(P)
        BY <3>1, OfJoin DEF Escaped
      <3> QED
        BY <3>1, <3>2 DEF Marked
    <2>5. message = users \/ message = users \o (Marked(newline, "user_code_ok") \o tests)
      <3>1. message = users \/ message = Tested
        BY <1>9, <1>p DEF Printed
      <3> QED
        BY <1>l, <3>1, Zenon DEF Tested
    <2>6. message \in Of(P)
      <3>1. Marked(newline, "user_code_ok") \o tests \in Of(P)
        BY <2>3, <2>4, OfJoin
      <3>2. users \o (Marked(newline, "user_code_ok") \o tests) \in Of(P)
        BY <2>3, <3>1, OfJoin
      <3> QED
        BY <2>3, <2>5, <3>2, Zenon
    <2>7. Unescaped(message) \in Of(P)
      BY <2>1, <2>6, UnescapedType
    <2>8. getExitCode(Unescaped(message)) = 3
      BY <2>1, <2>2, <2>7, NoVerdict
    <2> QED
      BY <1>2, <1>3, <1>4, <1>9, <2>8
  <1>10. CASE verdict \in UtilCodes
    <2>1. ends_with(message, Escaped(verdict))
      BY <1>10, <1>p, Zenon DEF Printed
    <2>2. ends_with(Unescaped(message), Escaped(verdict))
      BY <1>1, <1>10, <2>1, UnescapedKeeps
    <2> QED
      BY <1>2, <1>3, <1>10, <2>2, StoppedCode
  <1>11. \/ verdict = "ok" \/ verdict = "user_error" \/ verdict = "tests_error" \/ verdict = "none"
         \/ verdict \in UtilCodes
    BY DEF AInv, TypeOK, Verdicts, MarkVerdicts
  <1> QED
    BY <1>2, <1>3, <1>6, <1>7, <1>8, <1>9, <1>10, <1>11

\* The text the readers get from a finished script: the outputs and bare marks.
LEMMA VerdictText ==
    ASSUME AInv
    PROVE  /\ verdict = "user_error" =>
                Unescaped(message) = users \o Spell("user_solution_error")
           /\ verdict = "ok" /\ ~separator =>
                Unescaped(message) = users \o Spell("user_solution_ok")
           /\ verdict = "ok" /\ separator =>
                Unescaped(message) =
                  (users \o (Spell("user_code_ok") \o tests)) \o Spell("user_solution_ok")
           /\ verdict = "tests_error" =>
                Unescaped(message) =
                  (users \o (Spell("user_code_ok") \o tests)) \o Spell("tests_cases_error")
  <1>o. /\ users \in Of(Outputs) /\ tests \in Of(Outputs) /\ newline \in BOOLEAN
        /\ Len(users) + 1 < Sizes /\ Len(users) + Len(tests) + 30 < Sizes
    BY Outcome
  <1>l. \A p : Line(p) = Marked(newline, p)
    BY Outcome
  <1>p. Printed
    BY DEF AInv
  <1>m. /\ "user_solution_ok" \in EndMarks /\ "user_solution_error" \in EndMarks
        /\ "tests_cases_error" \in EndMarks
    BY DEF EndMarks
  <1>1. ASSUME NEW m \in EndMarks
        PROVE  Unescaped(users \o Marked(newline, m)) = users \o Spell(m)
    BY <1>o, UnescapedProgram
  <1>2. ASSUME NEW m \in EndMarks
        PROVE  Unescaped((users \o (Marked(newline, "user_code_ok") \o tests)) \o Marked(newline, m))
                 = (users \o (Spell("user_code_ok") \o tests)) \o Spell(m)
    BY <1>o, UnescapedTested
  <1>3. Tested = users \o (Marked(newline, "user_code_ok") \o tests)
    BY <1>l, Zenon DEF Tested
  <1>4. ASSUME verdict = "user_error"
        PROVE  Unescaped(message) = users \o Spell("user_solution_error")
    <2>1. message = users \o Marked(newline, "user_solution_error")
      BY <1>4, <1>l, <1>p DEF Printed
    <2> QED
      BY <1>1, <1>m, <2>1, Zenon
  <1>5. ASSUME verdict = "ok", ~separator
        PROVE  Unescaped(message) = users \o Spell("user_solution_ok")
    <2>1. message = users \o Marked(newline, "user_solution_ok")
      BY <1>5, <1>l, <1>p DEF Printed
    <2> QED
      BY <1>1, <1>m, <2>1, Zenon
  <1>6. ASSUME verdict = "ok", separator
        PROVE  Unescaped(message) =
                 (users \o (Spell("user_code_ok") \o tests)) \o Spell("user_solution_ok")
    <2>1. message = Tested \o Marked(newline, "user_solution_ok")
      BY <1>6, <1>l, <1>p DEF Printed
    <2> QED
      BY <1>2, <1>3, <1>m, <2>1, Zenon
  <1>7. ASSUME verdict = "tests_error"
        PROVE  Unescaped(message) =
                 (users \o (Spell("user_code_ok") \o tests)) \o Spell("tests_cases_error")
    <2>1. message = Tested \o Marked(newline, "tests_cases_error")
      BY <1>7, <1>l, <1>p DEF Printed
    <2> QED
      BY <1>2, <1>3, <1>m, <2>1, Zenon
  <1> QED
    BY <1>4, <1>5, <1>6, <1>7, Zenon

-----------------------------------------------------------------------------
(* The reply.                                                              *)

\* The Response the launcher makes of the script's text.
Response ==
    IF verdict = "exec_failed" THEN Respond(0, message, nullopt)
    ELSE IF action = "Playground" THEN processPlayground(Unescaped(message))
    ELSE processChapter(Unescaped(message))

LEMMA ReplyOf ==
    ASSUME AInv
    PROVE  Reply = IF Response = OutOfRange THEN OutOfRange ELSE makeJsonCourse(Response)
  <1>1. action = "Chapter" \/ action = "Playground" \/ action = "Practice"
    BY DEF AInv, TypeOK, Actions
  <1> QED
    BY <1>1 DEF Reply, Response, getCourseResponse, getPlaygroungResponse, getPracticeResponse

\* Every text gives a Response, with the code of the verdict.
LEMMA ResponseType ==
    ASSUME AInv
    PROVE  /\ Response \in Responses /\ Response # OutOfRange
           /\ verdict = "exec_failed" => Response.sourceCode = 0
           /\ verdict # "exec_failed" => Response.sourceCode = CodeOf(verdict)
  <1>1. CASE verdict = "exec_failed"
    <2>1. message \in Text /\ nullopt \in Text \cup {nullopt} /\ 0 \in Int
      BY DEF AInv
    <2>2. Response = Respond(0, message, nullopt)
      BY <1>1 DEF Response
    <2>3. Response \in Responses /\ Response.sourceCode = 0
      BY <2>1, <2>2, Responds
    <2> QED
      BY <1>1, <2>3, AnswersAssumption DEF Responses
  <1>2. CASE verdict # "exec_failed"
    <2>1. /\ Unescaped(message) \in Seq(Char) /\ Len(Unescaped(message)) < Sizes
          /\ getExitCode(Unescaped(message)) = CodeOf(verdict)
      BY <1>2, VerdictRead
    <2>2. Response \in Responses /\ Response.sourceCode = CodeOf(verdict)
      <3>1. CASE action = "Playground"
        <4>1. Response = processPlayground(Unescaped(message))
          BY <1>2, <3>1 DEF Response
        <4> QED
          BY <2>1, <4>1, PlaygroundType
      <3>2. CASE action # "Playground"
        <4>1. Response = processChapter(Unescaped(message))
          BY <1>2, <3>2 DEF Response
        <4> QED
          BY <2>1, <4>1, ChapterType
      <3> QED
        BY <3>1, <3>2
    <2> QED
      BY <1>2, <2>2, AnswersAssumption DEF Responses
  <1> QED
    BY <1>1, <1>2

\* A reply is a JSON object, and its status code that of the verdict.
LEMMA ReplyType ==
    ASSUME AInv
    PROVE  /\ Reply \in Jsons /\ Reply # OutOfRange /\ Reply # nullopt
           /\ verdict # "exec_failed" => Reply.status_code = CodeOf(verdict)
           /\ Reply.status_code \in -1..3 \cup {124, 125, 137}
  <1>1. Response \in Responses /\ Response # OutOfRange
    BY ResponseType
  <1>2. Reply = makeJsonCourse(Response)
    BY <1>1, ReplyOf
  <1>3. /\ Reply \in Jsons /\ Reply # OutOfRange /\ Reply # nullopt
        /\ Reply.status_code = Response.sourceCode
    BY <1>1, <1>2, JsonOf
  <1>4. CASE verdict = "exec_failed"
    BY <1>3, <1>4, ResponseType
  <1>5. CASE verdict # "exec_failed"
    <2>1. Reply.status_code = CodeOf(verdict)
      BY <1>3, <1>5, ResponseType
    <2>2. CodeOf(verdict) \in -1..3 \cup {124, 125, 137}
      BY <1>5 DEF AInv, TypeOK, Verdicts, MarkVerdicts, UtilCodes, CodeOf
    <2> QED
      BY <1>3, <2>1, <2>2
  <1> QED
    BY <1>4, <1>5

\* The reply to a finished script shows what ShownOutput and ShownTests say.
LEMMA ReplyOutputs ==
    ASSUME AInv, verdict \in MarkVerdicts
    PROVE  Reply.user_code_output = ShownOutput /\ Reply.tests_output = ShownTests
  <1> DEFINE t == Unescaped(message)
  <1>o. /\ users \in Of(Outputs) /\ tests \in Of(Outputs)
        /\ Len(users) + 30 < Sizes /\ Len(users) + Len(tests) + 60 < Sizes
    BY Outcome
  <1>s. users \in Seq(Char) /\ tests \in Seq(Char)
    <2>1. Outputs \in SUBSET Pieces
      BY EndMarksAre
    <2> QED
      BY <1>o, <2>1, OfText
  <1>v. verdict # "exec_failed"
    BY DEF MarkVerdicts
  <1>c. getExitCode(t) = CodeOf(verdict)
    BY <1>v, VerdictRead
  <1>1. ASSUME NEW code \in 0..3, ShownOutput \in Text, ShownTests \in Text \cup {nullopt},
               Response = Respond(code, ShownOutput, ShownTests)
        PROVE  Reply.user_code_output = ShownOutput /\ Reply.tests_output = ShownTests
    <2>1. /\ Response \in Responses /\ Response.sourceCode = code
          /\ Response.output = ShownOutput /\ Response.testsOutput = ShownTests
      BY <1>1, Responds
    <2>2. Reply = makeJsonCourse(Response)
      BY ResponseType, ReplyOf
    <2> QED
      BY <2>1, <2>2, JsonOf
  <1>2. CASE verdict = "user_error"
    <2>1. t = users \o Spell("user_solution_error") /\ getExitCode(t) = 1
      BY <1>2, <1>c, VerdictText DEF CodeOf
    <2>2. getUserOutput(t) = users
      BY <1>o, <1>s, <2>1, UserErrorOutput
    <2>3. Response = processPlayground(t) \/ Response = processChapter(t)
      BY <1>v DEF Response
    <2>4. processPlayground(t) = Respond(1, getUserOutput(t), nullopt)
      BY <2>1 DEF processPlayground
    <2>5. processChapter(t) = Respond(1, getUserOutput(t), nullopt)
      BY <2>1 DEF processChapter
    <2>6. ShownOutput = users /\ ShownTests = nullopt
      BY <1>2 DEF ShownOutput, ShownTests
    <2> HIDE DEF t
    <2>7. Response = Respond(1, ShownOutput, ShownTests) /\ 1 \in 0..3
      BY <2>2, <2>3, <2>4, <2>5, <2>6
    <2> QED
      BY <1>1, <1>s, <2>6, <2>7 DEF Text
  <1>3. CASE verdict = "ok" /\ action = "Playground"
    <2>1. /\ t = ShownOutput \o Spell("user_solution_ok") /\ ShownTests = nullopt
          /\ \E P \in SUBSET Pieces : "user_solution_ok" \notin P /\ ShownOutput \in Of(P)
      <3>1. ShownTests = nullopt
        BY <1>3 DEF ShownTests
      <3>2. CASE ~separator
        <4>1. t = users \o Spell("user_solution_ok")
          BY <1>3, <3>2, VerdictText, Zenon
        <4>2. ShownOutput = users
          BY <1>3, <3>2 DEF ShownOutput
        <4>3. Outputs \in SUBSET Pieces /\ "user_solution_ok" \notin Outputs
          BY DEF Pieces, Outputs
        <4> QED
          BY <1>o, <3>1, <4>1, <4>2, <4>3, Zenon
      <3>3. CASE separator
        <4> DEFINE P == Outputs \cup {"user_code_ok"}
        <4>1. t = (users \o (Spell("user_code_ok") \o tests)) \o Spell("user_solution_ok")
          BY <1>3, <3>3, VerdictText, Zenon
        <4>2. ShownOutput = users \o Spell("user_code_ok")
          BY <1>3, <3>3 DEF ShownOutput
        <4>3. /\ P \in SUBSET Pieces /\ "user_solution_ok" \notin P
              /\ Outputs \in SUBSET P /\ "user_code_ok" \in P /\ "user_code_ok" \in Pieces
          BY DEF Pieces, Outputs
        <4> HIDE DEF P
        <4>4. users \o Spell("user_code_ok") \in Of(P)
          <5>1. users \in Of(P) /\ Spell("user_code_ok") \in Of(P)
            BY <1>o, <4>3, OfMore, OfSpell
          <5> QED
            BY <5>1, OfJoin
        <4>5. Spell("user_code_ok") \o tests = Spell("user_code_ok")
          <5>1. tests = << >>
            BY <1>3 DEF AInv
          <5>2. Spell("user_code_ok") \in Seq(Char)
            BY <4>3, Spelled
          <5> QED
            BY <5>1, <5>2, EmptyTail
        <4> QED
          BY <3>1, <4>1, <4>2, <4>3, <4>4, <4>5, Zenon
      <3> QED
        BY <3>2, <3>3
    <2>2. getExitCode(t) = 0
      BY <1>3, <1>c DEF CodeOf
    <2>3. ShownOutput \in Text /\ playgroundMessageOutput(t) = ShownOutput
      <3>1. PICK P \in SUBSET Pieces : "user_solution_ok" \notin P /\ ShownOutput \in Of(P)
        BY <2>1
      <3> QED
        BY <2>1, <3>1, OfText, PlaygroundOutput DEF Text
    <2>4. Response = processPlayground(t)
      BY <1>3 DEF Response
    <2>5. processPlayground(t) = Respond(0, playgroundMessageOutput(t), nullopt)
      BY <2>2 DEF processPlayground
    <2> HIDE DEF t
    <2>6. Response = Respond(0, ShownOutput, ShownTests) /\ 0 \in 0..3
      BY <2>1, <2>3, <2>4, <2>5
    <2> QED
      BY <1>1, <2>1, <2>3, <2>6
  <1>4. CASE action # "Playground" /\ ((verdict = "ok" /\ separator) \/ verdict = "tests_error")
    <2>1. PICK code \in {0, 2}, m \in EndMarks :
            /\ t = (users \o (Spell("user_code_ok") \o tests)) \o Spell(m)
            /\ getExitCode(t) = code /\ Len(Spell(m)) = getStringLength(code)
      <3>m. /\ "user_solution_ok" \in EndMarks /\ "tests_cases_error" \in EndMarks
            /\ "user_solution_ok" \in Pieces /\ "tests_cases_error" \in Pieces
        BY DEF EndMarks, Pieces
      <3>1. Len(Spell("user_solution_ok")) = 25 /\ Len(Spell("tests_cases_error")) = 26
        BY <3>m, Spelled, Widths, Zenon
      <3>2. CASE verdict = "ok"
        <4>1. /\ t = (users \o (Spell("user_code_ok") \o tests)) \o Spell("user_solution_ok")
              /\ getExitCode(t) = 0
          BY <1>4, <1>c, <3>2, VerdictText, Zenon DEF CodeOf
        <4> QED
          BY <3>m, <3>1, <4>1, StringLengths, Zenon
      <3>3. CASE verdict = "tests_error"
        <4>1. /\ t = (users \o (Spell("user_code_ok") \o tests)) \o Spell("tests_cases_error")
              /\ getExitCode(t) = 2
          BY <1>c, <3>3, VerdictText DEF CodeOf
        <4> QED
          BY <3>m, <3>1, <4>1, StringLengths, Zenon
      <3> QED
        BY <1>4, <3>2, <3>3, Zenon
    <2>2. Spell(m) \in Seq(Char)
      <3>1. m \in Pieces
        BY EndMarksAre
      <3> QED
        BY <3>1, Spelled
    <2>3. getMessageOutput(code, t) = Respond(code, users, tests)
      BY <1>o, <2>1, <2>2, TestedOutput
    <2>4. Response = processChapter(t)
      BY <1>4 DEF Response
    <2>5. processChapter(t) = getMessageOutput(code, t)
      BY <2>1 DEF processChapter
    <2>6. ShownOutput = users /\ ShownTests = tests /\ code \in 0..3
      BY <1>4 DEF ShownOutput, ShownTests
    <2> HIDE DEF t
    <2>7. Response = Respond(code, ShownOutput, ShownTests)
      BY <2>3, <2>4, <2>5, <2>6
    <2> QED
      BY <1>1, <1>s, <2>6, <2>7 DEF Text
  <1>5. CASE verdict = "ok" /\ ~separator /\ action # "Playground"
    <2>1. t = users \o Spell("user_solution_ok") /\ getExitCode(t) = 0
      BY <1>5, <1>c, VerdictText, Zenon DEF CodeOf
    <2>2. ShownOutput = users \o Spell("user_solution_ok")
      BY <1>5 DEF ShownOutput
    <2>3. ShownTests = SubSeq(users \o Spell("user_solution_ok"), 21,
                              IF Len(users) < 20 THEN Len(users) + 25 ELSE Len(users))
      BY <1>5, Zenon DEF ShownTests
    <2>4. getMessageOutput(0, t) = Respond(0, ShownOutput, ShownTests)
      BY <1>o, <2>1, <2>2, <2>3, UntestedOutput, Zenon
    <2>5. Response = processChapter(t) /\ processChapter(t) = getMessageOutput(0, t)
      BY <1>5, <2>1 DEF Response, processChapter
    <2>6. ShownOutput \in Text /\ ShownTests \in Text
      <3>1. Spell("user_solution_ok") \in Seq(Char) /\ Len(Spell("user_solution_ok")) = 25
        <4>1. "user_solution_ok" \in Pieces
          BY DEF Pieces
        <4> QED
          BY <4>1, Spelled, Widths, Zenon
      <3>2. ShownOutput \in Seq(Char) /\ Len(users) \in Nat /\ Len(ShownOutput) = Len(users) + 25
        <4>1. PICK q \in Seq(Char) : q = Spell("user_solution_ok") /\ Len(q) = 25
          BY <3>1, Zenon
        <4>2. PICK a \in Seq(Char) : a = users
          BY <1>s, Zenon
        <4>3. a \o q \in Seq(Char) /\ Len(a) \in Nat /\ Len(a \o q) = Len(a) + Len(q)
          BY Joined, Zenon
        <4> QED
          BY <2>2, <4>1, <4>2, <4>3, Zenon
      <3>3. SubSeq(ShownOutput, 21, Len(users) + 25) \in Seq(Char)
            /\ SubSeq(ShownOutput, 21, Len(users)) \in Seq(Char)
        <4>1. PICK o \in Seq(Char) : o = ShownOutput
          BY <3>2
        <4>2. ASSUME NEW n \in Nat, n <= Len(o) PROVE SubSeq(o, 21, n) \in Seq(Char)
          <5>1. \A j \in 21..n : o[j] \in Char
            BY <4>2
          <5> QED
            BY <5>1
        <4> QED
          BY <3>2, <4>1, <4>2
      <3> QED
        BY <2>2, <2>3, <3>2, <3>3 DEF Text
    <2> HIDE DEF t
    <2> QED
      BY <1>1, <2>4, <2>5, <2>6
  <1>6. verdict = "tests_error" => action # "Playground"
    BY DEF AInv
  <1> QED
    BY <1>2, <1>3, <1>4, <1>5, <1>6 DEF MarkVerdicts

-----------------------------------------------------------------------------
(* The inductive invariant.                                                *)

\* What an action that gives no answer must keep.
Goes ==
    /\ UNCHANGED <<action, newline, separator, answer>>
    /\ stage # "answered" /\ stage' \in {"program", "tests", "ended"}
    /\ verdict' \in Verdicts
    /\ users' \in Texts /\ Len(users') <= MaxPrints + 1
    /\ tests' \in Texts /\ Len(tests') <= MaxPrints + 1
    /\ stage' = "tests" \/ verdict' = "tests_error" => separator
    /\ action = "Playground" => tests' = << >> /\ verdict' # "tests_error"
    /\ message' \in Text
    /\ Len(message') <= 2 * MaxPrints + (IF verdict' \in UtilCodes THEN 60 ELSE 55)
    /\ Printed'

LEMMA Going == AInv /\ Goes => AInv'
  <1> SUFFICES ASSUME AInv, Goes PROVE AInv'
    OBVIOUS
  <1>2. TypeOK'
    BY DEF AInv, TypeOK, Goes
  <1> QED
    BY <1>2, Zenon DEF AInv, Goes

\* The texts of program and tests, alone and followed by one mark.
LEMMA Lengths ==
    ASSUME AInv, NEW p \in Escapes
    PROVE  /\ users \in Seq(Char) /\ tests \in Seq(Char) /\ Tested \in Seq(Char)
           /\ Len(Tested) \in Nat /\ Len(Tested) <= 2 * MaxPrints + 25
           /\ users \o Line(p) \in Text /\ Len(users \o Line(p)) <= 2 * MaxPrints + 55
           /\ Tested \o Line(p) \in Text /\ Len(Tested \o Line(p)) <= 2 * MaxPrints + 55
  <1>1. /\ users \in Of(Outputs) /\ tests \in Of(Outputs) /\ newline \in BOOLEAN
        /\ Len(users) \in Nat /\ Len(tests) \in Nat
        /\ Len(users) <= MaxPrints + 1 /\ Len(tests) <= MaxPrints + 1
        /\ \A m : Line(m) = Marked(newline, m)
    BY Outcome
  <1>2. users \in Seq(Char) /\ tests \in Seq(Char)
    <2>1. Outputs \in SUBSET Pieces
      BY EndMarksAre
    <2> QED
      BY <1>1, <2>1, OfText
  <1>3. MaxPrints \in Nat
    BY Wraps
  <1>4. /\ p \in Pieces /\ Width(p) \in 21..28
        /\ "user_code_ok" \in Pieces /\ Width("user_code_ok") = 21
    BY EscapesAre, EndMarksAre, Widths, Zenon
  <1> DEFINE k == Marked(newline, "user_code_ok")
             q == Marked(newline, p)
  <1>5. /\ users \o (k \o tests) \in Seq(Char)
        /\ Len(users \o (k \o tests)) = Len(users) + (Len(k) + Len(tests))
        /\ Len(k) \in Nat /\ Len(k) <= 21 + 2
    BY <1>1, <1>2, <1>4, TestedText
  <1>6. Tested = users \o (k \o tests)
    BY <1>1, Zenon DEF Tested
  <1> HIDE DEF k
  <1>7. Tested \in Seq(Char) /\ Len(Tested) \in Nat /\ Len(Tested) <= 2 * MaxPrints + 25
    BY <1>1, <1>3, <1>5, <1>6
  <1>8. /\ users \o q \in Seq(Char) /\ Len(users \o q) = Len(users) + Len(q)
        /\ Len(q) \in Nat /\ Len(q) <= Width(p) + 2
    BY <1>1, <1>2, <1>4, TestedText
  <1>10. Line(p) = q
    BY <1>1
  <1> HIDE DEF q
  <1>11. Len(users \o q) <= 2 * MaxPrints + 55 /\ Len(Tested \o q) <= 2 * MaxPrints + 55
    <2>1. Len(q) \in Nat /\ Len(q) <= Width(p) + 2
      BY <1>8
    <2>2. Width(p) \in 21..28
      BY <1>4
    <2>3. Len(users) \in Nat /\ Len(users) <= MaxPrints + 1
      BY <1>1
    <2>4. Len(Tested) \in Nat /\ Len(Tested) <= 2 * MaxPrints + 25
      BY <1>7
    <2>5. Len(users) + Len(q) <= 2 * MaxPrints + 55
      BY <1>3, <2>1, <2>2, <2>3
    <2>6. Len(Tested) + Len(q) <= 2 * MaxPrints + 55
      BY <1>3, <2>1, <2>2, <2>4
    <2> QED
      BY <2>5, <2>6
  <1> QED
    BY <1>2, <1>7, <1>8, <1>10, <1>11 DEF Text

LEMMA InitAInv == Init => AInv
  <1> SUFFICES ASSUME Init PROVE AInv
    OBVIOUS
  <1>1. << >> \in Texts /\ Len(<< >>) = 0 /\ << >> \in Text
    <2>1. << >> \in Seq(Printable) /\ Len(<< >>) = 0 /\ << >> \in Text
      BY DEF Text
    <2>2. MaxPrints \in Nat
      BY Wraps
    <2>3. 0 <= 2 * MaxPrints
      BY <2>2
    <2> QED
      BY <2>1, <2>3, TextsAre, Zenon
  <1>2. MaxPrints \in Nat
    BY Wraps
  <1>3. SeparatorOf[action] \subseteq BOOLEAN
    BY AnswersAssumption DEF Init
  <1>4. TypeOK
    BY <1>1, <1>3 DEF Init, TypeOK, Verdicts
  <1>5. Printed
    BY DEF Init, Printed, UtilCodes
  <1> QED
    BY <1>1, <1>2, <1>4, <1>5 DEF Init, AInv, UtilCodes

\* Program and tests print, and what they print is at the end of the text.
LEMMA PrintsStep ==
    ASSUME AInv, NEW piece \in Outputs, Prints(piece)
    PROVE  AInv'
  <1>1. /\ users \in Texts /\ tests \in Texts /\ newline \in BOOLEAN /\ verdict = "none"
        /\ Len(users) <= MaxPrints + 1 /\ Len(tests) <= MaxPrints + 1
    BY DEF AInv, TypeOK, Printed, Prints
  <1>2. users \in Seq(Char) /\ tests \in Seq(Char)
    BY Lengths DEF Escapes
  <1>3. piece \in Pieces /\ "user_code_ok" \in Pieces /\ Spell(piece) \in Seq(Char)
    <2>1. piece \in Pieces /\ "user_code_ok" \in Pieces
      BY EndMarksAre
    <2> QED
      BY <2>1, Spelled
  <1>4. MaxPrints \in Nat
    BY Wraps
  <1>5. UNCHANGED <<action, newline, separator, stage, verdict, answer>>
        /\ message' = message \o Spell(piece) /\ stage \in {"program", "tests"}
    BY DEF Prints
  <1>6. CASE stage = "program"
    <2>1. /\ Len(users) < MaxPrints /\ users' = users \o Spell(piece) /\ tests' = tests
          /\ message = users /\ tests = << >>
      BY <1>6, Zenon DEF Prints, AInv, Printed
    <2>2. users' \in Texts /\ Len(users') <= MaxPrints + 1
      BY <1>1, <2>1, TextsGrow
    <2>3. users' \in Seq(Char) /\ message' = users'
      BY <1>2, <1>3, <1>5, <2>1, Joined, Zenon
    <2>5. Len(users') <= 2 * MaxPrints + 55
      BY <1>4, <2>2
    <2>6. Printed'
      BY <1>1, <1>5, <1>6, <2>1 DEF Printed, UtilCodes
    <2>7. Goes
      BY <1>1, <1>5, <1>6, <2>1, <2>2, <2>3, <2>5, <2>6, SMTT(30) DEF Goes, Verdicts, UtilCodes, Text
    <2> QED
      BY <2>7, Going
  <1>7. CASE stage = "tests"
    <2>1. /\ Len(tests) < MaxPrints /\ tests' = tests \o Spell(piece) /\ users' = users
          /\ message = Tested /\ separator /\ action # "Playground"
      BY <1>7, Zenon DEF Prints, AInv, Printed
    <2>2. tests' \in Texts /\ Len(tests') <= MaxPrints + 1
      BY <1>1, <2>1, TextsGrow
    <2>3. tests' \in Seq(Char)
      BY <1>2, <1>3, <2>1
    <2> DEFINE k == Line("user_code_ok")
    <2>4. k \in Seq(Char) /\ Len(k) \in Nat /\ Len(k) <= 23
      <3>1. k = Marked(newline, "user_code_ok")
        BY Outcome
      <3>2. Width("user_code_ok") = 21
        BY Widths
      <3> HIDE DEF k
      <3>3. k \in Seq(Char) /\ Len(k) \in Nat /\ Len(k) <= Width("user_code_ok") + 2
        BY <1>1, <1>3, <3>1, TestedText
      <3> QED
        BY <3>2, <3>3
    <2>5. Tested = users \o (k \o tests) /\ Tested' = users \o (k \o tests')
      BY <1>5, <2>1, Zenon DEF Tested, Line
    <2> HIDE DEF k
    <2>6. message' = Tested'
      <3>1. k \o tests \in Seq(Char)
        BY <1>2, <2>4
      <3>2. (users \o (k \o tests)) \o Spell(piece) = users \o ((k \o tests) \o Spell(piece))
        BY <1>2, <1>3, <3>1, Assoc, ZenonT(30)
      <3>3. (k \o tests) \o Spell(piece) = k \o (tests \o Spell(piece))
        BY <1>2, <1>3, <2>4, Assoc, ZenonT(30)
      <3> QED
        BY <1>5, <2>1, <2>5, <3>2, <3>3
    <2>7. Tested' \in Seq(Char) /\ Len(Tested') <= 2 * MaxPrints + 55
      <3>1. k \o tests' \in Seq(Char) /\ Len(k \o tests') = Len(k) + Len(tests') /\ Len(tests') \in Nat
        BY <2>3, <2>4
      <3>2. Tested' \in Seq(Char) /\ Len(Tested') = Len(users) + Len(k \o tests') /\ Len(users) \in Nat
        BY <1>2, <2>5, <3>1, Joined, Zenon
      <3>4. Len(k) \in Nat /\ Len(k) <= 23 /\ Len(tests') \in Nat /\ Len(users) \in Nat
        BY <2>4
      <3>5. Len(tests') <= MaxPrints + 1 /\ Len(users) <= MaxPrints + 1
        BY <1>1, <2>2
      <3>6. Len(users) + (Len(k) + Len(tests')) <= 2 * MaxPrints + 55
        BY <1>4, <3>4, <3>5
      <3> QED
        BY <3>2, <3>6
    <2>8. Printed'
      BY <1>1, <1>5, <1>7, <2>6 DEF Printed, UtilCodes
    <2>9. Goes
      BY <1>1, <1>5, <1>7, <2>1, <2>2, <2>6, <2>7, <2>8, ZenonT(30) DEF Goes, Verdicts, UtilCodes, Text
    <2> QED
      BY <2>9, Going
  <1> QED
    BY <1>5, <1>6, <1>7

\* The mark between program and tests.
LEMMA StartTestsStep == AInv /\ StartTests => AInv'
  <1> SUFFICES ASSUME AInv, StartTests PROVE AInv'
    OBVIOUS
  <1>1. /\ users \in Texts /\ tests \in Texts /\ verdict = "none" /\ message = users
        /\ Len(users) <= MaxPrints + 1 /\ Len(tests) <= MaxPrints + 1 /\ tests = << >>
    BY DEF AInv, TypeOK, Printed, StartTests
  <1>2. /\ UNCHANGED <<action, newline, separator, users, tests, verdict, answer>>
        /\ stage = "program" /\ stage' = "tests" /\ separator
        /\ message' = users \o Line("user_code_ok")
    BY <1>1 DEF StartTests
  <1>3. users \o Line("user_code_ok") \in Text /\ Len(users \o Line("user_code_ok")) <= 2 * MaxPrints + 55
    BY Lengths DEF Escapes
  <1>5. Tested' = users \o Line("user_code_ok")
    <2>1. Tested' = users \o (Line("user_code_ok") \o tests)
      BY <1>2 DEF Tested, Line
    <2> QED
      BY <1>1, <2>1
  <1>6. Printed'
    BY <1>1, <1>2, <1>5 DEF Printed, UtilCodes
  <1>7. Goes
    BY <1>1, <1>2, <1>3, <1>6 DEF Goes, Verdicts, UtilCodes
  <1> QED
    BY <1>7, Going

\* The marks a script ends with.
LEMMA EndStep ==
    ASSUME AInv, UserError \/ TestsError \/ SolutionOk
    PROVE  AInv'
  <1>1. /\ users \in Texts /\ tests \in Texts /\ separator \in BOOLEAN
        /\ Len(users) <= MaxPrints + 1 /\ Len(tests) <= MaxPrints + 1
        /\ stage = "tests" => separator
        /\ action = "Playground" => tests = << >>
        /\ stage = "program" => message = users
        /\ stage = "tests" => message = Tested
    BY DEF AInv, TypeOK, Printed
  <1>2. /\ UNCHANGED <<action, newline, separator, users, tests, answer>>
        /\ stage \in {"program", "tests"} /\ stage' = "ended"
        /\ verdict' \in {"user_error", "tests_error", "ok"}
    BY Zenon DEF UserError, TestsError, SolutionOk, End
  <1>3. Tested' = Tested /\ \A m : Line(m)' = Line(m)
    BY <1>2 DEF Tested, Line
  <1>4. \A m \in Escapes : /\ users \o Line(m) \in Text /\ Len(users \o Line(m)) <= 2 * MaxPrints + 55
                           /\ Tested \o Line(m) \in Text /\ Len(Tested \o Line(m)) <= 2 * MaxPrints + 55
    BY Lengths
  <1>5. CASE UserError
    <2>1. message' = users \o Line("user_solution_error") /\ verdict' = "user_error"
      BY <1>1, <1>5 DEF UserError, End
    <2>2. Printed'
      BY <1>2, <1>3, <2>1 DEF Printed, UtilCodes
    <2>3. message' \in Text /\ Len(message') <= 2 * MaxPrints + 55
      BY <1>4, <2>1 DEF Escapes
    <2>4. Goes
      BY <1>1, <1>2, <2>1, <2>2, <2>3 DEF Goes, Verdicts, MarkVerdicts, UtilCodes
    <2> QED
      BY <2>4, Going
  <1>6. CASE TestsError
    <2>1. /\ message' = Tested \o Line("tests_cases_error") /\ verdict' = "tests_error"
          /\ separator /\ action # "Playground"
      BY <1>1, <1>6 DEF TestsError, End
    <2>2. Printed'
      BY <1>2, <1>3, <2>1 DEF Printed, UtilCodes
    <2>3. message' \in Text /\ Len(message') <= 2 * MaxPrints + 55
      BY <1>4, <2>1 DEF Escapes
    <2>4. Goes
      BY <1>1, <1>2, <2>1, <2>2, <2>3 DEF Goes, Verdicts, MarkVerdicts, UtilCodes
    <2> QED
      BY <2>4, Going
  <1>7. CASE SolutionOk
    <2>1. /\ message' = (IF separator THEN Tested ELSE users) \o Line("user_solution_ok")
          /\ verdict' = "ok"
      BY <1>1, <1>7, Zenon DEF SolutionOk, End
    <2>2. Printed'
      <3>1. separator' = separator /\ users' = users
        BY <1>2
      <3>2. message' = ((IF separator THEN Tested ELSE users) \o Line("user_solution_ok"))'
        BY <1>3, <2>1, <3>1, Zenon
      <3> QED
        BY <1>2, <2>1, <3>2, Zenon DEF Printed, UtilCodes
    <2>3. message' \in Text /\ Len(message') <= 2 * MaxPrints + 55
      <3>1. "user_solution_ok" \in Escapes
        BY DEF Escapes
      <3> QED
        BY <1>4, <2>1, <3>1
    <2>4. Goes
      BY <1>1, <1>2, <2>1, <2>2, <2>3 DEF Goes, Verdicts, MarkVerdicts, UtilCodes
    <2> QED
      BY <2>4, Going
  <1> QED
    BY <1>5, <1>6, <1>7

\* The timeout utility's code ends the text.
LEMMA StoppedStep ==
    ASSUME AInv, NEW code \in UtilCodes, Stopped(code)
    PROVE  AInv'
  <1>1. /\ users \in Texts /\ tests \in Texts /\ message \in Seq(Char)
        /\ Len(users) <= MaxPrints + 1 /\ Len(tests) <= MaxPrints + 1
        /\ action = "Playground" => tests = << >>
    BY DEF AInv, TypeOK, Text
  <1>2. /\ UNCHANGED <<action, newline, separator, users, tests, answer>>
        /\ stage # "answered" /\ stage' = "ended" /\ verdict' = code
        /\ message' = message \o Escaped(code)
    BY DEF Stopped
  <1>3. verdict \notin UtilCodes
    BY Zenon DEF Stopped, AInv, Printed, MarkVerdicts, UtilCodes
  <1>4. Len(message) <= 2 * MaxPrints + 55 /\ MaxPrints \in Nat
    BY <1>3, Wraps DEF AInv
  <1>5. Escaped(code) \in Seq(Char) /\ Len(Escaped(code)) = 5
    <2>1. code \in Pieces /\ Width(code) = 3
      BY EscapesAre
    <2>2. Escaped(code) \in Seq(Char) /\ Len(Escaped(code)) = Width(code) + 2
      BY <2>1, EscapedIs, Zenon
    <2> QED
      BY <2>1, <2>2
  <1>6. message' \in Seq(Char) /\ ends_with(message', Escaped(code))
    BY <1>1, <1>2, <1>5, Joined, JoinEnds, Zenon
  <1>7. Len(message') <= 2 * MaxPrints + 60
    <2>1. Len(message') = Len(message) + Len(Escaped(code)) /\ Len(message) \in Nat
      BY <1>1, <1>2, <1>5, Joined, Zenon
    <2>2. Len(message) \in Nat /\ Len(Escaped(code)) = 5
      BY <1>5
    <2>3. Len(message) + Len(Escaped(code)) <= 2 * MaxPrints + 60
      BY <1>4, <2>2
    <2> QED
      BY <2>1, <2>3
  <1>8. Printed'
    BY <1>2, <1>6, Zenon DEF Printed, UtilCodes
  <1>9. Goes
    BY <1>1, <1>2, <1>6, <1>7, <1>8, SMTT(30) DEF Goes, Verdicts, UtilCodes, Text
  <1> QED
    BY <1>9, Going

\* The output ends without a verdict.
LEMMA SilentStep == AInv /\ Silent => AInv'
  <1> SUFFICES ASSUME AInv, Silent PROVE AInv'
    OBVIOUS
  <1>1. verdict = "none" /\ (message = users \/ message = Tested)
    BY Zenon DEF AInv, Printed, Silent
  <1>2. /\ UNCHANGED <<action, newline, separator, message, users, tests, verdict, answer>>
        /\ stage # "answered" /\ stage' = "ended"
    BY DEF Silent
  <1>3. Tested' = Tested
    BY <1>2 DEF Tested, Line
  <1>4. Printed'
    BY <1>1, <1>2, <1>3 DEF Printed, UtilCodes
  <1>5. Goes
    BY <1>2, <1>4 DEF Goes, AInv, TypeOK, UtilCodes
  <1> QED
    BY <1>5, Going

\* The daemon's message.
LEMMA ExecFailsStep == AInv /\ ExecFails => AInv'
  <1> SUFFICES ASSUME AInv, ExecFails PROVE AInv'
    OBVIOUS
  <1>1. /\ UNCHANGED <<action, newline, separator, users, tests, answer>>
        /\ stage # "answered" /\ stage' = "ended" /\ verdict' = "exec_failed"
        /\ message' = Spell("daemon_error")
    BY DEF ExecFails
  <1>2. Spell("daemon_error") \in Seq(Char) /\ Len(Spell("daemon_error")) = 1
    <2>1. "daemon_error" \in Pieces /\ Width("daemon_error") = 1
      BY DEF Pieces, Width
    <2> QED
      BY <2>1, Spelled, Zenon
  <1>3. 1 <= 2 * MaxPrints + 55
    BY Wraps
  <1>4. Printed'
    BY <1>1 DEF Printed, UtilCodes
  <1>5. Goes
    BY <1>1, <1>2, <1>3, <1>4, Zenon DEF Goes, AInv, TypeOK, Verdicts, UtilCodes, Text
  <1> QED
    BY <1>5, Going

\* The answer is read from a text that stays as it is.
LEMMA runCodeStep == AInv /\ runCode => AInv'
  <1> SUFFICES ASSUME AInv, runCode PROVE AInv'
    OBVIOUS
  <1>1. /\ UNCHANGED <<action, newline, separator, message, users, tests, verdict>>
        /\ stage = "ended" /\ stage' = "answered" /\ answer' = Reply
    BY DEF runCode
  <1>2. /\ answer' # nullopt /\ answer'.status_code \in -1..3 \cup {124, 125, 137}
    BY <1>1, ReplyType
  <1>3. TypeOK'
    BY <1>1, <1>2 DEF AInv, TypeOK
  <1>4. Tested' = Tested /\ \A m : Line(m)' = Line(m)
    BY <1>1 DEF Tested, Line
  <1>5. Printed'
    BY <1>1, <1>4, Zenon DEF AInv, Printed
  <1>6. Reply' = Reply
    BY <1>1 DEF Reply
  <1> QED
    BY <1>1, <1>3, <1>5, <1>6 DEF AInv

LEMMA NextAInv == AInv /\ [Next]_vars => AInv'
  <1> SUFFICES ASSUME AInv, [Next]_vars PROVE AInv'
    OBVIOUS
  <1>1. ASSUME NEW piece \in {"out", "CRLF"}, Prints(piece) PROVE AInv'
    BY <1>1, PrintsStep DEF Outputs
  <1>2. CASE StartTests
    BY <1>2, StartTestsStep
  <1>3. CASE UserError \/ TestsError \/ SolutionOk
    BY <1>3, EndStep
  <1>4. ASSUME NEW code \in UtilCodes, Stopped(code) PROVE AInv'
    BY <1>4, StoppedStep
  <1>5. CASE Silent
    BY <1>5, SilentStep
  <1>6. CASE ExecFails
    BY <1>6, ExecFailsStep
  <1>7. CASE runCode
    BY <1>7, runCodeStep
  <1>8. CASE UNCHANGED vars
    <2>1. UNCHANGED <<action, newline, separator, stage, message, users, tests, verdict, answer>>
      BY <1>8 DEF vars
    <2>2. TypeOK' = TypeOK
      BY <2>1 DEF TypeOK
    <2>3. Tested' = Tested /\ \A m : Line(m)' = Line(m)
      BY <2>1 DEF Tested, Line
    <2>4. Printed'
      BY <2>1, <2>3, Zenon DEF AInv, Printed
    <2>5. Reply' = Reply
      BY <2>1 DEF Reply
    <2> QED
      BY <2>1, <2>2, <2>4, <2>5 DEF AInv
  <1>9. Answered => UNCHANGED vars
    BY DEF Answered
  <1> QED
    BY <1>1, <1>2, <1>3, <1>4, <1>5, <1>6, <1>7, <1>8, <1>9 DEF Next

-----------------------------------------------------------------------------
(* Theorems.                                                               *)

\* The text runCode reads consists of the outputs and the marks of the script, or ends
\* with the code of the timeout utility, and the answer is the one read from it, however
\* much is printed and whichever scripts print user_code_ok.
THEOREM AnswersInvariant == Spec => []AInv
  BY InitAInv, NextAInv, PTL DEF Spec

\* Status codes are those of ExitCodes and of the timeout utility, and there is an
\* answer exactly when runCode has returned.
THEOREM AnswersTypeCorrect == Spec => []TypeOK
  <1>1. AInv => TypeOK
    BY DEF AInv
  <1> QED
    BY <1>1, AnswersInvariant, PTL

\* No substr of getMessageOutput, getUserOutput or the playground's reader throws
\* std::out_of_range, for any width of size_t that can count the text.
THEOREM AnswersNeverOutOfRange == Spec => []NeverOutOfRange
  <1>1. AInv => NeverOutOfRange
    <2> SUFFICES ASSUME AInv PROVE NeverOutOfRange
      OBVIOUS
    <2>1. CASE stage = "answered"
      BY <2>1, ReplyType DEF AInv, NeverOutOfRange
    <2>2. CASE stage # "answered"
      BY <2>2, AnswersAssumption DEF AInv, TypeOK, NeverOutOfRange
    <2> QED
      BY <2>1, <2>2
  <1> QED
    BY <1>1, AnswersInvariant, PTL

\* getExitCode finds the verdict of every script: the mark it ended with, the code of
\* the timeout utility even after a mark, Unknown when there is neither.
THEOREM AnswersCodeTellsVerdict == Spec => []CodeTellsVerdict
  <1>1. AInv => CodeTellsVerdict
    BY ReplyType DEF AInv, CodeTellsVerdict
  <1> QED
    BY <1>1, AnswersInvariant, PTL

\* removeEscapeSequencesTender, getMessageOutput, getUserOutput and the playground's reader
\* give back what the program and its tests printed, to the character, for outputs of any
\* length; when the script does not print user_code_ok where the reader searches for it
\* they give what ShownOutput and ShownTests say, a mark included.
THEOREM AnswersShowOutput == Spec => []AnswerShowsOutput
  <1>1. AInv => AnswerShowsOutput
    <2> SUFFICES ASSUME AInv, stage = "answered", verdict \in MarkVerdicts
                 PROVE  answer.user_code_output = ShownOutput /\ answer.tests_output = ShownTests
      BY DEF AnswerShowsOutput
    <2>1. answer = Reply
      BY DEF AInv
    <2> QED
      BY <2>1, ReplyOutputs
  <1> QED
    BY <1>1, AnswersInvariant, PTL
=============================================================================
