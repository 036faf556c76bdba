----------------------------- MODULE StringProofs ----------------------------
(***************************************************************************)
(* The string functions on strings and needles of any length and with any  *)
(* number of calls of strtok: StringsInv is kept by every step.            *)
(***************************************************************************)
EXTENDS StringLib, SequenceTheorems, WellFoundedInduction, TLAPS

------------------------------------------------------------------------------
(* Loops *)

\* A set of natural numbers has a least element.
LEMMA LeastOf ==
    ASSUME NEW places \in SUBSET Nat, places # {}
    PROVE  \E i \in places : \A j \in places : i <= j
<1> DEFINE R == OpToRel(<, Nat)
<1>1. IsWellFoundedOn(R, Nat)
  BY NatLessThanWellFounded
<1>2. \A i, j \in Nat : <<j, i>> \in R <=> j < i
  BY DEF OpToRel
<1> HIDE DEF R
<1>3. PICK i \in places : \A j \in places : ~(<<j, i>> \in R)
  BY <1>1, WFMin
<1>4. ASSUME NEW j \in places
      PROVE  i <= j
  <2>1. ~(<<j, i>> \in R) /\ i \in Nat /\ j \in Nat
    BY <1>3
  <2>2. ~(j < i)
    BY <2>1, <1>2, Zenon
  <2> QED
    BY <2>1, <2>2
<1> QED
  BY <1>4

\* f[i] is the result of a loop that is in round i, stops in the rounds of stops, the
\* last of which is m, and gives g[k] when it stops in round k.
Loop(f, m, stops, g) ==
    f = [i \in 0..m |-> IF i \in stops THEN g[i] ELSE f[i + 1]]

\* The round in which it stops that has not stopped before round i.
StopsAt(k, i, stops) == k \in stops /\ i <= k /\ \A j \in stops : i <= j => k <= j

LEMMA LoopStops ==
    ASSUME NEW m \in Nat, NEW stops \in SUBSET (0..m), m \in stops, NEW i \in 0..m
    PROVE  \E k \in 0..m : StopsAt(k, i, stops)
<1> DEFINE later == {j \in stops : i <= j}
<1>1. later \in SUBSET Nat /\ m \in later
  <2>1. i <= m /\ stops \in SUBSET Nat
    OBVIOUS
  <2> QED
    BY <2>1
<1>2. PICK k \in later : \A j \in later : k <= j
  BY <1>1, LeastOf
<1> QED
  BY <1>2 DEF StopsAt

LEMMA LoopExists ==
    ASSUME NEW m \in Nat, NEW stops \in SUBSET (0..m), m \in stops, NEW g
    PROVE  \E f : Loop(f, m, stops, g)
<1> DEFINE at(i) == CHOOSE k \in 0..m : StopsAt(k, i, stops)
           f == [i \in 0..m |-> g[at(i)]]
<1>1. \A i \in 0..m : at(i) \in 0..m /\ StopsAt(at(i), i, stops)
  BY LoopStops
<1>2. ASSUME NEW i \in 0..m, NEW k \in 0..m, StopsAt(k, i, stops)
      PROVE  at(i) = k
  <2> HIDE DEF at
  <2> QED
    BY <1>1, <1>2 DEF StopsAt
<1> HIDE DEF at
<1>3. ASSUME NEW i \in 0..m
      PROVE  f[i] = IF i \in stops THEN g[i] ELSE f[i + 1]
  <2>1. CASE i \in stops
    <3>1. StopsAt(i, i, stops)
      BY <2>1 DEF StopsAt
    <3> QED
      BY <1>2, <2>1, <3>1
  <2>2. CASE i \notin stops
    <3>1. i + 1 \in 0..m
      BY <2>2
    <3>2. StopsAt(at(i + 1), i, stops)
      <4>1. StopsAt(at(i + 1), i + 1, stops)
        BY <1>1, <3>1
      <4>2. ASSUME NEW j \in stops, i <= j
            PROVE  i + 1 <= j
        BY <2>2, <4>2
      <4>3. at(i + 1) \in 0..m
        BY <1>1, <3>1
      <4> QED
        BY <4>1, <4>2, <4>3 DEF StopsAt
    <3>3. at(i) = at(i + 1)
      BY <1>1, <1>2, <3>1, <3>2
    <3> QED
      BY <2>2, <3>1, <3>3
  <2> QED
    BY <2>1, <2>2
<1>4. f = [i \in 0..m |-> IF i \in stops THEN g[i] ELSE f[i + 1]]
  BY <1>3
<1> HIDE DEF f
<1> QED
  BY <1>4 DEF Loop

LEMMA LoopValue ==
    ASSUME NEW m \in Nat, NEW stops \in SUBSET (0..m), m \in stops, NEW g,
           NEW f, Loop(f, m, stops, g), NEW i \in 0..m, NEW k \in 0..m, StopsAt(k, i, stops)
    PROVE  f[i] = g[k]
<1> DEFINE wrong == {n \in Nat : k - n \in i..k /\ f[k - n] # g[k]}
<1> SUFFICES ASSUME f[i] # g[k] PROVE FALSE
  OBVIOUS
<1>1. i <= k /\ k \in stops /\ \A j \in stops : i <= j => k <= j
  BY DEF StopsAt
<1>2. wrong \in SUBSET Nat /\ wrong # {}
  <2>1. k - i \in Nat /\ k - (k - i) = i
    BY <1>1
  <2>2. k - i \in wrong
    BY <1>1, <2>1
  <2> QED
    BY <2>2
<1>3. PICK n \in wrong : \A l \in wrong : n <= l
  <2> HIDE DEF wrong
  <2> QED
    BY <1>2, LeastOf
<1>4. PICK j \in i..k : j = k - n /\ f[j] # g[k]
  OBVIOUS
<1>5. f[j] = IF j \in stops THEN g[j] ELSE f[j + 1]
  BY DEF Loop
<1>6. CASE j = k
  BY <1>1, <1>4, <1>5, <1>6
<1>7. CASE j # k
  <2>1. j \notin stops /\ n > 0 /\ j + 1 = k - (n - 1) /\ j + 1 \in i..k /\ n - 1 \in Nat
    BY <1>1, <1>4, <1>7
  <2>2. n - 1 \in wrong
    BY <1>4, <1>5, <2>1
  <2> QED
    BY <1>3, <2>1, <2>2
<1> QED
  BY <1>6, <1>7

\* What a loop gives that starts with round 0.
LEMMA LoopGives ==
    ASSUME NEW m \in Nat, NEW stops \in SUBSET (0..m), m \in stops, NEW g,
           NEW f, Loop(f, m, stops, g)
    PROVE  \E k \in stops : f[0] = g[k] /\ \A j \in 0..(k - 1) : j \notin stops
<1>1. PICK k \in 0..m : StopsAt(k, 0, stops)
  BY LoopStops
<1>2. f[0] = g[k]
  BY <1>1, LoopValue
<1>3. \A j \in 0..(k - 1) : j \notin stops
  BY <1>1 DEF StopsAt
<1> QED
  BY <1>1, <1>2, <1>3 DEF StopsAt

------------------------------------------------------------------------------
(* The functions, each by the round in which its loop stops *)

\* Memory holds a string that ends at End, and possibly before.
Memory ==
    /\ End \in Nat
    /\ Chars \subseteq 1..127
    /\ mem \in [0..End -> Chars \cup {0}]
    /\ mem[End] = 0

\* From address s on, k characters of the string are in accept and the next is not.
Spans(s, accept, k) ==
    /\ k \in 0..(End - s)
    /\ \A j \in 0..(k - 1) : mem[s + j] # 0 /\ mem[s + j] \in accept
    /\ mem[s + k] = 0 \/ mem[s + k] \notin accept

LEMMA SpanRuns ==
    ASSUME Memory, NEW s \in 0..End, NEW accept
    PROVE  Spans(s, accept, strspn(s, accept))
<1> DEFINE m == End - s
           stops == {i \in 0..m : mem[s + i] = 0 \/ mem[s + i] \notin accept}
           H(h) == h = [i \in 0..m |->
                          IF mem[s + i] = 0 \/ mem[s + i] \notin accept THEN i ELSE h[i + 1]]
           f == CHOOSE h : H(h)
           g == [i \in 0..m |-> i]
<1>1. m \in Nat /\ s + m = End
  BY DEF Memory
<1>2. stops \in SUBSET (0..m) /\ m \in stops
  BY <1>1 DEF Memory
<1>3. \A h : Loop(h, m, stops, g) <=> H(h)
  <2> SUFFICES ASSUME NEW h PROVE Loop(h, m, stops, g) <=> H(h)
    OBVIOUS
  <2>1. [i \in 0..m |-> IF i \in stops THEN g[i] ELSE h[i + 1]]
          = [i \in 0..m |->
               IF mem[s + i] = 0 \/ mem[s + i] \notin accept THEN i ELSE h[i + 1]]
    OBVIOUS
  <2> QED
    BY <2>1 DEF Loop
<1>4. Loop(f, m, stops, g)
  <2>1. \E h : H(h)
    BY <1>1, <1>2, <1>3, LoopExists
  <2> HIDE DEF H
  <2> QED
    BY <1>3, <2>1
<1>5. strspn(s, accept) = f[0]
  BY DEF strspn
<1> HIDE DEF f, H
<1>6. PICK k \in stops : f[0] = g[k] /\ \A j \in 0..(k - 1) : j \notin stops
  <2> HIDE DEF m, stops, g
  <2> QED
    BY <1>1, <1>2, <1>4, LoopGives
<1>7. f[0] = k /\ k \in 0..m
  BY <1>6
<1>8. \A j \in 0..(k - 1) : j \in 0..m
  BY <1>1, <1>7
<1>9. \A j \in 0..(k - 1) : mem[s + j] # 0 /\ mem[s + j] \in accept
  BY <1>6, <1>8
<1> QED
  BY <1>5, <1>6, <1>7, <1>9 DEF Spans

\* strcspn counts what strspn counts with the other characters.
LEMMA RejectRuns ==
    ASSUME Memory, NEW s \in 0..End, NEW reject
    PROVE  Spans(s, Chars \ reject, strcspn(s, reject))
<1> DEFINE m == End - s
           stops == {i \in 0..m : mem[s + i] = 0 \/ mem[s + i] \in reject}
           H(h) == h = [i \in 0..m |->
                          IF mem[s + i] = 0 \/ mem[s + i] \in reject THEN i ELSE h[i + 1]]
           f == CHOOSE h : H(h)
           g == [i \in 0..m |-> i]
<1>1. m \in Nat /\ s + m = End
  BY DEF Memory
<1>2. stops \in SUBSET (0..m) /\ m \in stops
  BY <1>1 DEF Memory
<1>3. \A h : Loop(h, m, stops, g) <=> H(h)
  <2> SUFFICES ASSUME NEW h PROVE Loop(h, m, stops, g) <=> H(h)
    OBVIOUS
  <2>1. [i \in 0..m |-> IF i \in stops THEN g[i] ELSE h[i + 1]]
          = [i \in 0..m |->
               IF mem[s + i] = 0 \/ mem[s + i] \in reject THEN i ELSE h[i + 1]]
    OBVIOUS
  <2> QED
    BY <2>1 DEF Loop
<1>4. Loop(f, m, stops, g)
  <2>1. \E h : H(h)
    BY <1>1, <1>2, <1>3, LoopExists
  <2> HIDE DEF H
  <2> QED
    BY <1>3, <2>1
<1>5. strcspn(s, reject) = f[0]
  BY DEF strcspn
<1> HIDE DEF f, H
<1>6. PICK k \in stops : f[0] = g[k] /\ \A j \in 0..(k - 1) : j \notin stops
  <2> HIDE DEF m, stops, g
  <2> QED
    BY <1>1, <1>2, <1>4, LoopGives
<1>7. f[0] = k /\ k \in 0..m
  BY <1>6
<1>8. \A j \in 0..(k - 1) : j \in 0..m /\ s + j \in 0..End
  BY <1>1, <1>7
<1>9. \A j \in 0..(k - 1) : mem[s + j] # 0 /\ mem[s + j] \in Chars \ reject
  BY <1>6, <1>8 DEF Memory
<1>10. mem[s + k] = 0 \/ mem[s + k] \notin Chars \ reject
  BY <1>6
<1> QED
  BY <1>5, <1>7, <1>9, <1>10 DEF Spans

LEMMA LengthRuns ==
    ASSUME Memory, NEW s \in 0..End
    PROVE  Spans(s, Chars, strlen(s))
<1> DEFINE m == End - s
           stops == {i \in 0..m : mem[s + i] = 0}
           H(h) == h = [i \in 0..m |-> IF mem[s + i] = 0 THEN i ELSE h[i + 1]]
           f == CHOOSE h : H(h)
           g == [i \in 0..m |-> i]
<1>1. m \in Nat /\ s + m = End
  BY DEF Memory
<1>2. stops \in SUBSET (0..m) /\ m \in stops
  BY <1>1 DEF Memory
<1>3. \A h : Loop(h, m, stops, g) <=> H(h)
  <2> SUFFICES ASSUME NEW h PROVE Loop(h, m, stops, g) <=> H(h)
    OBVIOUS
  <2>1. [i \in 0..m |-> IF i \in stops THEN g[i] ELSE h[i + 1]]
          = [i \in 0..m |-> IF mem[s + i] = 0 THEN i ELSE h[i + 1]]
    OBVIOUS
  <2> QED
    BY <2>1 DEF Loop
<1>4. Loop(f, m, stops, g)
  <2>1. \E h : H(h)
    BY <1>1, <1>2, <1>3, LoopExists
  <2> HIDE DEF H
  <2> QED
    BY <1>3, <2>1
<1>5. strlen(s) = f[0]
  BY DEF strlen
<1> HIDE DEF f, H
<1>6. PICK k \in stops : f[0] = g[k] /\ \A j \in 0..(k - 1) : j \notin stops
  <2> HIDE DEF m, stops, g
  <2> QED
    BY <1>1, <1>2, <1>4, LoopGives
<1>7. f[0] = k /\ k \in 0..m
  BY <1>6
<1>8. \A j \in 0..(k - 1) : j \in 0..m /\ s + j \in 0..End
  BY <1>1, <1>7
<1>9. \A j \in 0..(k - 1) : mem[s + j] # 0 /\ mem[s + j] \in Chars
  BY <1>6, <1>8 DEF Memory
<1> QED
  BY <1>5, <1>6, <1>7, <1>9 DEF Spans

------------------------------------------------------------------------------
(* strncmp and strstr *)

\* The first k characters at s1 are those of s2.
SameUpTo(s1, s2, k) ==
    \A j \in 0..(k - 1) : mem[s1 + j] # 0 /\ mem[s1 + j] = CharAt(s2, j + 1)

\* strncmp stops after k equal characters, because they are enough or at the first
\* difference.
Compares(s1, s2, n, k) ==
    /\ k \in 0..(End - s1) /\ k <= n
    /\ SameUpTo(s1, s2, k)
    /\ \/ k = n /\ strncmp(s1, s2, n) = 0
       \/ /\ k < n
          /\ mem[s1 + k] = 0 \/ mem[s1 + k] # CharAt(s2, k + 1)
          /\ strncmp(s1, s2, n) = mem[s1 + k] - CharAt(s2, k + 1)

LEMMA CompareRuns ==
    ASSUME Memory, NEW s1 \in 0..End, NEW s2, NEW n \in Nat
    PROVE  \E k \in Nat : Compares(s1, s2, n, k)
<1> DEFINE m == End - s1
           stops == {i \in 0..m : \/ i = n \/ mem[s1 + i] = 0
                                  \/ mem[s1 + i] # CharAt(s2, i + 1)}
           H(h) == h = [i \in 0..m |->
                          IF i = n THEN 0
                          ELSE IF mem[s1 + i] = 0 \/ mem[s1 + i] # CharAt(s2, i + 1)
                               THEN mem[s1 + i] - CharAt(s2, i + 1)
                               ELSE h[i + 1]]
           f == CHOOSE h : H(h)
           g == [i \in 0..m |-> IF i = n THEN 0 ELSE mem[s1 + i] - CharAt(s2, i + 1)]
<1>1. m \in Nat /\ s1 + m = End
  BY DEF Memory
<1>2. stops \in SUBSET (0..m) /\ m \in stops
  BY <1>1 DEF Memory
<1>3. \A h : Loop(h, m, stops, g) <=> H(h)
  <2> SUFFICES ASSUME NEW h PROVE Loop(h, m, stops, g) <=> H(h)
    OBVIOUS
  <2>1. [i \in 0..m |-> IF i \in stops THEN g[i] ELSE h[i + 1]]
          = [i \in 0..m |->
               IF i = n THEN 0
               ELSE IF mem[s1 + i] = 0 \/ mem[s1 + i] # CharAt(s2, i + 1)
                    THEN mem[s1 + i] - CharAt(s2, i + 1)
                    ELSE h[i + 1]]
    OBVIOUS
  <2> QED
    BY <2>1 DEF Loop
<1>4. Loop(f, m, stops, g)
  <2>1. \E h : H(h)
    BY <1>1, <1>2, <1>3, LoopExists
  <2> HIDE DEF H
  <2> QED
    BY <1>3, <2>1
<1>5. strncmp(s1, s2, n) = f[0]
  BY DEF strncmp
<1> HIDE DEF f, H
<1>6. PICK k \in stops : f[0] = g[k] /\ \A j \in 0..(k - 1) : j \notin stops
  <2> HIDE DEF m, stops, g
  <2> QED
    BY <1>1, <1>2, <1>4, LoopGives
<1>7. k \in 0..m
  BY <1>6
<1>8. \A j \in 0..(k - 1) : j \in 0..m
  BY <1>1, <1>7
<1>9. SameUpTo(s1, s2, k) /\ n \notin 0..(k - 1)
  BY <1>6, <1>8 DEF SameUpTo
<1>10. k <= n
  BY <1>7, <1>9
<1>11. CASE k = n
  BY <1>5, <1>6, <1>7, <1>9, <1>11 DEF Compares
<1>12. CASE k # n
  <2>1. k < n /\ (mem[s1 + k] = 0 \/ mem[s1 + k] # CharAt(s2, k + 1))
    BY <1>6, <1>7, <1>10, <1>12
  <2>2. f[0] = mem[s1 + k] - CharAt(s2, k + 1)
    BY <1>6, <1>7, <1>12
  <2> QED
    BY <1>5, <1>7, <1>9, <2>1, <2>2 DEF Compares
<1> QED
  BY <1>7, <1>11, <1>12

\* strstr gives the first place where strncmp finds the whole of s2, or NULL.
LEMMA SearchRuns ==
    ASSUME Memory, NEW s2, Len(s2) \in Nat \ {0}
    PROVE  \E k \in 0..End :
             /\ \A j \in 0..(k - 1) : mem[j] # 0 /\ strncmp(j, s2, Len(s2)) # 0
             /\ \/ mem[k] = 0 /\ strstr(0, s2) = NULL
                \/ mem[k] # 0 /\ strncmp(k, s2, Len(s2)) = 0 /\ strstr(0, s2) = k
<1> DEFINE m == End - 0
           stops == {i \in 0..m : mem[0 + i] = 0 \/ strncmp(0 + i, s2, Len(s2)) = 0}
           H(h) == h = [i \in 0..m |->
                          IF mem[0 + i] = 0 THEN NULL
                          ELSE IF strncmp(0 + i, s2, Len(s2)) = 0 THEN 0 + i
                               ELSE h[i + 1]]
           f == CHOOSE h : H(h)
           g == [i \in 0..m |-> IF mem[0 + i] = 0 THEN NULL ELSE 0 + i]
<1>1. m \in Nat /\ 0 + m = End /\ m = End
  BY DEF Memory
<1>2. stops \in SUBSET (0..m) /\ m \in stops
  BY <1>1 DEF Memory
<1>3. \A h : Loop(h, m, stops, g) <=> H(h)
  <2> SUFFICES ASSUME NEW h PROVE Loop(h, m, stops, g) <=> H(h)
    OBVIOUS
  <2>1. [i \in 0..m |-> IF i \in stops THEN g[i] ELSE h[i + 1]]
          = [i \in 0..m |->
               IF mem[0 + i] = 0 THEN NULL
               ELSE IF strncmp(0 + i, s2, Len(s2)) = 0 THEN 0 + i
                    ELSE h[i + 1]]
    OBVIOUS
  <2> QED
    BY <2>1 DEF Loop
<1>4. Loop(f, m, stops, g)
  <2>1. \E h : H(h)
    BY <1>1, <1>2, <1>3, LoopExists
  <2> HIDE DEF H
  <2> QED
    BY <1>3, <2>1
<1>5. strstr(0, s2) = f[0]
  BY DEF strstr
<1> HIDE DEF f, H
<1>6. PICK k \in stops : f[0] = g[k] /\ \A j \in 0..(k - 1) : j \notin stops
  <2> HIDE DEF m, stops, g
  <2> QED
    BY <1>1, <1>2, <1>4, LoopGives
<1>7. k \in 0..End /\ 0 + k = k
  BY <1>1, <1>6
<1>8. \A j \in 0..(k - 1) : j \in 0..m /\ 0 + j = j
  BY <1>1, <1>7
<1>9. \A j \in 0..(k - 1) : mem[j] # 0 /\ strncmp(j, s2, Len(s2)) # 0
  BY <1>6, <1>8
<1>10. f[0] = IF mem[k] = 0 THEN NULL ELSE k
  BY <1>1, <1>6, <1>7
<1>11. mem[k] = 0 \/ strncmp(k, s2, Len(s2)) = 0
  BY <1>6, <1>7
<1> QED
  BY <1>5, <1>7, <1>9, <1>10, <1>11

------------------------------------------------------------------------------
(* Comparing and searching a whole string *)

\* The part of a sequence from one place to another.
LEMMA PartIs ==
    ASSUME NEW S, NEW s \in Seq(S), NEW a \in Nat, NEW b \in Nat, a <= b, b <= Len(s)
    PROVE  /\ SubSeq(s, a + 1, b) \in Seq(S)
           /\ Len(SubSeq(s, a + 1, b)) = b - a
           /\ \A i \in 1..(b - a) : SubSeq(s, a + 1, b)[i] = s[a + i]
<1>1. Len(s) \in Nat /\ a + 1 \in Int /\ b \in Int
  BY LenProperties
<1>2. \A i \in (a + 1)..b : i \in 1..Len(s)
  BY <1>1
<1>3. \A i \in (a + 1)..b : s[i] \in S
  BY <1>2, ElementOfSeq
<1> DEFINE t == SubSeq(s, a + 1, b)
<1>4. /\ t \in Seq(S)
      /\ Len(t) = IF a + 1 <= b THEN b - (a + 1) + 1 ELSE 0
      /\ \A i \in 1..(b - (a + 1) + 1) : t[i] = s[(a + 1) + i - 1]
  BY <1>1, <1>3, SubSeqProperties
<1> HIDE DEF t
<1>5. b - (a + 1) + 1 = b - a
  OBVIOUS
<1>6. Len(t) = b - a
  BY <1>4, <1>5
<1>7. \A i \in 1..(b - a) : (a + 1) + i - 1 = a + i
  OBVIOUS
<1>8. \A i \in 1..(b - a) : t[i] = s[a + i]
  BY <1>4, <1>5, <1>7
<1> QED
  BY <1>4, <1>6, <1>8 DEF t

\* Sequences of the same length that agree everywhere are the same.
LEMMA SameSequence ==
    ASSUME NEW S, NEW u \in Seq(S), NEW v \in Seq(S), Len(u) = Len(v),
           \A i \in 1..Len(u) : u[i] = v[i]
    PROVE  u = v
BY SeqEqual

\* What CharAt reads: a character, or the null behind the last.
LEMMA Characters ==
    ASSUME Chars \subseteq 1..127, NEW u \in Seq(Chars), NEW i \in Nat \ {0}
    PROVE  /\ Len(u) \in Nat
           /\ CharAt(u, i) \in 0..127
           /\ CharAt(u, i) = 0 <=> i > Len(u)
           /\ i <= Len(u) => CharAt(u, i) = u[i]
<1>1. Len(u) \in Nat
  BY LenProperties
<1>2. CASE i > Len(u)
  BY <1>1, <1>2 DEF CharAt
<1>3. CASE ~(i > Len(u))
  <2>1. i \in 1..Len(u)
    BY <1>1, <1>3
  <2>2. u[i] \in Chars
    BY <2>1, ElementOfSeq
  <2>3. CharAt(u, i) = u[i] /\ u[i] \in 1..127
    BY <1>3, <2>2 DEF CharAt
  <2> QED
    BY <1>1, <1>3, <2>3
<1> QED
  BY <1>2, <1>3

LEMMA NotBeforeItself ==
    ASSUME Chars \subseteq 1..127, NEW u \in Seq(Chars)
    PROVE  ~Before(u, u)
<1> SUFFICES ASSUME NEW k \in 1..Len(u), CharAt(u, k) < u[k]
             PROVE  FALSE
  BY DEF Before
<1>1. Len(u) \in Nat
  BY LenProperties
<1>2. k \in Nat \ {0} /\ k <= Len(u)
  BY <1>1
<1>3. CharAt(u, k) = u[k] /\ CharAt(u, k) \in 0..127
  BY <1>2, Characters
<1>4. PICK c \in 0..127 : c = CharAt(u, k)
  BY <1>3
<1>5. c = u[k] /\ c < u[k]
  BY <1>3, <1>4
<1> QED
  BY <1>4, <1>5

\* The first difference decides.
LEMMA FirstDifference ==
    ASSUME Chars \subseteq 1..127, NEW u \in Seq(Chars), NEW v \in Seq(Chars),
           NEW k \in Nat, k <= Len(u), k <= Len(v),
           \A j \in 1..k : u[j] = v[j],
           CharAt(u, k + 1) < CharAt(v, k + 1)
    PROVE  Before(u, v) /\ ~Before(v, u)
<1>1. Len(u) \in Nat /\ Len(v) \in Nat /\ k + 1 \in Nat \ {0} /\ 0 \in Nat
  BY LenProperties
<1>2. /\ CharAt(u, k + 1) \in 0..127 /\ CharAt(v, k + 1) \in 0..127
      /\ CharAt(u, k + 1) = 0 <=> k + 1 > Len(u)
      /\ CharAt(v, k + 1) = 0 <=> k + 1 > Len(v)
      /\ k + 1 <= Len(u) => CharAt(u, k + 1) = u[k + 1]
      /\ k + 1 <= Len(v) => CharAt(v, k + 1) = v[k + 1]
  BY <1>1, Characters
<1>3. k + 1 <= Len(v) /\ CharAt(v, k + 1) = v[k + 1]
  <2>1. PICK c \in 0..127 : c = CharAt(u, k + 1)
    BY <1>2
  <2>2. PICK d \in 0..127 : d = CharAt(v, k + 1)
    BY <1>2
  <2>3. c < d
    BY <2>1, <2>2, Zenon
  <2>4. d # 0
    BY <2>3
  <2>5. CharAt(v, k + 1) # 0
    BY <2>2, <2>4, Zenon
  <2> QED
    BY <1>1, <1>2, <2>5
<1>4. Before(u, v)
  <2>1. /\ SubSeq(u, 1, k) \in Seq(Chars) /\ SubSeq(v, 1, k) \in Seq(Chars)
        /\ Len(SubSeq(u, 1, k)) = k /\ Len(SubSeq(v, 1, k)) = k
        /\ \A i \in 1..k : SubSeq(u, 1, k)[i] = u[i]
        /\ \A i \in 1..k : SubSeq(v, 1, k)[i] = v[i]
    <3>1. 0 + 1 = 1 /\ k - 0 = k /\ 0 <= k /\ \A i \in 1..k : 0 + i = i
      OBVIOUS
    <3>2. /\ SubSeq(u, 0 + 1, k) \in Seq(Chars)
          /\ Len(SubSeq(u, 0 + 1, k)) = k - 0
          /\ \A i \in 1..(k - 0) : SubSeq(u, 0 + 1, k)[i] = u[0 + i]
      BY <1>1, <3>1, PartIs
    <3>3. /\ SubSeq(v, 0 + 1, k) \in Seq(Chars)
          /\ Len(SubSeq(v, 0 + 1, k)) = k - 0
          /\ \A i \in 1..(k - 0) : SubSeq(v, 0 + 1, k)[i] = v[0 + i]
      BY <1>1, <3>1, PartIs
    <3> QED
      BY <3>1, <3>2, <3>3
  <2>2. \A i \in 1..k : SubSeq(u, 1, k)[i] = SubSeq(v, 1, k)[i]
    BY <2>1
  <2>3. SubSeq(u, 1, k) = SubSeq(v, 1, k)
    BY <2>1, <2>2, SameSequence
  <2>4. k + 1 \in 1..Len(v) /\ (k + 1) - 1 = k /\ Len(u) >= k /\ CharAt(u, k + 1) < v[k + 1]
    BY <1>1, <1>3
  <2> QED
    BY <2>3, <2>4 DEF Before
<1>5. ASSUME Before(v, u)
      PROVE  FALSE
  <2>1. PICK l \in 1..Len(u) : /\ Len(v) >= l - 1
                               /\ SubSeq(v, 1, l - 1) = SubSeq(u, 1, l - 1)
                               /\ CharAt(v, l) < u[l]
    BY <1>5 DEF Before
  <2>2. l - 1 \in Nat /\ 0 <= l - 1 /\ l - 1 <= Len(u) /\ l - 1 <= Len(v) /\ l \in Nat \ {0}
        /\ l <= Len(u)
    BY <1>1, <2>1
  <2>3. CharAt(u, l) = u[l] /\ CharAt(u, l) \in 0..127
    BY <2>2, Characters
  <2>7. \A d : d = u[l] => CharAt(v, l) # d
    <3>1. ASSUME NEW d, d = u[l], CharAt(v, l) = d
          PROVE  FALSE
      <4>1. PICK c \in 0..127 : c = CharAt(u, l)
        BY <2>3
      <4>2. c = u[l] /\ c = CharAt(v, l)
        BY <2>3, <3>1, <4>1
      <4>3. c < c
        BY <2>1, <4>2, Zenon
      <4> QED
        BY <4>1, <4>3
    <3> QED
      BY <3>1
  <2>4. CASE l <= k
    <3>1. l \in 1..k /\ l <= Len(v)
      BY <1>1, <2>2, <2>4
    <3>2. CharAt(v, l) = v[l] /\ CharAt(v, l) \in 0..127
      BY <2>2, <3>1, Characters
    <3>3. u[l] = v[l]
      BY <3>1
    <3> QED
      BY <2>7, <3>2, <3>3
  <2>5. CASE l = k + 1
    <3>1. PICK c \in 0..127 : c = CharAt(u, k + 1)
      BY <1>2
    <3>2. PICK d \in 0..127 : d = CharAt(v, k + 1)
      BY <1>2
    <3>3. c < d
      BY <3>1, <3>2, Zenon
    <3>4. u[l] = c /\ CharAt(v, l) = d
      BY <2>3, <2>5, <3>1, <3>2
    <3>5. d < c
      BY <2>1, <3>4, Zenon
    <3> QED
      BY <3>1, <3>2, <3>3, <3>5
  <2>6. CASE l > k + 1
    <3>1. 0 + 1 = 1 /\ (l - 1) - 0 = l - 1 /\ k + 1 \in 1..((l - 1) - 0) /\ 0 + (k + 1) = k + 1
      BY <2>2, <2>6
    <3>2. SubSeq(v, 0 + 1, l - 1)[k + 1] = v[0 + (k + 1)]
      BY <1>1, <2>2, <3>1, PartIs
    <3>3. SubSeq(u, 0 + 1, l - 1)[k + 1] = u[0 + (k + 1)]
      BY <1>1, <2>2, <3>1, PartIs
    <3>4. u[k + 1] = v[k + 1]
      BY <2>1, <3>1, <3>2, <3>3
    <3>5. k + 1 <= Len(u)
      BY <1>1, <2>2, <2>6
    <3>6. PICK c \in 0..127 : c = CharAt(u, k + 1)
      BY <1>2
    <3>7. c = CharAt(v, k + 1)
      BY <1>2, <1>3, <3>4, <3>5, <3>6
    <3>8. c < c
      BY <3>6, <3>7, Zenon
    <3> QED
      BY <3>6, <3>8
  <2> QED
    BY <2>2, <2>4, <2>5, <2>6
<1> QED
  BY <1>4, <1>5

LEMMA PrefixIs ==
    ASSUME Chars \subseteq 1..127, NEW s \in Seq(Chars), NEW n \in Nat
    PROVE  /\ Prefix(s, n) \in Seq(Chars)
           /\ Len(Prefix(s, n)) \in Nat
           /\ Len(Prefix(s, n)) <= n
           /\ n <= Len(s) => Len(Prefix(s, n)) = n
           /\ \A i \in 1..n : CharAt(Prefix(s, n), i) = CharAt(s, i)
<1> DEFINE l == IF n < Len(s) THEN n ELSE Len(s)
           p == SubSeq(s, 1, l)
<1>1. Len(s) \in Nat
  BY LenProperties
<1>2. l \in Nat /\ 0 <= l /\ l <= Len(s) /\ l <= n /\ (n <= Len(s) => l = n) /\ 0 \in Nat
      /\ (l = n \/ l = Len(s))
  BY <1>1
<1>3. Prefix(s, n) = p
  BY DEF Prefix
<1> HIDE DEF l
<1>4. p \in Seq(Chars) /\ Len(p) = l /\ \A i \in 1..l : p[i] = s[i]
  <2>1. 0 + 1 = 1 /\ l - 0 = l /\ \A i \in 1..l : 0 + i = i
    BY <1>2
  <2>2. /\ SubSeq(s, 0 + 1, l) \in Seq(Chars)
        /\ Len(SubSeq(s, 0 + 1, l)) = l - 0
        /\ \A i \in 1..(l - 0) : SubSeq(s, 0 + 1, l)[i] = s[0 + i]
    BY <1>2, PartIs
  <2> QED
    BY <2>1, <2>2
<1> HIDE DEF p
<1>5. ASSUME NEW i \in 1..n
      PROVE  CharAt(p, i) = CharAt(s, i)
  <2>1. CASE i <= l
    <3>1. i \in 1..l /\ ~(i > Len(p)) /\ ~(i > Len(s))
      BY <1>1, <1>2, <1>4, <2>1
    <3> QED
      BY <1>4, <3>1 DEF CharAt
  <2>2. CASE ~(i <= l)
    <3>1. i > Len(p) /\ i > Len(s)
      BY <1>1, <1>2, <1>4, <2>2
    <3> QED
      BY <3>1 DEF CharAt
  <2> QED
    BY <2>1, <2>2
<1> QED
  BY <1>2, <1>3, <1>4, <1>5

\* The string as the program gave it.
Untouched ==
    /\ Memory /\ original \in Seq(Chars) /\ needle \in Seq(Chars)
    /\ \A i \in 0..End : mem[i] = CharAt(original, i + 1)

\* strncmp decides as the dictionary does.
LEMMA ComparedRight ==
    ASSUME Untouched, NEW n \in Nat
    PROVE  LET u == Prefix(original, n)
               v == Prefix(needle, n)
           IN /\ strncmp(0, needle, n) < 0 <=> Before(u, v)
              /\ strncmp(0, needle, n) > 0 <=> Before(v, u)
<1> DEFINE u == Prefix(original, n)
           v == Prefix(needle, n)
           r == strncmp(0, needle, n)
<1>1. /\ Memory /\ original \in Seq(Chars) /\ needle \in Seq(Chars)
      /\ \A i \in 0..End : mem[i] = CharAt(original, i + 1)
      /\ Chars \subseteq 1..127 /\ End \in Nat
  BY DEF Untouched, Memory
<1>2. /\ u \in Seq(Chars) /\ v \in Seq(Chars) /\ Len(u) \in Nat /\ Len(v) \in Nat
      /\ Len(u) <= n /\ Len(v) <= n
      /\ \A i \in 1..n : CharAt(u, i) = CharAt(original, i)
      /\ \A i \in 1..n : CharAt(v, i) = CharAt(needle, i)
  <2>1. /\ u \in Seq(Chars) /\ Len(u) \in Nat /\ Len(u) <= n
        /\ \A i \in 1..n : CharAt(u, i) = CharAt(original, i)
    BY <1>1, PrefixIs
  <2>2. /\ v \in Seq(Chars) /\ Len(v) \in Nat /\ Len(v) <= n
        /\ \A i \in 1..n : CharAt(v, i) = CharAt(needle, i)
    BY <1>1, PrefixIs
  <2> HIDE DEF u, v
  <2> QED
    BY <2>1, <2>2
<1>3. PICK k \in Nat : Compares(0, needle, n, k)
  <2>1. 0 \in 0..End
    BY <1>1
  <2> QED
    BY <1>1, <2>1, CompareRuns
<1> HIDE DEF u, v
<1>4. k <= End /\ k <= n
  <2>1. k \in 0..(End - 0) /\ k <= n
    BY <1>3 DEF Compares
  <2> QED
    BY <1>1, <2>1
<1>5. ASSUME NEW i \in 1..n
      PROVE  /\ CharAt(u, i) \in 0..127 /\ CharAt(v, i) \in 0..127
             /\ CharAt(u, i) = 0 <=> i > Len(u)
             /\ CharAt(v, i) = 0 <=> i > Len(v)
             /\ i <= Len(u) => CharAt(u, i) = u[i]
             /\ i <= Len(v) => CharAt(v, i) = v[i]
  BY <1>1, <1>2, Characters
<1>6. ASSUME NEW j \in 1..k
      PROVE  j <= Len(u) /\ j <= Len(v) /\ u[j] = v[j]
  <2>1. j - 1 \in 0..(k - 1) /\ (j - 1) + 1 = j /\ 0 + (j - 1) = j - 1 /\ j - 1 \in 0..End
        /\ j \in 1..n
    BY <1>1, <1>4
  <2>2. mem[j - 1] # 0 /\ mem[j - 1] = CharAt(needle, j)
    BY <1>3, <2>1 DEF Compares, SameUpTo
  <2>3. mem[j - 1] = CharAt(original, j)
    BY <1>1, <2>1
  <2>4. CharAt(u, j) # 0 /\ CharAt(u, j) = CharAt(v, j)
    BY <1>2, <2>1, <2>2, <2>3
  <2>5. j <= Len(u) /\ j <= Len(v)
    BY <1>2, <1>5, <2>1, <2>4
  <2> QED
    BY <1>5, <2>1, <2>4, <2>5
<1>7. k <= Len(u) /\ k <= Len(v)
  <2>1. CASE k = 0
    BY <1>2, <2>1
  <2>2. CASE k # 0
    <3>1. k \in 1..k
      BY <2>2
    <3> QED
      BY <1>6, <3>1
  <2> QED
    BY <2>1, <2>2
<1>8. ASSUME Len(u) = k, Len(v) = k, r = 0
      PROVE  (r < 0 <=> Before(u, v)) /\ (r > 0 <=> Before(v, u))
  <2>1. u = v
    BY <1>2, <1>6, <1>8, SameSequence
  <2>2. ~Before(u, u)
    BY <1>1, <1>2, NotBeforeItself
  <2>3. ~(r < 0) /\ ~(r > 0)
    BY <1>8
  <2> QED
    BY <2>1, <2>2, <2>3
<1>9. CASE k = n /\ r = 0
  <2>1. Len(u) = k /\ Len(v) = k
    BY <1>2, <1>7, <1>9
  <2> QED
    BY <1>8, <1>9, <2>1 DEF u, v
<1>10. CASE /\ k < n
            /\ mem[0 + k] = 0 \/ mem[0 + k] # CharAt(needle, k + 1)
            /\ r = mem[0 + k] - CharAt(needle, k + 1)
  <2>1. k \in 0..End /\ 0 + k = k /\ k + 1 \in 1..n
    BY <1>1, <1>4, <1>10
  <2>2. mem[k] = CharAt(u, k + 1) /\ CharAt(needle, k + 1) = CharAt(v, k + 1)
    BY <1>1, <1>2, <2>1
  <2>3. PICK c \in 0..127 : c = CharAt(u, k + 1)
    BY <1>5, <2>1
  <2>4. PICK d \in 0..127 : d = CharAt(v, k + 1)
    BY <1>5, <2>1
  <2>5. r = c - d /\ (c = 0 \/ c # d)
    BY <1>10, <2>1, <2>2, <2>3, <2>4
  <2>6. CASE c < d
    <3>1. CharAt(u, k + 1) < CharAt(v, k + 1)
      BY <2>3, <2>4, <2>6, Zenon
    <3>2. Before(u, v) /\ ~Before(v, u)
      BY <1>1, <1>2, <1>6, <1>7, <3>1, FirstDifference
    <3>3. r < 0 /\ ~(r > 0)
      BY <2>5, <2>6
    <3> QED
      BY <3>2, <3>3 DEF u, v
  <2>7. CASE d < c
    <3>1. CharAt(v, k + 1) < CharAt(u, k + 1)
      BY <2>3, <2>4, <2>7, Zenon
    <3>2. \A j \in 1..k : v[j] = u[j]
      BY <1>6
    <3>3. Before(v, u) /\ ~Before(u, v)
      BY <1>1, <1>2, <1>7, <3>1, <3>2, FirstDifference
    <3>4. r > 0 /\ ~(r < 0)
      BY <2>5, <2>7
    <3> QED
      BY <3>3, <3>4 DEF u, v
  <2>8. CASE c = 0 /\ d = 0
    <3>1. CharAt(u, k + 1) = 0 /\ CharAt(v, k + 1) = 0
      BY <2>3, <2>4, <2>8
    <3>2. k + 1 > Len(u) /\ k + 1 > Len(v)
      BY <1>5, <2>1, <3>1
    <3>3. Len(u) = k /\ Len(v) = k
      BY <1>2, <1>7, <3>2
    <3>4. r = 0
      BY <2>5, <2>8
    <3> QED
      BY <1>8, <3>3, <3>4 DEF u, v
  <2> QED
    BY <2>5, <2>6, <2>7, <2>8
<1> QED
  BY <1>3, <1>9, <1>10 DEF Compares

\* strncmp of a whole needle finds it where it occurs.
LEMMA FoundWhereItOccurs ==
    ASSUME Untouched, NEW i \in 0..End, needle # <<>>
    PROVE  strncmp(i, needle, Len(needle)) = 0 <=> Occurs(i)
<1> DEFINE N == Len(needle)
           r == strncmp(i, needle, N)
<1>1. /\ Memory /\ original \in Seq(Chars) /\ needle \in Seq(Chars)
      /\ \A j \in 0..End : mem[j] = CharAt(original, j + 1)
      /\ Chars \subseteq 1..127 /\ End \in Nat /\ Len(original) = End
  BY DEF Untouched, Memory, End
<1>2. N \in Nat \ {0}
  BY <1>1, EmptySeq
<1>3. PICK k \in Nat : Compares(i, needle, N, k)
  BY <1>1, <1>2, CompareRuns
<1> HIDE DEF N
<1>4. k \in 0..(End - i) /\ k <= N
  BY <1>3 DEF Compares
<1>5. ASSUME NEW j \in 0..End
      PROVE  /\ mem[j] \in 0..127
             /\ mem[j] = 0 <=> j + 1 > End
             /\ j + 1 <= End => mem[j] = original[j + 1]
  <2>1. j + 1 \in Nat \ {0}
    OBVIOUS
  <2>2. mem[j] = CharAt(original, j + 1)
    BY <1>1
  <2>3. /\ CharAt(original, j + 1) \in 0..127
        /\ CharAt(original, j + 1) = 0 <=> j + 1 > End
        /\ j + 1 <= End => CharAt(original, j + 1) = original[j + 1]
    BY <1>1, <2>1, Characters
  <2> QED
    BY <2>2, <2>3
<1>6. ASSUME NEW j \in 1..N
      PROVE  CharAt(needle, j) = needle[j] /\ needle[j] \in 1..127
  <2>1. j \in Nat \ {0} /\ j <= N
    BY <1>2
  <2>2. CharAt(needle, j) = needle[j]
    BY <1>1, <2>1, Characters DEF N
  <2>3. needle[j] \in Chars
    BY <1>1, ElementOfSeq DEF N
  <2> QED
    BY <1>1, <2>2, <2>3
<1>7. ASSUME i + N <= End
      PROVE  /\ SubSeq(original, i + 1, i + N) \in Seq(Chars)
             /\ Len(SubSeq(original, i + 1, i + N)) = N
             /\ \A j \in 1..N : SubSeq(original, i + 1, i + N)[j] = original[i + j]
  <2>1. i \in Nat /\ i + N \in Nat /\ i <= i + N /\ (i + N) - i = N
    BY <1>1, <1>2
  <2>2. PICK b \in Nat : b = i + N /\ i <= b /\ b <= Len(original) /\ b - i = N
    BY <1>1, <1>7, <2>1
  <2>3. original \in Seq(Chars) /\ i \in Nat
    BY <1>1, <2>1
  <2>4. /\ SubSeq(original, i + 1, b) \in Seq(Chars)
        /\ Len(SubSeq(original, i + 1, b)) = b - i
        /\ \A j \in 1..(b - i) : SubSeq(original, i + 1, b)[j] = original[i + j]
    BY <2>2, <2>3, PartIs
  <2> QED
    BY <2>2, <2>4
<1>8. CASE k = N /\ r = 0
  <2>1. i + N <= End /\ i \in 0..(End - N)
    BY <1>1, <1>2, <1>4, <1>8
  <2>2. ASSUME NEW j \in 1..N
        PROVE  original[i + j] = needle[j]
    <3>1. /\ j - 1 \in 0..(k - 1) /\ (j - 1) + 1 = j /\ i + (j - 1) \in 0..End
          /\ (i + (j - 1)) + 1 = i + j /\ (i + (j - 1)) + 1 <= End
      BY <1>1, <1>2, <1>8, <2>1
    <3>2. mem[i + (j - 1)] = CharAt(needle, j)
      BY <1>3, <3>1 DEF Compares, SameUpTo
    <3>3. mem[i + (j - 1)] = original[i + j]
      BY <1>5, <3>1
    <3> QED
      BY <1>6, <3>2, <3>3
  <2>3. SubSeq(original, i + 1, i + N) = needle
    BY <1>1, <1>7, <2>1, <2>2, SameSequence DEF N
  <2> QED
    BY <1>8, <2>1, <2>3 DEF Occurs, N
<1>9. CASE /\ k < N
           /\ mem[i + k] = 0 \/ mem[i + k] # CharAt(needle, k + 1)
           /\ r = mem[i + k] - CharAt(needle, k + 1)
  <2>1. k + 1 \in 1..N /\ i + k \in 0..End
    BY <1>1, <1>2, <1>4, <1>9
  <2>2. PICK d \in 1..127 : d = CharAt(needle, k + 1) /\ d = needle[k + 1]
    BY <1>6, <2>1
  <2>3. PICK c \in 0..127 : c = mem[i + k]
    BY <1>5, <2>1
  <2>4. r = c - d /\ c # d
    <3>1. (c = 0 \/ c # d) /\ r = c - d
      BY <1>9, <2>2, <2>3, Zenon
    <3> QED
      BY <3>1
  <2>5. r # 0
    BY <2>4
  <2>6. ASSUME Occurs(i)
        PROVE  FALSE
    <3>1. i \in 0..(End - N) /\ SubSeq(original, i + 1, i + N) = needle
      BY <2>6 DEF Occurs, N
    <3>2. i + N <= End /\ (i + k) + 1 <= End /\ (i + k) + 1 = i + (k + 1)
      BY <1>1, <1>2, <1>9, <3>1
    <3>3. needle[k + 1] = original[i + (k + 1)]
      BY <1>7, <2>1, <3>1, <3>2
    <3>4. mem[i + k] = original[i + (k + 1)]
      BY <1>5, <2>1, <3>2
    <3> QED
      BY <2>2, <2>3, <2>4, <3>3, <3>4
  <2> QED
    BY <2>5, <2>6 DEF N
<1> QED
  BY <1>3, <1>8, <1>9 DEF Compares, N

LEMMA FreshIsCompared ==
    ASSUME Untouched, MaxLength \in Nat
    PROVE  Compared
<1>1. /\ Memory /\ original \in Seq(Chars) /\ needle \in Seq(Chars)
      /\ \A j \in 0..End : mem[j] = CharAt(original, j + 1)
      /\ Chars \subseteq 1..127 /\ End \in Nat /\ Len(original) = End /\ 0 \in 0..End
      /\ mem[End] = 0
  BY DEF Untouched, Memory, End
<1>2. ASSUME NEW j \in 0..End, mem[j] = 0
      PROVE  j = End
  <2>1. j + 1 \in Nat \ {0}
    OBVIOUS
  <2>2. CharAt(original, j + 1) = 0
    BY <1>1, <1>2
  <2>3. j + 1 > End
    BY <1>1, <2>1, <2>2, Characters
  <2> QED
    BY <1>1, <2>3
<1>3. strlen(0) = Len(original)
  <2>1. Spans(0, Chars, strlen(0))
    BY <1>1, LengthRuns
  <2>2. PICK k : k = strlen(0)
    OBVIOUS
  <2>3. k \in 0..End /\ 0 + k = k /\ (mem[k] = 0 \/ mem[k] \notin Chars)
    <3>1. k \in 0..(End - 0) /\ (mem[0 + k] = 0 \/ mem[0 + k] \notin Chars)
      BY <2>1, <2>2 DEF Spans
    <3>2. k \in 0..End /\ 0 + k = k
      BY <1>1, <3>1
    <3> QED
      BY <3>1, <3>2
  <2>4. mem[k] \in Chars \cup {0}
    BY <1>1, <2>3 DEF Memory
  <2>5. k = End
    BY <1>2, <2>3, <2>4
  <2> QED
    BY <1>1, <2>2, <2>5
<1>4. ASSUME NEW n \in 0..(MaxLength + 1)
      PROVE  LET u == Prefix(original, n)
                 v == Prefix(needle, n)
             IN /\ strncmp(0, needle, n) < 0 <=> Before(u, v)
                /\ strncmp(0, needle, n) > 0 <=> Before(v, u)
  <2>1. n \in Nat
    OBVIOUS
  <2> QED
    BY <2>1, ComparedRight
<1>5. CASE needle = <<>>
  BY <1>3, <1>4, <1>5 DEF Compared
<1>6. CASE needle # <<>>
  <2>1. Len(needle) \in Nat \ {0}
    BY <1>1, <1>6, EmptySeq
  <2>2. PICK k \in 0..End :
          /\ \A j \in 0..(k - 1) : mem[j] # 0 /\ strncmp(j, needle, Len(needle)) # 0
          /\ \/ mem[k] = 0 /\ strstr(0, needle) = NULL
             \/ /\ mem[k] # 0 /\ strncmp(k, needle, Len(needle)) = 0
                /\ strstr(0, needle) = k
    BY <1>1, <2>1, SearchRuns
  <2>3. \A j \in 0..(k - 1) : j \in 0..End
    BY <1>1
  <2>4. \A j \in 0..(k - 1) : ~Occurs(j)
    BY <1>6, <2>2, <2>3, FoundWhereItOccurs
  <2>5. CASE mem[k] = 0 /\ strstr(0, needle) = NULL
    <3>1. k = End
      BY <1>2, <2>5
    <3>2. ~Occurs(End)
      <4>1. End \notin 0..(End - Len(needle))
        BY <1>1, <2>1
      <4> QED
        BY <4>1 DEF Occurs
    <3>3. \A i \in 0..End : i \in 0..(k - 1) \/ i = End
      BY <1>1, <3>1
    <3>4. ~\E i \in 0..End : Occurs(i)
      BY <2>4, <3>2, <3>3
    <3> QED
      BY <1>3, <1>4, <2>5, <3>4 DEF Compared, Found
  <2>6. CASE /\ mem[k] # 0 /\ strncmp(k, needle, Len(needle)) = 0
             /\ strstr(0, needle) = k
    <3>1. Occurs(k)
      BY <1>6, <2>6, FoundWhereItOccurs
    <3> QED
      BY <1>3, <1>4, <1>6, <2>4, <2>6, <3>1 DEF Compared, Found
  <2> QED
    BY <2>2, <2>5, <2>6
<1> QED
  BY <1>5, <1>6

------------------------------------------------------------------------------
(* What the calls of strtok have done to the string *)

Call == [delim : SUBSET Chars, start : Int, end : Int]

\* Where the tokens found by the calls of cs end.
Ends(cs) == {cs[k].end : k \in {j \in DOMAIN cs : cs[j].start # NULL}}

\* Where the search goes on after call c of a string of length e, and where call k
\* of cs started, which is LookedFrom.
After(c, e) == IF c.start = NULL \/ c.end = e THEN e ELSE c.end + 1
From(cs, e, k) == IF k = 1 THEN 0 ELSE After(cs[k - 1], e)
Position == From(calls, End, Len(calls) + 1)

\* What Tokenized says of call c, which looked from address a on, of memory m and
\* string o.
Token(c, a, m, o) ==
    /\ c.start = NULL => {o[i + 1] : i \in a..(Len(o) - 1)} \subseteq c.delim
    /\ c.start # NULL =>
         /\ a <= c.start /\ c.start < c.end /\ c.end <= Len(o)
         /\ {o[i + 1] : i \in a..(c.start - 1)} \subseteq c.delim
         /\ {o[i + 1] : i \in c.start..(c.end - 1)} \cap c.delim = {}
         /\ c.end = Len(o) \/ o[c.end + 1] \in c.delim
         /\ \A i \in c.start..(c.end - 1) : m[i] = o[i + 1]
         /\ m[c.end] = 0

\* Every token found is ended by a null and the rest is as it was given; what is
\* still to be searched lies behind all tokens, and rem says where.
CutUp ==
    /\ original \in Seq(Chars) /\ needle \in Seq(Chars)
    /\ mem = [i \in 0..End |->
                IF i = End \/ i \in Ends(calls) THEN 0 ELSE original[i + 1]]
    /\ Position \in 0..End
    /\ \A e \in Ends(calls) : /\ e \in 0..End /\ e <= Position
                              /\ e < Position \/ e = End
    /\ calls # <<>> => /\ rem \in {NULL, Position}
                       /\ rem = NULL => Position = End
    /\ \A k \in DOMAIN calls : Token(calls[k], From(calls, End, k), mem, original)

StringsInv ==
    /\ calls \in Seq(Call)
    /\ mem = <<>> => calls = <<>> /\ rem = NULL
    /\ mem # <<>> => CutUp

LEMMA LookedFromIs ==
    ASSUME NEW k \in Nat \ {0}
    PROVE  LookedFrom(k) = From(calls, End, k)
<1>1. k \in 1..k
  OBVIOUS
<1> QED
  BY <1>1 DEF LookedFrom, From, After

\* A call behind one that found nothing looks from the end on and finds nothing.
LEMMA TokensAreTokenized ==
    ASSUME calls \in Seq(Call), original \in Seq(Chars),
           \A k \in DOMAIN calls : Token(calls[k], From(calls, End, k), mem, original)
    PROVE  Tokenized
<1>1. Len(calls) \in Nat /\ DOMAIN calls = 1..Len(calls) /\ End \in Nat /\ Len(original) = End
  BY LenProperties DEF End
<1>2. ASSUME NEW k \in DOMAIN calls
      PROVE  Token(calls[k], LookedFrom(k), mem, original)
  <2>1. k \in Nat \ {0}
    BY <1>1
  <2> QED
    BY <2>1, LookedFromIs
<1>3. ASSUME NEW k \in DOMAIN calls, calls[k].start = NULL, k < Len(calls)
      PROVE  calls[k + 1].start = NULL
  <2>1. k + 1 \in DOMAIN calls /\ k + 1 \in Nat \ {0} /\ k + 1 # 1 /\ (k + 1) - 1 = k
    BY <1>1, <1>3
  <2>2. From(calls, End, k + 1) = End
    BY <1>3, <2>1 DEF From, After
  <2> DEFINE next == calls[k + 1]
  <2>3. next \in Call /\ Token(next, End, mem, original)
    BY <1>1, <2>1, <2>2, ElementOfSeq
  <2> HIDE DEF next
  <2>4. CASE next.start # NULL
    <3>1. End <= next.start /\ next.start < next.end /\ next.end <= End
      BY <1>1, <2>3, <2>4 DEF Token
    <3> QED
      BY <1>1, <2>3, <3>1 DEF Call
  <2> QED
    BY <2>4 DEF next
<1>4. ASSUME NEW k \in DOMAIN calls
      PROVE  LET call == calls[k] IN
             IF call.start = NULL
             THEN /\ Between(LookedFrom(k), End) \subseteq call.delim
                  /\ k < Len(calls) => calls[k + 1].start = NULL
             ELSE /\ LookedFrom(k) <= call.start /\ call.start < call.end /\ call.end <= End
                  /\ Between(LookedFrom(k), call.start) \subseteq call.delim
                  /\ Between(call.start, call.end) \cap call.delim = {}
                  /\ call.end = End \/ original[call.end + 1] \in call.delim
                  /\ \A i \in call.start..(call.end - 1) : mem[i] = original[i + 1]
                  /\ mem[call.end] = 0
  BY <1>2, <1>3 DEF Token, Between, End
<1> QED
  BY <1>4 DEF Tokenized

\* d is cs with call c added, of a string of length e.
Grown(cs, c, d, e) ==
    /\ d \in Seq(Call)
    /\ Len(cs) \in Nat /\ Len(d) = Len(cs) + 1
    /\ DOMAIN cs = 1..Len(cs) /\ DOMAIN d = 1..(Len(cs) + 1)
    /\ \A k \in 1..Len(cs) : d[k] = cs[k]
    /\ d[Len(cs) + 1] = c
    /\ c.start = NULL => Ends(d) = Ends(cs)
    /\ c.start # NULL => Ends(d) = Ends(cs) \cup {c.end}
    /\ \A k \in 1..(Len(cs) + 1) : From(d, e, k) = From(cs, e, k)
    /\ From(d, e, Len(d) + 1) = After(c, e)

LEMMA CallAdded ==
    ASSUME NEW cs \in Seq(Call), NEW c \in Call, NEW d, d = Append(cs, c), NEW e
    PROVE  Grown(cs, c, d, e)
<1>1. Len(cs) \in Nat /\ DOMAIN cs = 1..Len(cs)
  BY LenProperties
<1>2. /\ d \in Seq(Call) /\ Len(d) = Len(cs) + 1
      /\ \A k \in 1..Len(cs) : d[k] = cs[k]
      /\ d[Len(cs) + 1] = c
  BY AppendProperties
<1>3. DOMAIN d = 1..(Len(cs) + 1)
  BY <1>2, LenProperties
<1>4. \A k : k \in DOMAIN d <=> k \in DOMAIN cs \/ k = Len(cs) + 1
  BY <1>1, <1>3
<1>5. \A k \in DOMAIN cs : d[k] = cs[k]
  BY <1>1, <1>2
<1>6. (c.start = NULL => Ends(d) = Ends(cs))
      /\ (c.start # NULL => Ends(d) = Ends(cs) \cup {c.end})
  <2>1. ASSUME NEW x
        PROVE  x \in Ends(d) <=> x \in Ends(cs) \/ (c.start # NULL /\ x = c.end)
    <3>1. x \in Ends(d) <=> \E k \in DOMAIN d : d[k].start # NULL /\ x = d[k].end
      BY DEF Ends
    <3>2. x \in Ends(cs) <=> \E k \in DOMAIN cs : cs[k].start # NULL /\ x = cs[k].end
      BY DEF Ends
    <3> QED
      BY <1>2, <1>4, <1>5, <3>1, <3>2, Zenon
  <2>2. c.start = NULL => Ends(d) = Ends(cs)
    BY <2>1
  <2>3. c.start # NULL => Ends(d) = Ends(cs) \cup {c.end}
    BY <2>1
  <2> QED
    BY <2>2, <2>3
<1>7. \A k \in 1..(Len(cs) + 1) : From(d, e, k) = From(cs, e, k)
  <2>1. ASSUME NEW k \in 1..(Len(cs) + 1), k # 1
        PROVE  d[k - 1] = cs[k - 1]
    <3>1. k - 1 \in 1..Len(cs)
      BY <1>1, <2>1
    <3> QED
      BY <1>2, <3>1
  <2> QED
    BY <2>1 DEF From
<1>8. From(d, e, Len(d) + 1) = After(c, e)
  <2>1. Len(d) + 1 # 1 /\ (Len(d) + 1) - 1 = Len(cs) + 1
    BY <1>1, <1>2
  <2> QED
    BY <1>2, <2>1 DEF From
<1> QED
  BY <1>1, <1>2, <1>3, <1>6, <1>7, <1>8 DEF Grown

\* The next token behind begin is from start to end; at the end of the string there is none.
Cuts(delim, begin, start, end) ==
    /\ start \in begin..End /\ end \in start..End
    /\ \A i \in begin..(start - 1) : original[i + 1] \in delim
    /\ \A i \in start..(end - 1) : original[i + 1] \notin delim
    /\ end = start => start = End
    /\ mem[end] = 0 <=> end = End
    /\ end # End => original[end + 1] \in delim

\* What strtok finds that searches from begin on.
LEMMA TokenFound ==
    ASSUME Memory, original \in Seq(Chars), NEW begin \in 0..End,
           \A i \in begin..(End - 1) : mem[i] = original[i + 1],
           NEW delim, NEW start, NEW end,
           start = begin + strspn(begin, delim), end = start + strcspn(start, delim)
    PROVE  Cuts(delim, begin, start, end)
<1>1. Memory /\ End \in Nat /\ Chars \subseteq 1..127 /\ mem[End] = 0 /\ Len(original) = End
  BY DEF Memory, End
<1>2. \A i \in begin..(End - 1) : original[i + 1] \in Chars /\ mem[i] = original[i + 1]
                                  /\ mem[i] # 0
  <2>1. \A i \in begin..(End - 1) : i + 1 \in 1..Len(original)
    BY <1>1
  <2>2. \A i \in begin..(End - 1) : original[i + 1] \in Chars
    BY <2>1, ElementOfSeq
  <2> QED
    BY <1>1, <2>2
<1>3. PICK k : k = strspn(begin, delim) /\ Spans(begin, delim, k)
  BY SpanRuns
<1>4. start = begin + k /\ k \in 0..(End - begin) /\ start \in begin..End
  <2>1. k \in 0..(End - begin)
    BY <1>3 DEF Spans
  <2>2. start = begin + k
    BY <1>3
  <2> QED
    BY <1>1, <2>1, <2>2
<1>5. PICK l : l = strcspn(start, delim) /\ Spans(start, Chars \ delim, l)
  <2>1. start \in 0..End
    BY <1>1, <1>4
  <2> QED
    BY <2>1, RejectRuns
<1>6. end = start + l /\ l \in 0..(End - start) /\ end \in start..End
  <2>1. l \in 0..(End - start)
    BY <1>5 DEF Spans
  <2>2. end = start + l
    BY <1>5
  <2> QED
    BY <1>1, <1>4, <2>1, <2>2
<1>7. ASSUME NEW i \in begin..(start - 1)
      PROVE  original[i + 1] \in delim
  <2>1. i - begin \in 0..(k - 1) /\ begin + (i - begin) = i /\ i \in begin..(End - 1)
    BY <1>1, <1>4
  <2>2. mem[i] \in delim
    BY <1>3, <2>1 DEF Spans
  <2> QED
    BY <1>2, <2>1, <2>2
<1>8. ASSUME NEW i \in start..(end - 1)
      PROVE  original[i + 1] \notin delim
  <2>1. i - start \in 0..(l - 1) /\ start + (i - start) = i /\ i \in begin..(End - 1)
    <3>1. start \in Int /\ begin \in Int /\ begin <= start /\ l \in Int /\ end = start + l
          /\ end <= End
      BY <1>1, <1>4, <1>6
    <3>2. i \in Int /\ start <= i /\ i < start + l /\ begin <= i /\ i < End
      BY <1>1, <3>1
    <3> QED
      BY <1>1, <3>1, <3>2
  <2>2. mem[i] \in Chars \ delim
    BY <1>5, <2>1 DEF Spans
  <2> QED
    BY <1>2, <2>1, <2>2
<1>9. mem[end] = 0 <=> end = End
  <2>1. end = End \/ end \in begin..(End - 1)
    BY <1>1, <1>4, <1>6
  <2>2. End \notin begin..(End - 1)
    BY <1>1
  <2> QED
    BY <1>1, <1>2, <2>1, <2>2
<1>10. ASSUME end # End PROVE original[end + 1] \in delim
  <2>1. end \in begin..(End - 1)
    BY <1>1, <1>4, <1>6, <1>10
  <2>2. mem[end] = 0 \/ mem[end] \notin Chars \ delim
    BY <1>5, <1>6 DEF Spans
  <2> QED
    BY <1>2, <2>1, <2>2
<1>11. ASSUME end = start PROVE start = End
  <2>1. CASE start # End
    <3>1. start \in begin..(End - 1)
      BY <1>1, <1>4, <2>1
    <3>2. mem[start] = 0 \/ mem[start] \notin delim
      BY <1>3, <1>4 DEF Spans
    <3>3. original[end + 1] \in delim
      BY <1>10, <1>11, <2>1
    <3> QED
      BY <1>2, <1>11, <3>1, <3>2, <3>3
  <2> QED
    BY <2>1
<1> QED
  BY <1>4, <1>6, <1>7, <1>8, <1>9, <1>10, <1>11 DEF Cuts

------------------------------------------------------------------------------
(* The steps *)

LEMMA BehindIsUntouched ==
    ASSUME CutUp, Chars \subseteq 1..127
    PROVE  /\ Memory /\ DOMAIN mem = 0..End
           /\ \A i \in Position..(End - 1) : mem[i] = original[i + 1]
<1>1. End \in Nat /\ Len(original) = End
  BY LenProperties DEF CutUp, End
<1>2. mem = [i \in 0..End |-> IF i = End \/ i \in Ends(calls) THEN 0 ELSE original[i + 1]]
  BY DEF CutUp
<1>3. \A i \in 0..End : i = End \/ original[i + 1] \in Chars
  <2>1. \A i \in 0..End : i = End \/ i + 1 \in 1..Len(original)
    BY <1>1
  <2> QED
    BY <2>1, ElementOfSeq DEF CutUp
<1>4. \A i \in 0..End : mem[i] \in Chars \cup {0}
  BY <1>2, <1>3
<1>5. mem[End] = 0
  BY <1>1, <1>2
<1>6. mem \in [0..End -> Chars \cup {0}]
  BY <1>2, <1>4
<1>7. ASSUME NEW i \in Position..(End - 1)
      PROVE  mem[i] = original[i + 1]
  <2>1. Position \in 0..End /\ \A e \in Ends(calls) : e \in 0..End /\ (e < Position \/ e = End)
    BY DEF CutUp
  <2>2. i \in 0..End /\ i # End /\ i \notin Ends(calls)
    BY <1>1, <2>1
  <2> QED
    BY <1>2, <2>2
<1> QED
  BY <1>1, <1>2, <1>5, <1>6, <1>7 DEF Memory

\* A call that finds nothing.
LEMMA NothingFound ==
    ASSUME CutUp, calls \in Seq(Call), NEW c \in Call, c.start = NULL,
           calls' = Append(calls, c), mem' = mem, needle' = needle, original' = original,
           \A i \in Position..(End - 1) : original[i + 1] \in c.delim,
           rem' \in {NULL, End}
    PROVE  CutUp' /\ calls' \in Seq(Call)
<1> DEFINE n == Len(calls)
<1>1. /\ calls' \in Seq(Call) /\ n \in Nat /\ Len(calls') = n + 1
      /\ DOMAIN calls = 1..n /\ DOMAIN calls' = 1..(n + 1)
      /\ \A k \in 1..n : calls'[k] = calls[k]
      /\ calls'[n + 1] = c
      /\ Ends(calls') = Ends(calls)
      /\ \A k \in 1..(n + 1) : From(calls', End, k) = From(calls, End, k)
      /\ From(calls', End, Len(calls') + 1) = After(c, End)
  <2>1. Grown(calls, c, calls', End)
    BY CallAdded
  <2> QED
    BY <2>1 DEF Grown
<1>2. End' = End /\ End = Len(original) /\ End \in Nat
  BY LenProperties DEF CutUp, End
<1>3. Position' = End
  BY <1>1, <1>2 DEF Position, After
<1>4. /\ original' \in Seq(Chars) /\ needle' \in Seq(Chars)
      /\ mem' = [i \in 0..End' |->
                   IF i = End' \/ i \in Ends(calls') THEN 0 ELSE original'[i + 1]]
  BY <1>1, <1>2 DEF CutUp
<1>5. \A e \in Ends(calls') : /\ e \in 0..End' /\ e <= Position'
                              /\ e < Position' \/ e = End'
  <2>1. \A e \in Ends(calls) : e \in 0..End
    BY DEF CutUp
  <2>2. \A e \in 0..End : e <= End /\ (e < End \/ e = End)
    BY <1>2
  <2> QED
    BY <1>1, <1>2, <1>3, <2>1, <2>2
<1>6. ASSUME NEW k \in DOMAIN calls'
      PROVE  Token(calls'[k], From(calls', End', k), mem', original')
  <2>1. CASE k \in 1..n
    <3>1. Token(calls[k], From(calls, End, k), mem, original)
      BY <1>1, <2>1 DEF CutUp
    <3>2. calls'[k] = calls[k] /\ k \in 1..(n + 1)
      BY <1>1, <2>1
    <3>3. From(calls', End', k) = From(calls, End, k)
      BY <1>1, <1>2, <3>2
    <3> QED
      BY <3>1, <3>2, <3>3
  <2>2. CASE k \notin 1..n
    <3>1. k = n + 1
      BY <1>1, <2>2
    <3>2. calls'[k] = c /\ From(calls', End', k) = Position
      BY <1>1, <1>2, <3>1 DEF Position
    <3>3. Token(c, Position, mem', original')
      BY <1>2 DEF Token
    <3> QED
      BY <3>2, <3>3
  <2> QED
    BY <2>1, <2>2
<1>7. (calls' # <<>>) => /\ rem' \in {NULL, Position'}
                         /\ (rem' = NULL) => (Position' = End')
  BY <1>2, <1>3
<1>8. Position' \in 0..End'
  BY <1>2, <1>3
<1> QED
  BY <1>1, <1>4, <1>5, <1>6, <1>7, <1>8 DEF CutUp

\* A call that finds a token.
LEMMA OneFound ==
    ASSUME CutUp, calls \in Seq(Call), Chars \subseteq 1..127,
           NEW c \in Call, NEW start, NEW end, c.start = start, c.end = end,
           start \in Position..End, end \in start..End, end # start,
           \A i \in Position..(start - 1) : original[i + 1] \in c.delim,
           \A i \in start..(end - 1) : original[i + 1] \notin c.delim,
           end # End => original[end + 1] \in c.delim,
           calls' = Append(calls, c), mem' = [mem EXCEPT ![end] = 0],
           needle' = needle, original' = original,
           rem' = IF end = End THEN NULL ELSE end + 1
    PROVE  CutUp' /\ calls' \in Seq(Call) /\ mem' # <<>>
<1> DEFINE n == Len(calls)
<1>1. End' = End /\ End = Len(original) /\ End \in Nat
  BY LenProperties DEF CutUp, End
<1>2. /\ Position \in 0..End
      /\ \A e \in Ends(calls) : e \in 0..End /\ e <= Position /\ (e < Position \/ e = End)
  BY DEF CutUp
<1>3. start \in 0..End /\ end \in 0..End /\ start < end /\ Position <= start /\ start # NULL
  BY <1>1, <1>2 DEF NULL
<1>4. /\ calls' \in Seq(Call) /\ n \in Nat /\ Len(calls') = n + 1
      /\ DOMAIN calls = 1..n /\ DOMAIN calls' = 1..(n + 1)
      /\ \A k \in 1..n : calls'[k] = calls[k]
      /\ calls'[n + 1] = c
      /\ Ends(calls') = Ends(calls) \cup {end}
      /\ \A k \in 1..(n + 1) : From(calls', End, k) = From(calls, End, k)
      /\ From(calls', End, Len(calls') + 1) = After(c, End)
  <2>1. Grown(calls, c, calls', End)
    BY CallAdded
  <2> QED
    BY <1>3, <2>1 DEF Grown
<1>5. Position' = IF end = End THEN End ELSE end + 1
  BY <1>1, <1>3, <1>4 DEF Position, After
<1>6. Position' \in 0..End /\ (end < Position' \/ (end = End /\ Position' = End))
  BY <1>1, <1>3, <1>5
<1>7. /\ Memory /\ DOMAIN mem = 0..End
      /\ \A i \in Position..(End - 1) : mem[i] = original[i + 1]
  BY BehindIsUntouched
<1>8. DOMAIN mem' = 0..End /\ \A i \in 0..End : mem'[i] = IF i = end THEN 0 ELSE mem[i]
  BY <1>7
<1>9. mem' # <<>>
  <2>1. 0 \in DOMAIN mem'
    BY <1>1, <1>8
  <2>2. DOMAIN <<>> = {}
    BY EmptySeq, LenProperties
  <2> QED
    BY <2>1, <2>2
<1>10. mem' = [i \in 0..End |->
                 IF i = End \/ i \in Ends(calls') THEN 0 ELSE original[i + 1]]
  <2>1. mem = [i \in 0..End |-> IF i = End \/ i \in Ends(calls) THEN 0 ELSE original[i + 1]]
    BY DEF CutUp
  <2> QED
    BY <1>3, <1>4, <2>1
<1>11. \A e \in Ends(calls') : /\ e \in 0..End /\ e <= Position'
                               /\ e < Position' \/ e = End
  <2>1. \A e \in Ends(calls) : e <= start
    BY <1>1, <1>2, <1>3
  <2>2. \A e \in Ends(calls) : e < Position'
    BY <1>1, <1>2, <1>3, <1>6, <2>1
  <2>3. end <= Position' /\ (end < Position' \/ end = End)
    BY <1>1, <1>3, <1>6
  <2>4. \A e \in Ends(calls) : e <= Position'
    BY <1>1, <1>2, <1>6, <2>2
  <2> QED
    BY <1>2, <1>3, <1>4, <2>2, <2>3, <2>4
<1>12. ASSUME NEW k \in DOMAIN calls'
       PROVE  Token(calls'[k], From(calls', End', k), mem', original')
  <2>1. CASE k \in 1..n
    <3>1. Token(calls[k], From(calls, End, k), mem, original)
      BY <1>4, <2>1 DEF CutUp
    <3>2. calls'[k] = calls[k] /\ k \in 1..(n + 1) /\ calls[k] \in Call
      BY <1>4, <2>1, ElementOfSeq
    <3>3. From(calls', End', k) = From(calls, End, k)
      BY <1>1, <1>4, <3>2
    <3> DEFINE t == calls[k]
    <3>4. ASSUME t.start # NULL
          PROVE  /\ \A i \in t.start..(t.end - 1) : mem'[i] = original[i + 1]
                 /\ mem'[t.end] = 0
      <4>1. /\ \A i \in t.start..(t.end - 1) : mem[i] = original[i + 1]
            /\ mem[t.end] = 0
        BY <3>1, <3>4 DEF Token
      <4>2. t.end \in Ends(calls)
        BY <1>4, <2>1, <3>4 DEF Ends
      <4>3. t.end \in 0..End /\ t.end <= start
        BY <1>1, <1>2, <1>3, <4>2
      <4>4. \A i \in t.start..(t.end - 1) : i # end
        BY <1>3, <3>2, <4>3 DEF Call
      <4>5. mem' = [mem EXCEPT ![end] = 0]
        OBVIOUS
      <4>6. \A i \in t.start..(t.end - 1) : mem'[i] = mem[i]
        BY <4>4, <4>5
      <4>7. mem'[t.end] = 0
        BY <1>8, <4>1, <4>3
      <4> QED
        BY <4>1, <4>6, <4>7
    <3>5. Token(t, From(calls, End, k), mem', original)
      BY <3>1, <3>4 DEF Token
    <3> QED
      BY <3>2, <3>3, <3>5
  <2>2. CASE k \notin 1..n
    <3>1. k = n + 1
      BY <1>4, <2>2
    <3>2. calls'[k] = c /\ From(calls', End', k) = Position
      BY <1>1, <1>4, <3>1 DEF Position
    <3>3. \A i \in start..(end - 1) : mem'[i] = original[i + 1]
      <4>1. \A i \in start..(end - 1) : i \in Position..(End - 1) /\ i # end /\ i \in 0..End
        BY <1>1, <1>2, <1>3
      <4> QED
        BY <1>7, <1>8, <4>1
    <3>4. mem'[end] = 0
      BY <1>3, <1>8
    <3>5. Token(c, Position, mem', original)
      BY <1>1, <1>3, <3>3, <3>4 DEF Token
    <3> QED
      BY <3>2, <3>5
  <2> QED
    BY <2>1, <2>2
<1>13. (calls' # <<>>) => /\ rem' \in {NULL, Position'}
                          /\ (rem' = NULL) => (Position' = End')
  BY <1>1, <1>3, <1>5 DEF NULL
<1>14. /\ original' \in Seq(Chars) /\ needle' \in Seq(Chars)
  BY DEF CutUp
<1>15. Position' \in 0..End
  BY <1>1, <1>6
<1> QED
  BY <1>1, <1>4, <1>9, <1>10, <1>11, <1>12, <1>13, <1>14, <1>15 DEF CutUp

\* A call of strtok that goes on where the last one stopped, or starts.
LEMMA StrtokKeeps ==
    ASSUME StringsInv, mem # <<>>, Chars \subseteq 1..127,
           NEW delim \in SUBSET Chars, NEW str, strtok(str, delim),
           needle' = needle, original' = original,
           (calls = <<>> /\ str = 0) \/ (calls # <<>> /\ str = NULL)
    PROVE  StringsInv'
<1> DEFINE nothing == [delim |-> delim, start |-> NULL, end |-> NULL]
<1>1. CutUp /\ calls \in Seq(Call)
  BY DEF StringsInv
<1>2. /\ Memory /\ \A i \in Position..(End - 1) : mem[i] = original[i + 1]
      /\ original \in Seq(Chars) /\ Position \in 0..End /\ End \in Nat
      /\ calls # <<>> => rem \in {NULL, Position} /\ (rem = NULL => Position = End)
  BY <1>1, BehindIsUntouched DEF CutUp, Memory
<1>3. nothing \in Call /\ nothing.start = NULL /\ nothing.delim = delim
  BY DEF Call, NULL
<1> HIDE DEF nothing
<1>4. ASSUME calls' = Append(calls, nothing), mem' = mem, rem' \in {NULL, End},
             \A i \in Position..(End - 1) : original[i + 1] \in delim
      PROVE  StringsInv'
  <2>1. CutUp' /\ calls' \in Seq(Call)
    BY <1>1, <1>3, <1>4, NothingFound
  <2> QED
    BY <1>4, <2>1 DEF StringsInv
<1>5. CASE str = NULL /\ rem = NULL
  <2>1. calls' = Append(calls, nothing) /\ mem' = mem /\ rem' = rem
    BY <1>5 DEF strtok, nothing
  <2>2. Position = End
    <3>1. calls # <<>>
      BY <1>5 DEF NULL
    <3> QED
      BY <1>2, <1>5, <3>1
  <2>3. \A i \in Position..(End - 1) : original[i + 1] \in delim
    BY <1>2, <2>2
  <2> QED
    BY <1>4, <1>5, <2>1, <2>3
<1>6. CASE ~(str = NULL /\ rem = NULL)
  <2> DEFINE begin == IF str # NULL THEN str ELSE rem
             start == begin + strspn(begin, delim)
             end == start + strcspn(start, delim)
  <2>1. begin = Position
    <3>1. CASE calls = <<>> /\ str = 0
      <4>1. Len(calls) + 1 = 1
        BY <3>1, EmptySeq
      <4> QED
        BY <3>1, <4>1 DEF Position, From, NULL
    <3>2. CASE calls # <<>> /\ str = NULL
      BY <1>2, <1>6, <3>2
    <3> QED
      BY <3>1, <3>2
  <2>2. /\ end = start => rem' = end /\ calls' = Append(calls, nothing) /\ mem' = mem
        /\ end # start =>
             /\ rem' = rest_after(end) /\ mem' = [mem EXCEPT ![end] = 0]
             /\ calls' = Append(calls, [delim |-> delim, start |-> start, end |-> end])
    BY <1>6 DEF strtok, nothing
  <2> HIDE DEF begin
  <2>3. PICK s, e : s = start /\ e = end
    OBVIOUS
  <2>4. /\ s \in Position..End /\ e \in s..End
        /\ \A i \in Position..(s - 1) : original[i + 1] \in delim
        /\ \A i \in s..(e - 1) : original[i + 1] \notin delim
        /\ e = s => s = End
        /\ mem[e] = 0 <=> e = End
        /\ e # End => original[e + 1] \in delim
    <3>1. s = Position + strspn(Position, delim) /\ e = s + strcspn(s, delim)
      BY <2>1, <2>3
    <3>2. Cuts(delim, Position, s, e)
      BY <1>2, <3>1, TokenFound
    <3> QED
      BY <3>2 DEF Cuts
  <2> HIDE DEF start, end
  <2>5. CASE e = s
    <3>1. s = End /\ rem' = End /\ calls' = Append(calls, nothing) /\ mem' = mem
      BY <2>2, <2>3, <2>4, <2>5
    <3> QED
      BY <1>4, <2>4, <3>1
  <2>6. CASE e # s
    <3> DEFINE c == [delim |-> delim, start |-> s, end |-> e]
    <3>1. /\ rem' = rest_after(e) /\ mem' = [mem EXCEPT ![e] = 0]
          /\ calls' = Append(calls, c)
      BY <2>2, <2>3, <2>6
    <3>2. rem' = IF e = End THEN NULL ELSE e + 1
      BY <2>4, <3>1 DEF rest_after
    <3>3. s \in Int /\ e \in Int
      BY <1>2, <2>4
    <3>4. c \in Call /\ c.start = s /\ c.end = e /\ c.delim = delim
      BY <3>3 DEF Call
    <3> HIDE DEF c
    <3>5. CutUp' /\ calls' \in Seq(Call) /\ mem' # <<>>
      BY <1>1, <2>4, <2>6, <3>1, <3>2, <3>4, OneFound
    <3> QED
      BY <3>5 DEF StringsInv
  <2> QED
    BY <2>5, <2>6
<1> QED
  BY <1>5, <1>6

LEMMA WordsAreSequences ==
    ASSUME NEW n \in Int, NEW w \in Words(n)
    PROVE  w \in Seq(Chars)
<1>1. PICK k \in 0..n : w \in [1..k -> Chars]
  BY DEF Words
<1>2. k \in Nat
  OBVIOUS
<1> QED
  BY <1>1, <1>2, SeqDef

\* A string is given, whole.
LEMMA GivenKeeps ==
    ASSUME StringsInv, strings_given
    PROVE  StringsInv'
<1>1. calls' = <<>> /\ rem' = NULL /\ calls' \in Seq(Call)
  BY EmptySeq DEF StringsInv, strings_given
<1>2. original' \in Seq(Chars) /\ needle' \in Seq(Chars)
  BY WordsAreSequences, StringsBound DEF strings_given
<1>3. End' \in Nat /\ End' = Len(original')
  BY <1>2, LenProperties DEF End
<1>4. Ends(calls') = {} /\ DOMAIN calls' = {} /\ Len(calls') = 0
  <2>1. DOMAIN calls' = {} /\ Len(calls') = 0
    BY <1>1, EmptySeq, LenProperties
  <2> QED
    BY <2>1 DEF Ends
<1>5. Position' = 0
  BY <1>4 DEF Position, From
<1>6. mem' = [i \in 0..End' |->
                IF i = End' \/ i \in Ends(calls') THEN 0 ELSE original'[i + 1]]
  BY <1>3, <1>4 DEF strings_given, CString
<1>7. CutUp'
  BY <1>1, <1>2, <1>3, <1>4, <1>5, <1>6 DEF CutUp
<1> QED
  BY <1>1, <1>7 DEF StringsInv

\* The invariant is kept by every step, for strings of any length and any number of
\* calls of strtok, whatever the delimiters of each.
THEOREM StringsInvariance == StringsSpec => []StringsInv
<1>1. StringsInit => StringsInv
  BY EmptySeq DEF StringsInit, StringsInv
<1>2. StringsInv /\ [StringsNext]_strings => StringsInv'
  <2> SUFFICES ASSUME StringsInv, [StringsNext]_strings
               PROVE  StringsInv'
    OBVIOUS
  <2>1. CASE strings_given
    BY <2>1, GivenKeeps
  <2>2. CASE strtok_first
    <3>1. PICK delim \in SUBSET Chars : strtok(0, delim)
      BY <2>2 DEF strtok_first
    <3> QED
      BY <2>2, <3>1, StringsBound, StrtokKeeps DEF strtok_first
  <2>3. CASE strtok_again
    <3>1. PICK delim \in SUBSET Chars : strtok(NULL, delim)
      BY <2>3 DEF strtok_again
    <3>2. mem # <<>>
      BY <2>3 DEF strtok_again, StringsInv
    <3> QED
      BY <2>3, <3>1, <3>2, StringsBound, StrtokKeeps DEF strtok_again
  <2>4. CASE UNCHANGED strings
    BY <2>4 DEF strings, StringsInv, CutUp, Position, End
  <2> QED
    BY <2>1, <2>2, <2>3, <2>4 DEF StringsNext
<1> QED
  BY <1>1, <1>2, PTL DEF StringsSpec

\* strncmp orders as a dictionary does, strstr finds the first occurrence, and strtok
\* returns all the tokens of the string in order and leaves those it returned readable,
\* for strings of any length.
THEOREM StringsAreCorrect == StringsSpec => []StringsCorrect
<1>1. StringsInv => StringsCorrect
  <2> SUFFICES ASSUME StringsInv, mem # <<>>
               PROVE  (calls = <<>> => Compared) /\ Tokenized
    BY DEF StringsCorrect
  <2>1. CutUp /\ calls \in Seq(Call)
    BY DEF StringsInv
  <2>2. Tokenized
    BY <2>1, TokensAreTokenized DEF CutUp
  <2>3. ASSUME calls = <<>> PROVE Compared
    <3>1. Memory /\ End \in Nat /\ Len(original) = End
      BY <2>1, StringsBound, BehindIsUntouched DEF Memory, End
    <3>2. Ends(calls) = {}
      <4>1. DOMAIN calls = {}
        BY <2>3, EmptySeq, LenProperties
      <4> QED
        BY <4>1 DEF Ends
    <3>3. \A i \in 0..End : mem[i] = IF i = End THEN 0 ELSE original[i + 1]
      BY <2>1, <3>2 DEF CutUp
    <3>4. \A i \in 0..End : i + 1 > End <=> i = End
      BY <3>1
    <3>5. \A i \in 0..End : mem[i] = CharAt(original, i + 1)
      BY <3>1, <3>3, <3>4 DEF CharAt
    <3> QED
      BY <2>1, <3>1, <3>5, StringsBound, FreshIsCompared DEF Untouched, CutUp
  <2> QED
    BY <2>2, <2>3
<1> QED
  BY <1>1, StringsInvariance, PTL
==============================================================================
