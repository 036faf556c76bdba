---------------------------- MODULE MallocProofs -----------------------------
(***************************************************************************)
(* The malloc library keeps its heap and its free list sound, for every    *)
(* size of the arena, all requests and any number of pointers, as long as  *)
(* mm_realloc does not copy into an end tag; with requests that are even   *)
(* numbers of words it never does.                                         *)
(***************************************************************************)
EXTENDS MallocProps, FiniteSetTheorems, WellFoundedInduction, TLAPS

------------------------------------------------------------------------------
(* The heap as a value: memory m, blocks B, epilogue e and break k *)

\* Where the words of a block are.
LEMMA BlockWords ==
    ASSUME NEW m, NEW B, NEW e, NEW k, Heap(m, B, e, k), NEW b \in B
    PROVE  /\ b \in Nat /\ b >= Base /\ b > 0 /\ m[b] \in Word
           /\ m[b].val \in Nat /\ m[b].bit \in {0, 1} /\ m[b].val >= 4
           /\ b + m[b].val <= k
           /\ b \in Arena /\ b + 1 \in Arena /\ b + 2 \in Arena
           /\ b + m[b].val - 1 \in Arena
           /\ b <= e
<1>1. /\ Base \in Nat /\ MaxHeap \in Nat /\ Base > MaxHeap
  BY ArenaAssumption DEF MINBLOCKSIZE
<1>2. b \in Nat /\ b >= Base /\ b < k /\ k <= Base + MaxHeap /\ k \in Nat /\ e \in Nat
  BY <1>1 DEF Heap
<1>3. b \in Arena
  BY <1>1, <1>2 DEF Arena
<1>4. m[b] \in Word /\ m[b].val >= 4
  BY <1>3 DEF Heap
<1>5. m[b].val \in Nat /\ m[b].bit \in {0, 1}
  BY <1>4 DEF Word
<1>6. b <= e
  <2> SUFFICES ASSUME e < b PROVE FALSE
    BY <1>2
  <2>1. e + 4 <= b /\ e + 4 = k
    BY DEF Heap
  <2> QED
    BY <1>2, <2>1
<1>7. b + m[b].val <= k
  <2>1. CASE b = e
    BY <2>1 DEF Heap
  <2>2. CASE b # e
    <3>1. b + m[b].val <= e /\ e < k
      BY <1>2, <1>6, <2>2 DEF Heap
    <3> QED
      BY <1>2, <1>5, <3>1
  <2> QED
    BY <2>1, <2>2
<1>8. b + 1 \in Arena /\ b + 2 \in Arena /\ b + m[b].val - 1 \in Arena
  BY <1>1, <1>2, <1>4, <1>5, <1>7 DEF Arena
<1> QED
  BY <1>1, <1>2, <1>3, <1>4, <1>5, <1>6, <1>7, <1>8

\* Different blocks share no word.
LEMMA BlocksApart ==
    ASSUME NEW m, NEW B, NEW e, NEW k, Heap(m, B, e, k), NEW b \in B, NEW c \in B, b # c,
           NEW x \in Int, NEW y \in Int,
           b <= x, x < b + m[b].val, c <= y, y < c + m[c].val
    PROVE  x # y
<1>1. /\ b \in Nat /\ c \in Nat /\ m[b].val \in Nat /\ m[c].val \in Nat
  BY BlockWords
<1>2. b + m[b].val <= c \/ c + m[c].val <= b
  BY <1>1 DEF Heap
<1> QED
  BY <1>1, <1>2

\* The block before another, as its end tag says.
LEMMA BlockBefore ==
    ASSUME NEW m, NEW B, NEW e, NEW k, Heap(m, B, e, k), NEW b \in B, b # Base
    PROVE  /\ b - m[b - 1].val \in B /\ b - 1 \in Arena
           /\ b - m[b - 1].val + m[b - m[b - 1].val].val = b
           /\ b - m[b - 1].val < b /\ b - m[b - 1].val # e
           /\ m[b - m[b - 1].val] = m[b - 1]
<1>1. PICK c \in B : c + m[c].val = b
  BY DEF Heap
<1>2. c \in Nat /\ m[c].val \in Nat /\ m[c].val >= 4 /\ c + m[c].val - 1 \in Arena /\ b \in Nat
  BY BlockWords
<1>3. m[c + m[c].val - 1] = m[c]
  BY DEF Heap
<1>4. c + m[c].val - 1 = b - 1
  BY <1>1, <1>2
<1>5. m[b - 1] = m[c] /\ b - 1 \in Arena
  BY <1>2, <1>3, <1>4
<1>6. b - m[b - 1].val = c
  BY <1>1, <1>2, <1>5
<1>7. c # e
  BY <1>1, <1>2, BlockWords
<1> QED
  BY <1>1, <1>2, <1>5, <1>6, <1>7

\* Writes that spare the tags keep the heap.
LEMMA HeapFrame ==
    ASSUME NEW m, NEW B, NEW e, NEW k, Heap(m, B, e, k),
           NEW n \in [Arena -> Word],
           \A b \in B : n[b] = m[b] /\ n[b + m[b].val - 1] = m[b + m[b].val - 1]
    PROVE  Heap(n, B, e, k)
<1>1. \A b \in B : n[b].val = m[b].val
  OBVIOUS
<1>2. /\ k \in Nat /\ k <= Base + MaxHeap /\ B \subseteq Base .. (k - 1)
      /\ Base \in B /\ e \in B /\ n[e].val = 4 /\ e + 4 = k
  BY DEF Heap
<1>3. \A b \in B : /\ n[b].val >= 4 /\ n[b + n[b].val - 1] = n[b]
                   /\ b # e => b + n[b].val \in B
  BY <1>1 DEF Heap
<1>4. /\ \A b, c \in B : b < c => b + n[b].val <= c
      /\ \A b \in B \ {Base} : \E c \in B : c + n[c].val = b
  BY <1>1 DEF Heap
<1> QED
  BY <1>2, <1>3, <1>4 DEF Heap

\* block_set_size_and_allocated writes the two tags.
Bits == {0, 1}
TagWrite(m, n, b, s, a) == n = block_set_size_and_allocated(m, b, s, a)
TagsAre(m, n, b, s, a) ==
  /\ n \in [Arena -> Word]
  /\ n[b].val = s /\ n[b].bit = a /\ n[b + s - 1] = n[b]
  /\ \A x \in Arena : x # b /\ x # b + s - 1 => n[x] = m[x]

LEMMA TagsSet ==
    ASSUME NEW m \in [Arena -> Word], NEW b \in Arena, NEW s \in Nat, NEW a \in Bits,
           b + s - 1 \in Arena, NEW n, TagWrite(m, n, b, s, a)
    PROVE  TagsAre(m, n, b, s, a)
<1>1. Tag(s, a) \in Word /\ Tag(s, a).val = s /\ Tag(s, a).bit = a
  BY DEF Tag, Word, Bits
<1> QED
  BY <1>1 DEF TagWrite, block_set_size_and_allocated, TagsAre

\* What a write between two boundaries leaves alone.
Outside(m, n, lo, hi) == \A x \in Arena : x < lo \/ hi <= x => n[x] = m[x]

LEMMA BlockOutside ==
    ASSUME NEW m, NEW B, NEW e, NEW k, Heap(m, B, e, k),
           NEW lo \in Nat, NEW hi \in Nat, NEW n, Outside(m, n, lo, hi),
           NEW c \in B, c + m[c].val <= lo \/ hi <= c
    PROVE  /\ n[c] = m[c] /\ n[c].val = m[c].val /\ n[c].bit = m[c].bit
           /\ n[c + 1] = m[c + 1] /\ n[c + 2] = m[c + 2]
           /\ n[c + m[c].val - 1] = m[c + m[c].val - 1]
<1>1. /\ c \in Nat /\ m[c].val \in Nat /\ m[c].val >= 4
      /\ c \in Arena /\ c + 1 \in Arena /\ c + 2 \in Arena /\ c + m[c].val - 1 \in Arena
  BY BlockWords
<1> QED
  BY <1>1 DEF Outside

\* The numbers in a heap.
LEMMA HeapNumbers ==
    ASSUME NEW m, NEW B, NEW e, NEW k, Heap(m, B, e, k)
    PROVE  /\ Base \in Nat /\ Base > 0 /\ k \in Nat /\ e \in Nat /\ B \subseteq Nat
           /\ \A c \in B : /\ m[c].val \in Nat /\ m[c].val >= 4 /\ c + m[c].val <= k
                           /\ c >= Base /\ c <= e
<1>1. Base \in Nat /\ Base > 0
  BY ArenaAssumption DEF MINBLOCKSIZE
<1>2. k \in Nat /\ e \in B
  BY DEF Heap
<1>3. ASSUME NEW c \in B
      PROVE  /\ c \in Nat /\ m[c].val \in Nat /\ m[c].val >= 4 /\ c + m[c].val <= k
             /\ c >= Base /\ c <= e
  BY BlockWords
<1> QED
  BY <1>1, <1>2, <1>3

LEMMA Disjoint ==
    ASSUME NEW m, NEW B, NEW e, NEW k, Heap(m, B, e, k), NEW b \in B, NEW c \in B, b # c
    PROVE  c + m[c].val <= b \/ b + m[b].val <= c
<1>1. b \in Nat /\ c \in Nat
  BY BlockWords
<1> QED
  BY <1>1 DEF Heap

\* Other tags on a block of the same size.
LEMMA HeapMark ==
    ASSUME NEW m, NEW B, NEW e, NEW k, Heap(m, B, e, k), NEW b \in B,
           NEW n \in [Arena -> Word], Outside(m, n, b, b + m[b].val),
           n[b].val = m[b].val, n[b + m[b].val - 1] = n[b]
    PROVE  Heap(n, B, e, k) /\ \A c \in B : n[c].val = m[c].val
<1>1. b \in Nat /\ m[b].val \in Nat
  BY BlockWords
<1>2. \A c \in B \ {b} : n[c] = m[c] /\ n[c + m[c].val - 1] = m[c + m[c].val - 1]
  <2> TAKE c \in B \ {b}
  <2>1. c + m[c].val <= b \/ b + m[b].val <= c
    BY Disjoint
  <2> QED
    BY <1>1, <2>1, BlockOutside
<1>3. \A c \in B : n[c].val = m[c].val
  BY <1>2
<1>4. /\ k \in Nat /\ k <= Base + MaxHeap /\ B \subseteq Base .. (k - 1)
      /\ Base \in B /\ e \in B /\ n[e].val = 4 /\ e + 4 = k
  BY <1>3 DEF Heap
<1>5. \A c \in B : /\ n[c].val >= 4 /\ n[c + n[c].val - 1] = n[c]
                   /\ c # e => c + n[c].val \in B
  BY <1>2, <1>3 DEF Heap
<1>6. /\ \A c, d \in B : c < d => c + n[c].val <= d
      /\ \A d \in B \ {Base} : \E c \in B : c + n[c].val = d
  BY <1>3 DEF Heap
<1> QED
  BY <1>3, <1>4, <1>5, <1>6 DEF Heap

\* A block cut in two.
LEMMA HeapSplit ==
    ASSUME NEW m, NEW B, NEW e, NEW k, Heap(m, B, e, k), NEW b \in B, b # e,
           NEW s \in Nat, s >= 4, m[b].val - s >= 4,
           NEW n \in [Arena -> Word], Outside(m, n, b, b + m[b].val),
           n[b].val = s, n[b + s - 1] = n[b],
           n[b + s].val = m[b].val - s, n[b + m[b].val - 1] = n[b + s]
    PROVE  /\ Heap(n, B \cup {b + s}, e, k)
           /\ b + s \notin B
           /\ \A c \in B \ {b} : n[c].val = m[c].val
<1> DEFINE r == b + s
           C == B \cup {r}
           g == b + m[b].val
<1>1. /\ b \in Nat /\ m[b].val \in Nat /\ b >= Base /\ g <= k /\ k \in Nat
      /\ B \subseteq Nat /\ Base \in Nat
      /\ \A c \in B : m[c].val \in Nat /\ m[c].val >= 4
  <2>1. /\ Base \in Nat /\ k \in Nat /\ e \in Nat /\ B \subseteq Nat
        /\ \A c \in B : /\ m[c].val \in Nat /\ m[c].val >= 4 /\ c + m[c].val <= k
                        /\ c >= Base /\ c <= e
    BY HeapNumbers
  <2> QED
    BY <2>1 DEF Heap
<1>2. \A c \in B \ {b} : c + m[c].val <= b \/ g <= c
  BY Disjoint
<1>3. \A c \in B \ {b} : /\ n[c] = m[c] /\ n[c].val = m[c].val
                         /\ n[c + m[c].val - 1] = m[c + m[c].val - 1]
  <2> TAKE c \in B \ {b}
  <2>1. c + m[c].val <= b \/ b + m[b].val <= c
    BY <1>2
  <2> QED
    BY <1>1, <2>1, BlockOutside
<1>4. r \notin B /\ r # e /\ g \in B /\ r \in Nat /\ b < r /\ r < g /\ r + n[r].val = g
  <2>1. g \in B
    BY DEF Heap
  <2>2. r \in Nat /\ b < r /\ r < g /\ r + n[r].val = g
    BY <1>1
  <2>3. r \notin B
    <3> SUFFICES ASSUME r \in B PROVE FALSE
      OBVIOUS
    <3>1. r + m[r].val <= b \/ g <= r
      BY <1>2, <2>2
    <3> QED
      BY <1>1, <2>2, <3>1
  <2> QED
    BY <2>1, <2>2, <2>3 DEF Heap
<1>5. /\ k <= Base + MaxHeap /\ C \subseteq Base .. (k - 1) /\ Base \in C /\ e \in C
      /\ n[e].val = 4 /\ e + 4 = k
  BY <1>1, <1>3, <1>4 DEF Heap
<1>6. \A c \in C : /\ n[c].val >= 4 /\ n[c + n[c].val - 1] = n[c]
                   /\ c # e => c + n[c].val \in C
  <2> TAKE c \in C
  <2>1. CASE c = b
    BY <2>1
  <2>2. CASE c = r
    BY <1>1, <1>4, <2>2
  <2>3. CASE c \in B \ {b}
    BY <1>3, <2>3 DEF Heap
  <2> QED
    BY <2>1, <2>2, <2>3
<1>7. ASSUME NEW c \in C, NEW d \in C, c < d
      PROVE  c + n[c].val <= d
  <2>1. CASE c = b /\ d = r
    BY <2>1
  <2>2. CASE c = b /\ d \in B
    BY <1>1, <1>2, <1>7, <2>2
  <2>3. CASE c = r /\ d \in B
    BY <1>1, <1>2, <1>4, <1>7, <2>3
  <2>4. CASE c \in B \ {b} /\ d = r
    BY <1>1, <1>2, <1>3, <1>4, <1>7, <2>4
  <2>5. CASE c \in B \ {b} /\ d \in B
    BY <1>3, <1>7, <2>5 DEF Heap
  <2> QED
    BY <1>1, <1>4, <1>7, <2>1, <2>2, <2>3, <2>4, <2>5
<1>8. ASSUME NEW d \in C \ {Base}
      PROVE  \E c \in C : c + n[c].val = d
  <2>1. CASE d = r
    BY <2>1
  <2>2. CASE d \in B
    <3>1. PICK c \in B : c + m[c].val = d
      BY <1>8, <2>2 DEF Heap
    <3>2. c = b => r + n[r].val = d
      BY <1>4, <3>1
    <3>3. c # b => c + n[c].val = d
      BY <1>3, <3>1
    <3> QED
      BY <3>2, <3>3
  <2> QED
    BY <2>1, <2>2
<1>9. Heap(n, C, e, k)
  BY <1>1, <1>5, <1>6, <1>7, <1>8 DEF Heap
<1> QED
  BY <1>3, <1>4, <1>9

\* A run of blocks made one.
LEMMA HeapMerge ==
    ASSUME NEW m, NEW B, NEW e, NEW k, Heap(m, B, e, k), NEW f \in B, NEW g \in B, f < g,
           NEW n \in [Arena -> Word], Outside(m, n, f, g),
           n[f].val = g - f, n[g - 1] = n[f]
    PROVE  /\ Heap(n, {c \in B : c <= f \/ c >= g}, e, k)
           /\ \A c \in B : c # f /\ (c <= f \/ c >= g) => n[c].val = m[c].val
<1> DEFINE C == {c \in B : c <= f \/ c >= g}
<1>1. /\ f \in Nat /\ g \in Nat /\ B \subseteq Nat /\ Base \in Nat /\ k \in Nat
      /\ \A c \in B : m[c].val \in Nat /\ m[c].val >= 4 /\ c <= e /\ c >= Base
  <2>1. /\ Base \in Nat /\ k \in Nat /\ e \in Nat /\ B \subseteq Nat
        /\ \A c \in B : /\ m[c].val \in Nat /\ m[c].val >= 4 /\ c + m[c].val <= k
                        /\ c >= Base /\ c <= e
    BY HeapNumbers
  <2> QED
    BY <2>1 DEF Heap
<1>2. \A c \in B : c < f => c + m[c].val <= f
  BY DEF Heap
<1>3. \A c \in C \ {f} : /\ n[c] = m[c] /\ n[c].val = m[c].val
                         /\ n[c + m[c].val - 1] = m[c + m[c].val - 1]
  <2> TAKE c \in C \ {f}
  <2>1. c \in B /\ (c + m[c].val <= f \/ g <= c)
    BY <1>1, <1>2
  <2> HIDE DEF C
  <2> QED
    BY <1>1, <2>1, BlockOutside
<1>4. f # e /\ f + m[f].val <= g /\ f + n[f].val = g
  BY <1>1 DEF Heap
<1>5. /\ k <= Base + MaxHeap /\ C \subseteq Base .. (k - 1) /\ Base \in C /\ e \in C
      /\ e + 4 = k /\ n[e].val = 4
  BY <1>1, <1>3, <1>4 DEF Heap
<1>6. ASSUME NEW c \in C
      PROVE  /\ n[c].val >= 4 /\ n[c + n[c].val - 1] = n[c]
             /\ c # e => c + n[c].val \in C
  <2>1. CASE c = f
    BY <1>1, <1>4, <2>1
  <2>2. CASE c # f
    <3>1. n[c].val >= 4 /\ n[c + n[c].val - 1] = n[c]
      BY <1>3, <2>2 DEF Heap
    <3>2. c # e => c + m[c].val \in B
      BY DEF Heap
    <3>3. c < f => c + m[c].val <= f
      BY <1>2
    <3>4. c >= g => c + m[c].val >= g
      BY <1>1
    <3>5. c < f \/ c >= g
      BY <1>1, <2>2
    <3> QED
      BY <1>3, <2>2, <3>1, <3>2, <3>3, <3>4, <3>5
  <2> QED
    BY <2>1, <2>2
<1>7. ASSUME NEW c \in C, NEW d \in C, c < d
      PROVE  c + n[c].val <= d
  <2>1. CASE c = f
    BY <1>1, <1>4, <1>7, <2>1
  <2>2. CASE c # f
    BY <1>3, <1>7, <2>2 DEF Heap
  <2> QED
    BY <2>1, <2>2
<1>8. ASSUME NEW d \in C \ {Base}
      PROVE  \E c \in C : c + n[c].val = d
  <2>1. CASE d = g
    <3>1. f \in C /\ f + n[f].val = d
      BY <1>1, <1>4, <2>1
    <3> QED
      BY <3>1
  <2>2. CASE d # g
    <3>1. PICK c \in B : c + m[c].val = d
      BY <1>8 DEF Heap
    <3>2. c \in C \ {f}
      <4>1. c < d
        BY <1>1, <3>1
      <4>2. CASE d <= f
        BY <1>1, <4>1, <4>2
      <4>3. CASE d > g
        <5>1. ~(c < g)
          <6> SUFFICES ASSUME c < g PROVE FALSE
            OBVIOUS
          <6>1. c + m[c].val <= g
            BY DEF Heap
          <6> QED
            BY <1>1, <3>1, <4>3, <6>1
        <5> QED
          BY <1>1, <5>1
      <4> QED
        BY <1>1, <2>2, <4>2, <4>3
    <3> QED
      BY <1>3, <3>1, <3>2
  <2> QED
    BY <2>1, <2>2
<1>9. Heap(n, C, e, k)
  BY <1>1, <1>5, <1>6, <1>7, <1>8 DEF Heap
<1> QED
  BY <1>3, <1>9

\* The epilogue made a block, and a new epilogue behind it.
LEMMA HeapExtend ==
    ASSUME NEW m, NEW B, NEW e, NEW k, Heap(m, B, e, k),
           NEW s \in Nat, s >= 4, k + s <= Base + MaxHeap,
           NEW n \in [Arena -> Word], Outside(m, n, e, k + s),
           n[e].val = s, n[e + s - 1] = n[e],
           n[e + s].val = 4, n[e + s + 3] = n[e + s]
    PROVE  /\ Heap(n, B \cup {e + s}, e + s, k + s)
           /\ e + s \notin B
           /\ \A c \in B \ {e} : n[c].val = m[c].val
<1> DEFINE r == e + s
           C == B \cup {r}
<1>1. /\ e \in Nat /\ e + 4 = k /\ k \in Nat /\ B \subseteq Nat /\ Base \in Nat /\ e >= Base
      /\ \A c \in B : m[c].val \in Nat /\ m[c].val >= 4 /\ c <= e
      /\ B \subseteq Base .. (k - 1)
  <2>1. /\ Base \in Nat /\ k \in Nat /\ e \in Nat /\ B \subseteq Nat
        /\ \A c \in B : /\ m[c].val \in Nat /\ m[c].val >= 4 /\ c + m[c].val <= k
                        /\ c >= Base /\ c <= e
    BY HeapNumbers
  <2> QED
    BY <2>1 DEF Heap
<1>2. \A c \in B \ {e} : c + m[c].val <= e
  BY <1>1 DEF Heap
<1>3. \A c \in B \ {e} : /\ n[c] = m[c] /\ n[c].val = m[c].val
                         /\ n[c + m[c].val - 1] = m[c + m[c].val - 1]
  <2> TAKE c \in B \ {e}
  <2>1. c + m[c].val <= e
    BY <1>2
  <2> QED
    BY <1>1, <2>1, BlockOutside
<1>4. r \notin B /\ r \in Nat /\ r + 4 = k + s /\ k + s \in Nat
  BY <1>1
<1>5. C \subseteq Base .. (k + s - 1) /\ Base \in C /\ r \in C
  BY <1>1 DEF Heap
<1>6. ASSUME NEW c \in C
      PROVE  /\ n[c].val >= 4 /\ n[c + n[c].val - 1] = n[c]
             /\ c # r => c + n[c].val \in C
  <2>1. CASE c = e
    BY <1>1, <2>1
  <2>2. CASE c = r
    BY <1>1, <2>2
  <2>3. CASE c \in B \ {e}
    BY <1>3, <2>3 DEF Heap
  <2> QED
    BY <2>1, <2>2, <2>3
<1>7. ASSUME NEW c \in C, NEW d \in C, c < d
      PROVE  c + n[c].val <= d
  <2>1. CASE d = r /\ c = e
    BY <2>1
  <2>2. CASE d = r /\ c \in B \ {e}
    <3>1. c + m[c].val <= e /\ n[c].val = m[c].val /\ c \in Nat /\ m[c].val \in Nat
      BY <1>1, <1>2, <1>3, <2>2
    <3> QED
      BY <1>1, <2>2, <3>1
  <2>3. CASE d \in B /\ c = r
    <3>1. d <= e /\ d \in Nat /\ r \in Nat /\ e < r /\ r < d
      BY <1>1, <1>7, <2>3
    <3> QED
      BY <1>1, <3>1
  <2>4. CASE d \in B /\ c = e
    <3>1. d <= e /\ e < d /\ d \in Nat
      BY <1>1, <1>7, <2>4
    <3> QED
      BY <1>1, <3>1
  <2>5. CASE d \in B /\ c \in B \ {e}
    BY <1>3, <1>7, <2>5 DEF Heap
  <2>6. ~(c = r /\ d = r)
    BY <1>1, <1>7
  <2> QED
    BY <2>1, <2>2, <2>3, <2>4, <2>5, <2>6
<1>8. ASSUME NEW d \in C \ {Base}
      PROVE  \E c \in C : c + n[c].val = d
  <2>1. CASE d = r
    BY <2>1 DEF Heap
  <2>2. CASE d \in B
    <3>1. PICK c \in B : c + m[c].val = d
      BY <1>8, <2>2 DEF Heap
    <3>2. c # e
      BY <1>1, <2>2, <3>1
    <3> QED
      BY <1>3, <3>1, <3>2
  <2> QED
    BY <2>1, <2>2
<1>9. Heap(n, C, r, k + s)
  BY <1>4, <1>5, <1>6, <1>7, <1>8 DEF Heap
<1> QED
  BY <1>3, <1>4, <1>9


------------------------------------------------------------------------------
(* The free list as a value: memory m, its blocks L and its first block f *)

LEMMA RingFrame ==
    ASSUME NEW m, NEW n, NEW L, NEW f, Ring(m, L, f),
           \A b \in L : n[b + 1] = m[b + 1] /\ n[b + 2] = m[b + 2]
    PROVE  Ring(n, L, f)
<1>1. \A b \in L : /\ n[b + 1].val \in L /\ n[n[b + 1].val + 2].val = b
                   /\ n[b + 2].val \in L /\ n[n[b + 2].val + 1].val = b
  BY DEF Ring
<1>2. ASSUME NEW S \in SUBSET L, S # {}, \A b \in S : n[b + 1].val \in S
      PROVE  S = L
  <2>1. \A b \in S : m[b + 1].val \in S
    BY <1>2
  <2> QED
    BY <1>2, <2>1 DEF Ring
<1> QED
  BY <1>1, <1>2 DEF Ring

\* The links after a block left the circle.
LinksWithout(m, n, L, fb, prev, next) ==
  /\ prev = m[fb + 2].val /\ next = m[fb + 1].val
  /\ \A b \in L \ {fb} : /\ n[b + 1].val = IF b = prev THEN next ELSE m[b + 1].val
                         /\ n[b + 2].val = IF b = next THEN prev ELSE m[b + 2].val

LEMMA RingWithout ==
    ASSUME NEW m, NEW n, NEW L, NEW f, Ring(m, L, f), NEW fb \in L, NEW g,
           NEW prev, NEW next, LinksWithout(m, n, L, fb, prev, next),
           next # fb, g \in L \ {fb}
    PROVE  Ring(n, L \ {fb}, g)
<1> USE DEF LinksWithout
<1> DEFINE K == L \ {fb}
<1>1. /\ \A b \in L : /\ m[b + 1].val \in L /\ m[m[b + 1].val + 2].val = b
                      /\ m[b + 2].val \in L /\ m[m[b + 2].val + 1].val = b
      /\ prev \in L /\ next \in L /\ m[prev + 1].val = fb /\ m[next + 2].val = fb
  BY DEF Ring
<1>2. prev # fb
  BY <1>1
<1>3. prev \in K /\ next \in K /\ n[prev + 1].val = next /\ n[next + 2].val = prev
  BY <1>1, <1>2
<1>4. ASSUME NEW b \in K
      PROVE  n[b + 1].val \in K /\ n[n[b + 1].val + 2].val = b
  <2>1. CASE b = prev
    BY <1>3, <2>1
  <2>2. CASE b # prev
    <3>1. n[b + 1].val = m[b + 1].val /\ m[b + 1].val \in L
      BY <1>1, <2>2
    <3>2. m[b + 1].val # fb /\ m[b + 1].val # next
      BY <1>1, <2>2
    <3> QED
      BY <1>1, <3>1, <3>2
  <2> QED
    BY <2>1, <2>2
<1>5. ASSUME NEW b \in K
      PROVE  n[b + 2].val \in K /\ n[n[b + 2].val + 1].val = b
  <2>1. CASE b = next
    BY <1>3, <2>1
  <2>2. CASE b # next
    <3>1. n[b + 2].val = m[b + 2].val /\ m[b + 2].val \in L
      BY <1>1, <2>2
    <3>2. m[b + 2].val # fb /\ m[b + 2].val # prev
      BY <1>1, <2>2
    <3> QED
      BY <1>1, <3>1, <3>2
  <2> QED
    BY <2>1, <2>2
<1>6. ASSUME NEW S \in SUBSET K, S # {}, \A b \in S : n[b + 1].val \in S
      PROVE  S = K
  <2>1. prev \in S
    <3> SUFFICES ASSUME prev \notin S PROVE FALSE
      OBVIOUS
    <3>1. \A b \in S : m[b + 1].val \in S
      BY <1>6
    <3>2. S = L
      BY <1>6, <3>1 DEF Ring
    <3> QED
      BY <3>2
  <2>2. next \in S
    BY <1>3, <1>6, <2>1
  <2> DEFINE T == S \cup {fb}
  <2>3. ASSUME NEW b \in T PROVE m[b + 1].val \in T
    <3>1. CASE b = fb
      BY <2>2, <3>1
    <3>2. CASE b = prev
      BY <1>1, <3>2
    <3>3. CASE b \in S /\ b # prev
      BY <1>6, <3>3
    <3> QED
      BY <3>1, <3>2, <3>3
  <2>4. T \in SUBSET L /\ T # {}
    OBVIOUS
  <2>5. T = L
    <3> HIDE DEF T
    <3> QED
      BY <2>3, <2>4 DEF Ring
  <2> QED
    BY <2>5
<1> HIDE DEF K
<1>7. g \in K
  BY DEF K
<1>8. Ring(n, K, g)
  BY <1>4, <1>5, <1>6, <1>7 DEF Ring
<1> QED
  BY <1>8 DEF K

\* A block whose next link leads to itself is alone.
LEMMA RingAlone ==
    ASSUME NEW m, NEW L, NEW f, Ring(m, L, f), NEW fb \in L, m[fb + 1].val = fb
    PROVE  L = {fb} /\ f = fb
<1>1. {fb} \in SUBSET L /\ {fb} # {} /\ \A b \in {fb} : m[b + 1].val \in {fb}
  OBVIOUS
<1>2. {fb} = L
  BY <1>1 DEF Ring
<1> QED
  BY <1>2 DEF Ring

\* The links after a block entered the circle before its first one.
LinksWith(m, n, L, f, fb, last) ==
  /\ last = m[f + 2].val /\ n[fb + 1].val = f /\ n[fb + 2].val = last
  /\ \A b \in L : /\ n[b + 1].val = IF b = last THEN fb ELSE m[b + 1].val
                  /\ n[b + 2].val = IF b = f THEN fb ELSE m[b + 2].val

LEMMA RingWith ==
    ASSUME NEW m, NEW n, NEW L, NEW f \in L, Ring(m, L, f), NEW fb, fb \notin L,
           NEW last, LinksWith(m, n, L, f, fb, last)
    PROVE  Ring(n, L \cup {fb}, fb)
<1> USE DEF LinksWith
<1> DEFINE K == L \cup {fb}
<1>1. /\ \A b \in L : /\ m[b + 1].val \in L /\ m[m[b + 1].val + 2].val = b
                      /\ m[b + 2].val \in L /\ m[m[b + 2].val + 1].val = b
      /\ last \in L /\ m[last + 1].val = f
  BY DEF Ring
<1>2. ASSUME NEW b \in K
      PROVE  n[b + 1].val \in K /\ n[n[b + 1].val + 2].val = b
  <2>1. CASE b = fb
    BY <2>1
  <2>2. CASE b = last
    BY <1>1, <2>2
  <2>3. CASE b \in L /\ b # last
    <3>1. n[b + 1].val = m[b + 1].val /\ m[b + 1].val \in L
      BY <1>1, <2>3
    <3>2. m[b + 1].val # f
      BY <1>1, <2>3
    <3> QED
      BY <1>1, <2>3, <3>1, <3>2
  <2> QED
    BY <2>1, <2>2, <2>3
<1>3. ASSUME NEW b \in K
      PROVE  n[b + 2].val \in K /\ n[n[b + 2].val + 1].val = b
  <2>1. CASE b = fb
    BY <1>1, <2>1
  <2>2. CASE b = f
    BY <1>1, <2>2
  <2>3. CASE b \in L /\ b # f
    <3>1. n[b + 2].val = m[b + 2].val /\ m[b + 2].val \in L
      BY <1>1, <2>3
    <3>2. m[b + 2].val # last
      BY <1>1, <2>3
    <3> QED
      BY <1>1, <2>3, <3>1, <3>2
  <2> QED
    BY <2>1, <2>2, <2>3
<1>4. ASSUME NEW S \in SUBSET K, S # {}, \A b \in S : n[b + 1].val \in S
      PROVE  S = K
  <2> DEFINE T == S \ {fb}
  <2>1. fb \in S => f \in T
    BY <1>4
  <2>2. ASSUME NEW b \in T PROVE m[b + 1].val \in T
    <3>1. b \in L /\ b \in S /\ n[b + 1].val \in S
      BY <1>4
    <3>2. CASE b = last
      <4>1. fb \in S
        BY <3>1, <3>2
      <4> QED
        BY <1>1, <2>1, <3>2, <4>1
    <3>3. CASE b # last
      BY <1>1, <3>1, <3>3
    <3> QED
      BY <3>2, <3>3
  <2>3. T \in SUBSET L /\ T # {}
    BY <1>4, <2>1
  <2>4. T = L
    <3> HIDE DEF T
    <3> QED
      BY <2>2, <2>3 DEF Ring
  <2>5. last \in S /\ n[last + 1].val = fb
    BY <1>1, <2>4
  <2> QED
    BY <1>4, <2>4, <2>5
<1> HIDE DEF K
<1>5. fb \in K
  BY DEF K
<1>6. Ring(n, K, fb)
  BY <1>2, <1>3, <1>4, <1>5 DEF Ring
<1> QED
  BY <1>6 DEF K


\* A write of list pointers spares everything but the pointers of the blocks L.
Spares(m, n, L) == \A x \in Arena : (\A b \in L : x # b + 1 /\ x # b + 2) => n[x] = m[x]

LEMMA LinksOnly ==
    ASSUME NEW m, NEW B, NEW e, NEW k, Heap(m, B, e, k), NEW L \in SUBSET B,
           NEW n \in [Arena -> Word], Spares(m, n, L)
    PROVE  /\ Heap(n, B, e, k)
           /\ \A c \in B : n[c] = m[c]
<1>1. ASSUME NEW c \in B
      PROVE  n[c] = m[c] /\ n[c + m[c].val - 1] = m[c + m[c].val - 1]
  <2>1. /\ c \in Nat /\ c \in Arena /\ c + m[c].val - 1 \in Arena
        /\ m[c].val \in Nat /\ m[c].val >= 4
    BY BlockWords
  <2>2. ASSUME NEW b \in L
        PROVE  /\ c # b + 1 /\ c # b + 2
               /\ c + m[c].val - 1 # b + 1 /\ c + m[c].val - 1 # b + 2
    <3>1. b \in Nat /\ b \in B /\ m[b].val \in Nat /\ m[b].val >= 4
      BY BlockWords
    <3>2. CASE b = c
      BY <2>1, <3>2
    <3>3. CASE b # c
      <4>1. c + m[c].val <= b \/ b + m[b].val <= c
        BY <3>1, <3>3, Disjoint
      <4> QED
        BY <2>1, <3>1, <4>1
    <3> QED
      BY <3>2, <3>3
  <2> QED
    BY <2>1, <2>2 DEF Spares
<1>2. Heap(n, B, e, k)
  BY <1>1, HeapFrame
<1> QED
  BY <1>1, <1>2

\* The blocks of a list, and the words of their pointers, are distinct.
LEMMA Spaced ==
    ASSUME NEW m, NEW B, NEW e, NEW k, Heap(m, B, e, k)
    PROVE  \A b, c \in B : /\ b \in Nat /\ b + 1 \in Arena /\ b + 2 \in Arena
                           /\ b + 1 # c + 2 /\ b # NULL
<1> SUFFICES ASSUME NEW b \in B, NEW c \in B
             PROVE  /\ b \in Nat /\ b + 1 \in Arena /\ b + 2 \in Arena
                    /\ b + 1 # c + 2 /\ b # NULL
  OBVIOUS
<1>1. /\ b \in Nat /\ b + 1 \in Arena /\ b + 2 \in Arena /\ b > 0
      /\ m[b].val \in Nat /\ m[b].val >= 4
      /\ c \in Nat /\ m[c].val \in Nat /\ m[c].val >= 4
  BY BlockWords
<1>2. b # c => c + m[c].val <= b \/ b + m[b].val <= c
  BY Disjoint
<1> QED
  BY <1>1, <1>2 DEF NULL

\* pull_free_block takes a block out of the circle.
PullWrite(m, n, fb, prev, next) ==
  /\ prev = m[fb + 2].val /\ next = m[fb + 1].val
  /\ n = [m EXCEPT ![prev + 1] = Pointer(next), ![next + 2] = Pointer(prev)]

LEMMA PullWrites ==
    ASSUME NEW m, NEW B, NEW e, NEW k, Heap(m, B, e, k), NEW L \in SUBSET B, NEW f,
           Ring(m, L, f), NEW fb \in L, NEW prev, NEW next, ~(f = fb /\ next = fb),
           NEW n, PullWrite(m, n, fb, prev, next)
    PROVE  /\ n \in [Arena -> Word] /\ Spares(m, n, L)
           /\ prev \in L /\ next \in L
           /\ Ring(n, L \ {fb}, IF f = fb THEN next ELSE f)
<1> USE DEF PullWrite
<1>1. prev \in L /\ next \in L
  BY DEF Ring
<1>2. next # fb
  BY RingAlone
<1>3. m \in [Arena -> Word]
  BY DEF Heap
<1>4. \A b, c \in L : /\ b \in Nat /\ b + 1 \in Arena /\ b + 2 \in Arena
                      /\ b + 1 # c + 2 /\ b # NULL
  BY Spaced
<1>5. /\ Pointer(next) \in Word /\ Pointer(prev) \in Word
      /\ Pointer(next).val = next /\ Pointer(prev).val = prev
  BY <1>1, <1>4 DEF Pointer, Word
<1>6. n \in [Arena -> Word]
  BY <1>3, <1>5
<1>7. Spares(m, n, L)
  BY <1>1, <1>3 DEF Spares
<1>8. ASSUME NEW b \in L
      PROVE  /\ n[b + 1].val = IF b = prev THEN next ELSE m[b + 1].val
             /\ n[b + 2].val = IF b = next THEN prev ELSE m[b + 2].val
  <2>1. /\ b + 1 \in Arena /\ b + 2 \in Arena /\ b + 1 # next + 2 /\ b + 2 # prev + 1
        /\ b \in Nat /\ prev \in Nat /\ next \in Nat
    BY <1>1, <1>4
  <2>2. (b + 1 = prev + 1 <=> b = prev) /\ (b + 2 = next + 2 <=> b = next)
    BY <2>1
  <2> QED
    BY <1>3, <1>5, <2>1, <2>2
<1>9. (IF f = fb THEN next ELSE f) \in L \ {fb}
  BY <1>1, <1>2 DEF Ring
<1>10. Ring(n, L \ {fb}, IF f = fb THEN next ELSE f)
  <2> DEFINE g == IF f = fb THEN next ELSE f
  <2>1. g \in L \ {fb}
    BY <1>9
  <2>2. LinksWithout(m, n, L, fb, prev, next)
    BY <1>8 DEF LinksWithout
  <2> HIDE DEF g
  <2>3. Ring(n, L \ {fb}, g)
    BY <1>2, <2>1, <2>2, RingWithout, Zenon
  <2> QED
    BY <2>3 DEF g
<1> QED
  BY <1>1, <1>6, <1>7, <1>10

\* insert_free_block puts a block into the circle.
InsertWrite(m, n, f, fb, last) ==
  /\ last = m[f + 2].val
  /\ n = [m EXCEPT ![fb + 1] = Pointer(f), ![fb + 2] = Pointer(last),
                   ![last + 1] = Pointer(fb), ![f + 2] = Pointer(fb)]

LEMMA InsertWrites ==
    ASSUME NEW m, NEW B, NEW e, NEW k, Heap(m, B, e, k), NEW L \in SUBSET B, NEW f \in L,
           Ring(m, L, f), NEW fb \in B \ L, NEW last,
           NEW n, InsertWrite(m, n, f, fb, last)
    PROVE  /\ n \in [Arena -> Word] /\ Spares(m, n, L \cup {fb})
           /\ last \in L
           /\ Ring(n, L \cup {fb}, fb)
<1> USE DEF InsertWrite
<1>1. last \in L
  BY DEF Ring
<1>2. m \in [Arena -> Word]
  BY DEF Heap
<1>3. \A b, c \in B : /\ b \in Nat /\ b + 1 \in Arena /\ b + 2 \in Arena
                      /\ b + 1 # c + 2 /\ b # NULL
  BY Spaced
<1>4. /\ Pointer(f) \in Word /\ Pointer(last) \in Word /\ Pointer(fb) \in Word
      /\ Pointer(f).val = f /\ Pointer(last).val = last /\ Pointer(fb).val = fb
  BY <1>1, <1>3 DEF Pointer, Word
<1>5. n \in [Arena -> Word]
  BY <1>2, <1>4
<1>6. Spares(m, n, L \cup {fb})
  BY <1>1, <1>2 DEF Spares
<1>7. ASSUME NEW b \in L
      PROVE  /\ n[b + 1].val = IF b = last THEN fb ELSE m[b + 1].val
             /\ n[b + 2].val = IF b = f THEN fb ELSE m[b + 2].val
  <2>1. /\ b + 1 \in Arena /\ b + 2 \in Arena /\ b \in Nat /\ last \in Nat /\ f \in Nat /\ fb \in Nat
        /\ b + 1 # fb + 2 /\ b + 1 # f + 2 /\ b + 2 # fb + 1 /\ b + 2 # last + 1
    BY <1>1, <1>3
  <2>2. /\ (b + 1 = last + 1 <=> b = last) /\ (b + 2 = f + 2 <=> b = f)
        /\ b + 1 # fb + 1 /\ b + 2 # fb + 2
    BY <2>1
  <2> QED
    BY <1>2, <1>4, <2>1, <2>2
<1>8. n[fb + 1].val = f /\ n[fb + 2].val = last
  <2>1. /\ fb + 1 \in Arena /\ fb + 2 \in Arena /\ fb \in Nat /\ last \in Nat /\ f \in Nat
        /\ fb + 1 # f + 2 /\ fb + 2 # last + 1
    BY <1>1, <1>3
  <2>2. fb + 1 # last + 1 /\ fb + 2 # f + 2 /\ fb + 1 # fb + 2
    BY <1>1, <2>1
  <2> QED
    BY <1>2, <1>4, <2>1, <2>2
<1>9. Ring(n, L \cup {fb}, fb)
  <2>1. LinksWith(m, n, L, f, fb, last) /\ fb \notin L
    BY <1>7, <1>8 DEF LinksWith
  <2> QED
    BY <2>1, RingWith, Zenon
<1> QED
  BY <1>1, <1>5, <1>6, <1>9

LEMMA InsertAlone ==
    ASSUME NEW m, NEW B, NEW e, NEW k, Heap(m, B, e, k), NEW fb \in B,
           NEW n, n = [m EXCEPT ![fb + 1] = Pointer(fb), ![fb + 2] = Pointer(fb)]
    PROVE  /\ n \in [Arena -> Word] /\ Spares(m, n, {fb}) /\ Ring(n, {fb}, fb)
<1>1. m \in [Arena -> Word]
  BY DEF Heap
<1>2. fb \in Nat /\ fb + 1 \in Arena /\ fb + 2 \in Arena
  BY BlockWords
<1>3. Pointer(fb) \in Word /\ Pointer(fb).val = fb
  BY <1>2 DEF Pointer, Word
<1>4. n \in [Arena -> Word] /\ n[fb + 1].val = fb /\ n[fb + 2].val = fb
  BY <1>1, <1>2, <1>3
<1>5. Spares(m, n, {fb})
  BY <1>1 DEF Spares
<1>6. Ring(n, {fb}, fb)
  BY <1>4 DEF Ring
<1> QED
  BY <1>4, <1>5, <1>6


------------------------------------------------------------------------------
(* A loop over the free list *)

\* A set of natural numbers has a least element.
LEMMA LeastOf ==
    ASSUME NEW places \in SUBSET Nat, places # {}
    PROVE  \E i \in places : \A j \in places : i <= j
<1> DEFINE R == OpToRel(<, Nat)
<1>1. IsWellFoundedOn(R, Nat)
  BY NatLessThanWellFounded
<1>2. \A i, j \in Nat : <<j, i>> \in R <=> j < i
  BY DEF OpToRel
<1> HIDE DEF R
<1>3. PICK i \in places : \A j \in places : ~(<<j, i>> \in R)
  BY <1>1, WFMin
<1>4. ASSUME NEW j \in places
      PROVE  i <= j
  <2>1. ~(<<j, i>> \in R) /\ i \in Nat /\ j \in Nat
    BY <1>3
  <2>2. ~(j < i)
    BY <2>1, <1>2, Zenon
  <2> QED
    BY <2>1, <2>2
<1> QED
  BY <1>4

\* A walk of n steps along the links nx, from a.
Walk(f, n, L, nx, a) ==
  f \in [0 .. n -> L] /\ f[0] = a /\ \A j \in 1 .. n : f[j] = nx[f[j - 1]]

LEMMA WalkExists ==
    ASSUME NEW L, NEW a \in L, NEW nx \in [L -> L], NEW N \in Nat
    PROVE  \E f : Walk(f, N, L, nx, a)
<1> DEFINE missing == {n \in Nat : ~ \E f : Walk(f, n, L, nx, a)}
<1> SUFFICES ASSUME missing # {} PROVE FALSE
  OBVIOUS
<1>1. PICK n \in missing : \A j \in missing : n <= j
  BY LeastOf
<1>2. n \in Nat /\ ~ \E f : Walk(f, n, L, nx, a)
  BY <1>1
<1>3. n # 0
  <2> SUFFICES ASSUME n = 0 PROVE FALSE
    OBVIOUS
  <2>1. Walk([j \in 0 .. 0 |-> a], 0, L, nx, a)
    BY DEF Walk
  <2> QED
    BY <1>2, <2>1
<1>4. n - 1 \in Nat /\ n - 1 \notin missing
  BY <1>1, <1>2, <1>3
<1>5. PICK f : Walk(f, n - 1, L, nx, a)
  BY <1>4
<1> HIDE DEF missing
<1> DEFINE g == [j \in 0 .. n |-> IF j = n THEN nx[f[n - 1]] ELSE f[j]]
<1>6. f[n - 1] \in L /\ nx[f[n - 1]] \in L
  BY <1>2, <1>4, <1>5 DEF Walk
<1>7. g \in [0 .. n -> L]
  BY <1>2, <1>5, <1>6 DEF Walk
<1>8. g[0] = a
  BY <1>2, <1>3, <1>5 DEF Walk
<1>9. ASSUME NEW j \in 1 .. n PROVE g[j] = nx[g[j - 1]]
  <2>1. j - 1 \in 0 .. n /\ j - 1 # n /\ g[j - 1] = f[j - 1]
    BY <1>2
  <2>2. CASE j = n
    BY <1>2, <2>1, <2>2
  <2>3. CASE j # n
    BY <1>2, <1>5, <2>1, <2>3 DEF Walk
  <2> QED
    BY <2>2, <2>3
<1>10. Walk(g, n, L, nx, a)
  <2> HIDE DEF g
  <2> QED
    BY <1>7, <1>8, <1>9 DEF Walk
<1> QED
  BY <1>2, <1>10

\* A walk along a circle that is long enough comes back to where it began.
LEMMA WalkReturns ==
    ASSUME NEW L, NEW a \in L, NEW nx \in [L -> L], NEW pv, NEW N \in Nat,
           \A b \in L : pv[nx[b]] = b, IsFiniteSet(L), Cardinality(L) <= N,
           NEW f, Walk(f, N, L, nx, a)
    PROVE  \E j \in 1 .. N : f[j] = a
<1> DEFINE I == 0 .. N
           again == {i \in I : \E j \in I : i < j /\ f[i] = f[j]}
<1>1. IsFiniteSet(I) /\ Cardinality(I) = N + 1
  BY FS_Interval
<1>2. Cardinality(L) \in Nat
  BY FS_CardinalityType
<1>3. Cardinality(L) < Cardinality(I)
  BY <1>1, <1>2
<1>4. f \in [I -> L]
  BY DEF Walk
<1>5. \E x, y \in I : x # y /\ f[x] = f[y]
  <2> HIDE DEF I
  <2> QED
    BY <1>1, <1>3, <1>4, FS_PigeonHole
<1>6. again # {} /\ again \in SUBSET Nat
  <2>1. PICK x \in I, y \in I : x # y /\ f[x] = f[y]
    BY <1>5
  <2>2. x < y \/ y < x
    BY <2>1
  <2> QED
    BY <2>1, <2>2
<1>7. PICK i \in again : \A j \in again : i <= j
  <2> HIDE DEF again
  <2> QED
    BY <1>6, LeastOf
<1>8. PICK j \in I : i < j /\ f[i] = f[j]
  OBVIOUS
<1>9. i = 0
  <2> SUFFICES ASSUME i # 0 PROVE FALSE
    OBVIOUS
  <2>1. /\ i \in 1 .. N /\ j \in 1 .. N /\ i - 1 \in I /\ j - 1 \in I /\ i - 1 < j - 1
    BY <1>8
  <2>2. f[i] = nx[f[i - 1]] /\ f[j] = nx[f[j - 1]] /\ f[i - 1] \in L /\ f[j - 1] \in L
    BY <1>4, <2>1 DEF Walk
  <2>3. f[i - 1] = f[j - 1]
    <3>1. pv[f[i]] = f[i - 1] /\ pv[f[j]] = f[j - 1]
      BY <2>2, Zenon
    <3> QED
      BY <1>8, <3>1, Zenon
  <2>4. i - 1 \in again
    BY <2>1, <2>3
  <2> QED
    BY <1>7, <2>1, <2>4
<1> QED
  BY <1>8, <1>9 DEF Walk

\* Not more than MaxBlocks blocks fit into the arena.
LEMMA Packed ==
    ASSUME NEW m, NEW B, NEW e, NEW k, Heap(m, B, e, k)
    PROVE  IsFiniteSet(B) /\ Cardinality(B) <= MaxBlocks /\ MaxBlocks \in Nat
<1> DEFINE T == 0 .. (MaxBlocks - 1)
           slot == [b \in B |-> (b - Base) \div 4]
<1>1. Base \in Nat /\ MaxHeap \in Nat /\ MaxHeap >= 12
  BY ArenaAssumption DEF MINBLOCKSIZE
<1>2. MaxBlocks = MaxHeap \div 4 /\ MaxBlocks \in Nat
  BY <1>1 DEF MaxBlocks, MINBLOCKSIZE
<1>3. k <= Base + MaxHeap
  BY DEF Heap
<1>4. ASSUME NEW b \in B
      PROVE  b \in Nat /\ b - Base \in 0 .. (MaxHeap - 4)
  <2>1. /\ b \in Nat /\ m[b].val \in Nat /\ m[b].val >= 4 /\ b + m[b].val <= k
        /\ b >= Base /\ k \in Nat
    BY HeapNumbers
  <2> QED
    BY <1>1, <1>3, <2>1
<1>5. slot \in [B -> T]
  <2>1. \A b \in B : (b - Base) \div 4 \in T
    BY <1>1, <1>2, <1>4
  <2> QED
    BY <2>1
<1>6. ASSUME NEW b \in B, NEW c \in B, slot[b] = slot[c]
      PROVE  b = c
  <2>1. /\ b \in Nat /\ m[b].val \in Nat /\ m[b].val >= 4 /\ b >= Base
        /\ c \in Nat /\ m[c].val \in Nat /\ m[c].val >= 4 /\ c >= Base
    BY HeapNumbers
  <2>2. b # c => c + m[c].val <= b \/ b + m[b].val <= c
    BY Disjoint
  <2>3. (b - Base) \div 4 = (c - Base) \div 4
    BY <1>6
  <2>4. b - Base \in Nat /\ c - Base \in Nat
    BY <1>1, <2>1
  <2>5. b - Base < (c - Base) + 4 /\ c - Base < (b - Base) + 4
    BY <2>3, <2>4
  <2> QED
    BY <1>1, <2>1, <2>2, <2>5
<1>7. IsFiniteSet(T) /\ Cardinality(T) = MaxBlocks
  <2>1. MaxBlocks - 1 \in Int /\ 0 \in Int
    BY <1>2
  <2>2. /\ IsFiniteSet(0 .. (MaxBlocks - 1))
        /\ Cardinality(0 .. (MaxBlocks - 1))
             = IF 0 > MaxBlocks - 1 THEN 0 ELSE (MaxBlocks - 1) - 0 + 1
    BY <2>1, FS_Interval, Zenon
  <2> QED
    BY <1>2, <2>2
<1>8. slot \in Injection(B, T)
  <2> HIDE DEF slot, T
  <2> QED
    BY <1>5, <1>6 DEF Injection, IsInjective
<1> HIDE DEF slot, T
<1> QED
  BY <1>2, <1>7, <1>8, FS_Injection


LEMMA WordIs == \A a \in Arena : word(a) = mem[a]
  BY DEF word

\* The loop over the free list passes its blocks and comes to an end.
LEMMA HopWalks ==
    ASSUME HeapOK, NEW L \in SUBSET blocks, Ring(mem, L, flist_first), L # {}
    PROVE  Walk(hop, MaxBlocks, L, [b \in L |-> mem[b + 1].val], flist_first)
<1> DEFINE N == MaxBlocks
           nx == [b \in L |-> mem[b + 1].val]
           a == flist_first
<1>1. N \in Nat
  BY Packed DEF HeapOK
<1>2. a \in L /\ nx \in [L -> L]
  BY DEF Ring
<1>3. \A b \in L : block_next_free(b) = nx[b]
  <2> SUFFICES ASSUME NEW b \in L PROVE block_next_free(b) = nx[b]
    OBVIOUS
  <2>1. b + 1 \in Arena
    BY BlockWords DEF HeapOK
  <2> QED
    BY <2>1, WordIs DEF block_next_free
<1> HIDE DEF N, nx
<1>4. PICK g : Walk(g, N, L, nx, a)
  BY <1>1, <1>2, WalkExists
<1>5. g = [j \in 0 .. N |-> IF j = 0 THEN flist_first ELSE block_next_free(g[j - 1])]
  <2>1. g \in [0 .. N -> L]
    BY <1>4 DEF Walk
  <2>2. ASSUME NEW j \in 0 .. N
        PROVE  g[j] = IF j = 0 THEN flist_first ELSE block_next_free(g[j - 1])
    <3>1. CASE j = 0
      BY <1>4, <3>1 DEF Walk
    <3>2. CASE j # 0
      <4>1. j \in 1 .. N /\ j - 1 \in 0 .. N
        BY <1>1, <3>2
      <4>2. g[j] = nx[g[j - 1]] /\ g[j - 1] \in L
        BY <1>4, <2>1, <4>1 DEF Walk
      <4> QED
        BY <1>3, <3>2, <4>2
    <3> QED
      BY <3>1, <3>2
  <2> QED
    BY <2>1, <2>2
<1>6. hop = [j \in 0 .. N |-> IF j = 0 THEN flist_first ELSE block_next_free(hop[j - 1])]
  <2> DEFINE H(h) == h = [j \in 0 .. N |-> IF j = 0 THEN flist_first
                                           ELSE block_next_free(h[j - 1])]
  <2>1. H(g)
    BY <1>5
  <2>2. hop = CHOOSE h : H(h)
    BY DEF hop, N
  <2> HIDE DEF H
  <2>3. H(hop)
    BY <2>1, <2>2
  <2> QED
    BY <2>3 DEF H
<1>7. hop[0] = a
  BY <1>1, <1>6
<1>8. \A j \in 1 .. N : hop[j] = block_next_free(hop[j - 1])
  <2> SUFFICES ASSUME NEW j \in 1 .. N PROVE hop[j] = block_next_free(hop[j - 1])
    OBVIOUS
  <2>1. j \in 0 .. N /\ j # 0
    BY <1>1
  <2> QED
    BY <1>6, <2>1
<1>9. \A j \in 0 .. N : hop[j] \in L
  <2> DEFINE bad == {j \in 0 .. N : hop[j] \notin L}
  <2> SUFFICES ASSUME bad # {} PROVE FALSE
    OBVIOUS
  <2>1. bad \in SUBSET Nat
    BY <1>1
  <2>2. PICK j \in bad : \A i \in bad : j <= i
    <3> HIDE DEF bad
    <3> QED
      BY <2>1, LeastOf
  <2>3. j # 0 /\ j \in 0 .. N
    BY <1>2, <1>7
  <2>4. j - 1 \in 0 .. N /\ j - 1 \notin bad /\ j \in 1 .. N
    BY <1>1, <2>2, <2>3
  <2>5. hop[j - 1] \in L
    BY <2>4
  <2>6. hop[j] = nx[hop[j - 1]]
    BY <1>3, <1>8, <2>4, <2>5
  <2> QED
    BY <1>2, <2>2, <2>5, <2>6
<1>10. hop \in [0 .. N -> L]
  BY <1>6, <1>9
<1>11. \A j \in 1 .. N : hop[j] = nx[hop[j - 1]]
  <2> SUFFICES ASSUME NEW j \in 1 .. N PROVE hop[j] = nx[hop[j - 1]]
    OBVIOUS
  <2>1. j - 1 \in 0 .. N
    BY <1>1
  <2> QED
    BY <1>3, <1>8, <1>9, <2>1
<1>12. Walk(hop, N, L, nx, a)
  BY <1>7, <1>10, <1>11 DEF Walk
<1> QED
  BY <1>12 DEF N, nx

LEMMA OnList ==
    ASSUME HeapOK, NEW L \in SUBSET blocks, Ring(mem, L, flist_first)
    PROVE  /\ closes /\ on_list = L
           /\ DOMAIN free_list \subseteq Nat
           /\ \A j \in DOMAIN free_list : free_list[j] \in L
<1>1. CASE L = {}
  <2>1. flist_first = NULL
    BY <1>1 DEF Ring
  <2>2. free_list = <<>>
    BY <2>1 DEF free_list
  <2>3. DOMAIN free_list = {}
    BY <2>2
  <2> QED
    BY <1>1, <2>1, <2>3 DEF closes, on_list
<1>2. CASE L # {}
  <2> DEFINE N == MaxBlocks
             nx == [b \in L |-> mem[b + 1].val]
             pv == [b \in L |-> mem[b + 2].val]
             a == flist_first
             rs == {j \in 1 .. N : hop[j] = flist_first}
             length == CHOOSE j \in rs : \A i \in rs : j <= i
  <2>1. /\ N \in Nat /\ IsFiniteSet(L) /\ Cardinality(L) <= N
    <3>1. IsFiniteSet(blocks) /\ Cardinality(blocks) <= N /\ N \in Nat
      BY Packed DEF HeapOK
    <3>2. IsFiniteSet(L) /\ Cardinality(L) <= Cardinality(blocks)
      BY <3>1, FS_Subset
    <3>3. Cardinality(L) \in Nat /\ Cardinality(blocks) \in Nat
      BY <3>1, <3>2, FS_CardinalityType
    <3> QED
      BY <3>1, <3>2, <3>3
  <2>2. a \in L /\ a # NULL /\ nx \in [L -> L] /\ \A b \in L : pv[nx[b]] = b
    <3>1. a \in L /\ nx \in [L -> L] /\ \A b \in L : pv[nx[b]] = b
      BY <1>2 DEF Ring
    <3>2. a \in blocks
      BY <3>1
    <3>3. a \in Nat /\ a > 0
      BY <3>2, BlockWords DEF HeapOK
    <3> QED
      BY <3>1, <3>3 DEF NULL
  <2>3. Walk(hop, N, L, nx, a)
    BY <1>2, HopWalks
  <2> HIDE DEF N, nx, pv
  <2>4. \E j \in 1 .. N : hop[j] = a
    BY <2>1, <2>2, <2>3, WalkReturns
  <2>5. rs # {} /\ rs \in SUBSET Nat /\ rounds = rs
    BY <2>1, <2>4 DEF rounds, N
  <2> HIDE DEF rs
  <2>6. length \in rs /\ \A i \in rs : length <= i
    BY <2>5, LeastOf
  <2>7. length \in 1 .. N /\ hop[length] = a
    BY <2>6 DEF rs
  <2>8. free_list = [j \in 1 .. length |-> hop[j - 1]]
    BY <2>2, <2>5 DEF free_list
  <2> HIDE DEF length
  <2>9. /\ DOMAIN free_list = 1 .. length
        /\ \A j \in 1 .. length : free_list[j] = hop[j - 1] /\ hop[j - 1] \in L
    <3>1. \A j \in 1 .. length : j - 1 \in 0 .. N
      BY <2>1, <2>7
    <3> QED
      BY <2>3, <2>8, <3>1 DEF Walk
  <2>10. on_list \in SUBSET L /\ on_list # {}
    <3>1. 1 \in 1 .. length
      BY <2>1, <2>7
    <3> QED
      BY <2>9, <3>1 DEF on_list
  <2>11. ASSUME NEW b \in on_list PROVE mem[b + 1].val \in on_list
    <3>1. PICK j \in 1 .. length : b = free_list[j]
      BY <2>9 DEF on_list
    <3>2. b = hop[j - 1] /\ b \in L /\ j \in 1 .. N
      BY <2>1, <2>7, <2>9, <3>1
    <3>3. mem[b + 1].val = hop[j]
      BY <2>3, <3>2 DEF Walk, nx
    <3>4. CASE j = length
      <4>1. 1 \in 1 .. length /\ free_list[1] = hop[0] /\ hop[0] = a
        BY <2>1, <2>3, <2>7, <2>9 DEF Walk
      <4> QED
        BY <2>7, <2>9, <3>3, <3>4, <4>1 DEF on_list
    <3>5. CASE j # length
      <4>1. j + 1 \in 1 .. length /\ free_list[j + 1] = hop[j]
        BY <2>1, <2>7, <2>9, <3>5
      <4> QED
        BY <2>9, <3>3, <4>1 DEF on_list
    <3> QED
      BY <3>4, <3>5
  <2>12. on_list = L
    BY <2>10, <2>11 DEF Ring
  <2>13. DOMAIN free_list \subseteq Nat
    BY <2>1, <2>7, <2>9
  <2> QED
    BY <2>5, <2>9, <2>12, <2>13 DEF closes
<1> QED
  BY <1>1, <1>2


\* smallest is called so that it halves nothing.
LEMMA SmallestIs ==
    ASSUME NEW wanted \in Nat, NEW d \in Nat, d <= wanted
    PROVE  smallest(wanted, d) = d
<1> DEFINE H(h) == h = [x \in 0 .. d |-> IF x \div 2 > wanted THEN h[x \div 2] ELSE x]
           id == [x \in 0 .. d |-> x]
           halve == CHOOSE h : H(h)
<1>1. \A x \in 0 .. d : ~(x \div 2 > wanted)
  OBVIOUS
<1>2. H(id)
  BY <1>1
<1>3. H(halve)
  <2> HIDE DEF H, id
  <2> QED
    BY <1>2
<1>4. halve[d] = d
  <2> HIDE DEF halve
  <2>1. d \in 0 .. d
    OBVIOUS
  <2> QED
    BY <1>1, <1>3, <2>1
<1>5. smallest(wanted, d) = halve[d]
  BY DEF smallest
<1> QED
  BY <1>4, <1>5

\* Of the places K, the first with the least value.
LEMMA FirstLeast ==
    ASSUME NEW K \in SUBSET Nat, K # {}, NEW v \in [K -> Nat]
    PROVE  \E i \in K : \A j \in K : v[i] < v[j] \/ (v[i] = v[j] /\ i <= j)
<1> DEFINE values == {v[i] : i \in K}
<1>1. PICK x \in values : \A y \in values : x <= y
  <2>1. values \in SUBSET Nat /\ values # {}
    OBVIOUS
  <2> HIDE DEF values
  <2> QED
    BY <2>1, LeastOf
<1> DEFINE places == {i \in K : v[i] = x}
<1>2. PICK i \in places : \A j \in places : i <= j
  <2>1. places \in SUBSET Nat /\ places # {}
    OBVIOUS
  <2> HIDE DEF places
  <2> QED
    BY <2>1, LeastOf
<1>3. ASSUME NEW j \in K PROVE v[i] < v[j] \/ (v[i] = v[j] /\ i <= j)
  <2>1. v[i] = x /\ x <= v[j] /\ x \in Nat /\ v[j] \in Nat
    BY <1>1
  <2>2. v[j] = x => i <= j
    BY <1>2
  <2> QED
    BY <2>1, <2>2
<1> QED
  BY <1>2, <1>3

\* The search returns a block of the list that is large enough.
LEMMA BestFits ==
    ASSUME HeapOK, NEW L \in SUBSET blocks, Ring(mem, L, flist_first),
           NEW size \in Nat, fits(size) # {}
    PROVE  best(size) \in L /\ mem[best(size)].val >= size
<1> DEFINE K == fits(size)
           diff == [j \in K |-> smallest(block_size(free_list[j]),
                                         block_size(free_list[j]) - size)]
           P(i) == \A j \in DOMAIN diff :
                     diff[i] < diff[j] \/ (diff[i] = diff[j] /\ i <= j)
           i == CHOOSE i \in DOMAIN diff : P(i)
<1>1. K \in SUBSET Nat /\ \A j \in K : free_list[j] \in L /\ block_size(free_list[j]) >= size
  BY OnList DEF fits
<1>2. \A b \in L : block_size(b) = mem[b].val /\ mem[b].val \in Nat
  <2> SUFFICES ASSUME NEW b \in L PROVE block_size(b) = mem[b].val /\ mem[b].val \in Nat
    OBVIOUS
  <2>1. b \in Arena /\ mem[b].val \in Nat
    BY BlockWords DEF HeapOK
  <2> QED
    BY <2>1, WordIs DEF block_size
<1>3. ASSUME NEW j \in K
      PROVE  smallest(block_size(free_list[j]), block_size(free_list[j]) - size) \in Nat
  <2> DEFINE w == block_size(free_list[j])
  <2>1. w \in Nat /\ w >= size
    BY <1>1, <1>2
  <2> HIDE DEF w
  <2>2. w - size \in Nat /\ w - size <= w
    BY <2>1
  <2>3. smallest(w, w - size) = w - size
    BY <2>1, <2>2, SmallestIs
  <2>4. smallest(w, w - size) \in Nat
    BY <2>2, <2>3
  <2> QED
    BY <2>4 DEF w
<1>4. diff \in [K -> Nat] /\ DOMAIN diff = K
  BY <1>3
<1>5. best(size) = free_list[i]
  BY DEF best
<1>6. \E x \in K : P(x)
  <2> HIDE DEF diff, K
  <2>1. K # {}
    BY DEF K
  <2>2. \E x \in K : \A y \in K : diff[x] < diff[y] \/ (diff[x] = diff[y] /\ x <= y)
    BY <1>1, <1>4, <2>1, FirstLeast
  <2> QED
    BY <1>4, <2>2
<1> HIDE DEF P, K
<1>7. i \in K
  BY <1>4, <1>6
<1> HIDE DEF i
<1> QED
  BY <1>1, <1>2, <1>5, <1>7


------------------------------------------------------------------------------
(* The parts of the state, step by step *)

\* The blocks in transit, the pointers given up and the pointers that own a block.
PcIs(set) == pc \in set
PcTable ==
  /\ PcIs({"idle", "mm_malloc", "mm_free", "mm_realloc", "copy"}) =>
       InTransit = {} /\ ~Freeing /\ Released = {} /\ Owned = DOMAIN live \cup gained
  /\ pc = "return" =>
       /\ InTransit = {} /\ ~Freeing /\ Released = dropped \ (gained \cup {NULL})
       /\ Owned = (DOMAIN live \ Released) \cup gained
  /\ pc = "split" =>
       InTransit = {blk} /\ ~Freeing /\ Released = {} /\ Owned = DOMAIN live \cup gained
  /\ pc = "split_insert" =>
       /\ InTransit = {block_next(blk)} /\ ~Freeing /\ Released = {}
       /\ Owned = DOMAIN live \cup gained \cup {payload(blk)}
  /\ PcIs({"insert", "coalesce", "pull_next", "merge"}) =>
       Freeing /\ Released = {call.ptr} /\ Owned = (DOMAIN live \ {call.ptr}) \cup gained
  /\ pc = "insert" => InTransit = {blk}
  /\ pc = "coalesce" => InTransit = {}
  /\ pc = "pull_next" => InTransit = {blk}
  /\ pc = "merge" => InTransit = (IF prev_free THEN {blk} ELSE {})
                                   \cup (IF next_free THEN {block_next(blk)} ELSE {})

LEMMA PcTableHolds == PcTable
<1>1. ASSUME PcIs({"idle", "mm_malloc", "mm_free", "mm_realloc", "copy"})
      PROVE  InTransit = {} /\ ~Freeing /\ Released = {} /\ Owned = DOMAIN live \cup gained
  BY <1>1 DEF PcIs, InTransit, Freeing, Released, Owned
<1>2. ASSUME pc = "return"
      PROVE  /\ InTransit = {} /\ ~Freeing /\ Released = dropped \ (gained \cup {NULL})
             /\ Owned = (DOMAIN live \ Released) \cup gained
  BY <1>2 DEF InTransit, Freeing, Released, Owned
<1>3. ASSUME pc = "split"
      PROVE  InTransit = {blk} /\ ~Freeing /\ Released = {} /\ Owned = DOMAIN live \cup gained
  BY <1>3 DEF InTransit, Freeing, Released, Owned
<1>4. ASSUME pc = "split_insert"
      PROVE  /\ InTransit = {block_next(blk)} /\ ~Freeing /\ Released = {}
             /\ Owned = DOMAIN live \cup gained \cup {payload(blk)}
  BY <1>4 DEF InTransit, Freeing, Released, Owned
<1>5. ASSUME PcIs({"insert", "coalesce", "pull_next", "merge"})
      PROVE  Freeing /\ Released = {call.ptr} /\ Owned = (DOMAIN live \ {call.ptr}) \cup gained
  BY <1>5 DEF PcIs, Freeing, Released, Owned
<1>6. /\ pc = "insert" => InTransit = {blk}
      /\ pc = "coalesce" => InTransit = {}
      /\ pc = "pull_next" => InTransit = {blk}
      /\ pc = "merge" => InTransit = (IF prev_free THEN {blk} ELSE {})
                                       \cup (IF next_free THEN {block_next(blk)} ELSE {})
  BY DEF InTransit
<1> QED
  BY <1>1, <1>2, <1>3, <1>4, <1>5, <1>6 DEF PcTable

LEMMA PcTableAfter == PcTable'
  BY PcTableHolds, PTL

\* The free blocks as the tags say.
FreeSet(m, B) == {b \in B : m[b].bit = 0}
FreeView == HeapOK => FreeBlocks = FreeSet(mem, blocks)

LEMMA FreeIs == FreeView
<1> SUFFICES ASSUME HeapOK PROVE FreeBlocks = FreeSet(mem, blocks)
  BY DEF FreeView
<1>1. ASSUME NEW b \in blocks PROVE block_allocated(b) <=> mem[b].bit # 0
  <2>1. b \in Arena /\ mem[b].bit \in {0, 1}
    BY BlockWords DEF HeapOK
  <2> QED
    BY <2>1, WordIs DEF block_allocated
<1> QED
  BY <1>1 DEF FreeBlocks, FreeSet

LEMMA FreeAfter == FreeView'
  BY FreeIs, PTL

\* The neighbours of a block as the tags say.
NextView == HeapOK => \A b \in blocks : block_next(b) = b + mem[b].val /\ block_size(b) = mem[b].val

LEMMA NextIs == NextView
<1> SUFFICES ASSUME HeapOK, NEW b \in blocks
             PROVE  block_next(b) = b + mem[b].val /\ block_size(b) = mem[b].val
  BY DEF NextView
<1>1. b \in Arena
  BY BlockWords DEF HeapOK
<1> QED
  BY <1>1, WordIs DEF block_next, block_size

LEMMA NextAfter == NextView'
  BY NextIs, PTL

AmidView ==
  HeapOK /\ blk \in blocks /\ blk # Base /\ blk # epilogue =>
    /\ block_prev(blk) = blk - mem[blk - 1].val
    /\ prev_free <=> block_prev(blk) \in FreeBlocks
    /\ prev_free <=> mem[blk - 1].bit = 0
    /\ next_free <=> block_next(blk) \in FreeBlocks
    /\ next_free <=> mem[blk + mem[blk].val].bit = 0

LEMMA AmidIs == AmidView
<1> SUFFICES ASSUME HeapOK, blk \in blocks, blk # Base, blk # epilogue
             PROVE  /\ block_prev(blk) = blk - mem[blk - 1].val
                    /\ prev_free <=> block_prev(blk) \in FreeBlocks
                    /\ prev_free <=> mem[blk - 1].bit = 0
                    /\ next_free <=> block_next(blk) \in FreeBlocks
                    /\ next_free <=> mem[blk + mem[blk].val].bit = 0
  BY DEF AmidView
<1>1. FreeBlocks = FreeSet(mem, blocks)
  BY FreeIs DEF FreeView
<1>2. block_next(blk) = blk + mem[blk].val /\ blk + mem[blk].val \in blocks
  BY NextIs DEF NextView, HeapOK, Heap
<1>3. /\ blk - mem[blk - 1].val \in blocks /\ blk - 1 \in Arena
      /\ mem[blk - mem[blk - 1].val] = mem[blk - 1]
  BY BlockBefore DEF HeapOK
<1>4. block_prev(blk) = blk - mem[blk - 1].val
  BY <1>3, WordIs DEF block_prev
<1>5. prev_free <=> block_prev(blk) \in FreeBlocks
  BY <1>3, <1>4 DEF prev_free, FreeBlocks
<1>6. next_free <=> block_next(blk) \in FreeBlocks
  BY <1>2 DEF next_free, FreeBlocks
<1> QED
  BY <1>1, <1>2, <1>3, <1>4, <1>5, <1>6 DEF FreeSet

LEMMA AmidAfter == AmidView'
  BY AmidIs, PTL


\* A step that writes no tag: the same blocks, with the same sizes and bits.
SameTags ==
  /\ UNCHANGED <<brk, epilogue, blocks>>
  /\ HeapOK' /\ \A c \in blocks : mem'[c] = mem[c]

LEMMA SameTagsFree == ASSUME HeapOK, SameTags PROVE FreeBlocks' = FreeBlocks
<1>1. FreeBlocks = FreeSet(mem, blocks) /\ FreeBlocks' = FreeSet(mem', blocks')
  BY FreeIs, FreeAfter DEF FreeView, SameTags
<1>2. blocks' = blocks /\ \A c \in blocks : mem'[c] = mem[c]
  BY DEF SameTags
<1>3. FreeSet(mem', blocks) = FreeSet(mem, blocks)
  BY <1>2 DEF FreeSet
<1> QED
  BY <1>1, <1>2, <1>3

\* With the same tags the neighbours of the block are the same.
LEMMA SameTagsAmid ==
    ASSUME HeapOK, SameTags, blk' = blk, blk \in blocks, blk # Base, blk # epilogue
    PROVE  /\ prev_free' = prev_free /\ next_free' = next_free
           /\ block_next(blk)' = block_next(blk)
<1>1. /\ block_prev(blk) = blk - mem[blk - 1].val
      /\ prev_free <=> mem[blk - 1].bit = 0
      /\ next_free <=> mem[blk + mem[blk].val].bit = 0
  BY AmidIs DEF AmidView
<1>2. /\ prev_free' <=> mem'[blk - 1].bit = 0
      /\ next_free' <=> mem'[blk + mem'[blk].val].bit = 0
  BY AmidAfter DEF AmidView, SameTags
<1>3. mem'[blk] = mem[blk] /\ mem'[blk + mem[blk].val] = mem[blk + mem[blk].val]
  BY DEF SameTags, HeapOK, Heap
<1>4. mem'[blk - 1] = mem[blk - 1]
  <2> DEFINE c == blk - mem[blk - 1].val
  <2>1. c \in blocks /\ mem[c] = mem[blk - 1] /\ c + mem[c].val = blk
    BY BlockBefore DEF HeapOK
  <2> HIDE DEF c
  <2>2. c \in Nat /\ mem[c].val \in Nat /\ blk \in Nat
    BY <2>1, BlockWords DEF HeapOK
  <2>3. c + mem[c].val - 1 = blk - 1
    BY <2>1, <2>2
  <2>4. mem'[c] = mem[c] /\ mem'[c + mem'[c].val - 1] = mem'[c]
    BY <2>1 DEF SameTags, HeapOK, Heap
  <2> QED
    BY <2>1, <2>3, <2>4
<1>5. block_next(blk)' = block_next(blk)
  <2>1. block_next(blk) = blk + mem[blk].val
    BY NextIs DEF NextView
  <2>2. blk' \in blocks' /\ HeapOK'
    BY DEF SameTags
  <2>3. (block_next(blk))' = blk' + mem'[blk'].val
    BY <2>2, NextAfter DEF NextView
  <2> QED
    BY <1>3, <2>1, <2>3
<1>6. (prev_free \in BOOLEAN) /\ (next_free \in BOOLEAN) /\ (prev_free' \in BOOLEAN)
      /\ (next_free' \in BOOLEAN)
  BY DEF prev_free, next_free
<1> QED
  BY <1>1, <1>2, <1>3, <1>4, <1>5, <1>6

LEMMA PullKeeps ==
    ASSUME HeapOK, NEW L \in SUBSET FreeBlocks, Ring(mem, L, flist_first), NEW fb \in L, ok,
           pull_free_block(fb), UNCHANGED <<brk, epilogue, blocks>>
    PROVE  /\ ok' = TRUE /\ SameTags /\ Ring(mem', L \ {fb}, flist_first')
           /\ Spares(mem, mem', L)
<1> DEFINE prev == block_prev_free(fb)
           next == block_next_free(fb)
<1>1. Heap(mem, blocks, epilogue, brk)
  BY DEF HeapOK
<1>2. L \subseteq blocks /\ \A b \in L : ~block_allocated(b)
  BY DEF FreeBlocks
<1>3. prev = mem[fb + 2].val /\ next = mem[fb + 1].val
  <2>1. fb + 1 \in Arena /\ fb + 2 \in Arena
    BY <1>1, <1>2, BlockWords
  <2> QED
    BY <2>1, WordIs DEF block_next_free, block_prev_free
<1>4. prev \in L /\ next \in L
  BY <1>3 DEF Ring
<1> HIDE DEF prev, next
<1>5. CASE flist_first = fb /\ next = fb
  <2>1. flist_first' = NULL /\ mem' = mem /\ ok' = (ok /\ ~block_allocated(fb))
    BY <1>5 DEF pull_free_block, assert, next
  <2>2. L = {fb}
    BY <1>3, <1>5, RingAlone
  <2>3. L \ {fb} = {}
    BY <2>2
  <2>4. Ring(mem', L \ {fb}, flist_first')
    BY <2>1, <2>3 DEF Ring
  <2>5. SameTags
    BY <1>1, <2>1 DEF SameTags, HeapOK
  <2> QED
    BY <1>2, <2>1, <2>4, <2>5 DEF Spares
<1>6. CASE ~(flist_first = fb /\ next = fb)
  <2>1. /\ flist_first' = IF flist_first = fb THEN next ELSE flist_first
        /\ mem' = [mem EXCEPT ![prev + 1] = Pointer(next), ![next + 2] = Pointer(prev)]
        /\ ok' = (ok /\ \A b \in {fb, prev, next} : ~block_allocated(b))
    BY <1>6 DEF pull_free_block, assert, next, prev
  <2>2. ok' = TRUE
    BY <1>2, <1>4, <2>1
  <2>3. /\ mem' \in [Arena -> Word] /\ Spares(mem, mem', L)
        /\ Ring(mem', L \ {fb}, IF flist_first = fb THEN next ELSE flist_first)
    <3>1. L \in SUBSET blocks
      BY <1>2
    <3>2. PullWrite(mem, mem', fb, prev, next)
      BY <1>3, <2>1 DEF PullWrite
    <3> QED
      BY <1>1, <1>6, <3>1, <3>2, PullWrites, Zenon
  <2>4. Heap(mem', blocks, epilogue, brk) /\ \A c \in blocks : mem'[c] = mem[c]
    BY <1>1, <1>2, <2>3, LinksOnly
  <2>5. SameTags
    BY <2>4 DEF SameTags, HeapOK
  <2> QED
    BY <2>1, <2>2, <2>3, <2>5
<1> QED
  BY <1>5, <1>6

LEMMA InsertKeeps ==
    ASSUME HeapOK, NEW L \in SUBSET FreeBlocks, Ring(mem, L, flist_first),
           NEW fb \in FreeBlocks \ L, ok,
           insert_free_block(fb), UNCHANGED <<brk, epilogue, blocks>>
    PROVE  /\ ok' = TRUE /\ SameTags /\ Ring(mem', L \cup {fb}, flist_first')
           /\ Spares(mem, mem', L \cup {fb})
<1> DEFINE last == block_prev_free(flist_first)
<1>1. Heap(mem, blocks, epilogue, brk)
  BY DEF HeapOK
<1>2. /\ L \subseteq blocks /\ fb \in blocks /\ ~block_allocated(fb)
      /\ \A b \in L : ~block_allocated(b)
  BY DEF FreeBlocks
<1>3. flist_first' = fb
  BY DEF insert_free_block
<1>4. CASE flist_first # NULL
  <2>1. flist_first \in L
    BY <1>4 DEF Ring
  <2>2. last = mem[flist_first + 2].val
    <3>1. flist_first + 2 \in Arena
      BY <1>1, <1>2, <2>1, BlockWords
    <3> QED
      BY <3>1, WordIs DEF block_prev_free
  <2>3. /\ mem' = [mem EXCEPT ![fb + 1] = Pointer(flist_first), ![fb + 2] = Pointer(last),
                              ![last + 1] = Pointer(fb), ![flist_first + 2] = Pointer(fb)]
        /\ ok' = (ok /\ \A b \in {fb, flist_first, last} : ~block_allocated(b))
    BY <1>4 DEF insert_free_block, assert
  <2> HIDE DEF last
  <2>4. /\ mem' \in [Arena -> Word] /\ Spares(mem, mem', L \cup {fb})
        /\ last \in L /\ Ring(mem', L \cup {fb}, fb)
    <3>1. L \in SUBSET blocks /\ fb \in blocks \ L
      BY <1>2
    <3>2. InsertWrite(mem, mem', flist_first, fb, last)
      BY <2>2, <2>3 DEF InsertWrite
    <3> QED
      BY <1>1, <2>1, <3>1, <3>2, InsertWrites, Zenon
  <2>5. ok' = TRUE
    BY <1>2, <2>1, <2>3, <2>4
  <2>6. Heap(mem', blocks, epilogue, brk) /\ \A c \in blocks : mem'[c] = mem[c]
    <3> DEFINE K == L \cup {fb}
    <3>1. K \in SUBSET blocks /\ Spares(mem, mem', K)
      BY <1>2, <2>4
    <3> HIDE DEF K
    <3> QED
      BY <1>1, <2>4, <3>1, LinksOnly
  <2>7. SameTags
    BY <2>6 DEF SameTags, HeapOK
  <2> QED
    BY <1>3, <2>4, <2>5, <2>7
<1>5. CASE flist_first = NULL
  <2>1. L = {}
    <3>1. NULL \notin blocks
      BY <1>1, Spaced
    <3> QED
      BY <1>2, <1>5, <3>1 DEF Ring
  <2>2. /\ mem' = [mem EXCEPT ![fb + 1] = Pointer(fb), ![fb + 2] = Pointer(fb)]
        /\ ok' = (ok /\ ~block_allocated(fb))
    BY <1>5 DEF insert_free_block, assert
  <2>3. mem' \in [Arena -> Word] /\ Spares(mem, mem', {fb}) /\ Ring(mem', {fb}, fb)
    BY <1>1, <1>2, <2>2, InsertAlone
  <2>4. L \cup {fb} = {fb}
    BY <2>1
  <2>5. Heap(mem', blocks, epilogue, brk) /\ \A c \in blocks : mem'[c] = mem[c]
    <3>1. {fb} \in SUBSET blocks
      BY <1>2
    <3> QED
      BY <1>1, <2>3, <3>1, LinksOnly
  <2>6. SameTags
    BY <2>5 DEF SameTags, HeapOK
  <2> QED
    BY <1>2, <1>3, <2>2, <2>3, <2>4, <2>6
<1> QED
  BY <1>4, <1>5


------------------------------------------------------------------------------
(* What a step that writes no tag keeps *)

LEMMA SizeFacts ==
    ASSUME NEW s \in Nat
    PROVE  /\ align(s) \in Nat /\ block_size_for(s) \in Nat /\ block_size_for(s) >= 4
           /\ align(s) + 2 <= block_size_for(s)
<1>1. align(s) \in Nat
  BY DEF align, WORD_SIZE
<1> QED
  BY <1>1 DEF block_size_for, TAGS_SIZE, MINBLOCKSIZE

LEMMA CallFacts ==
    ASSUME MallocTypeOK
    PROVE  /\ call.size \in Nat /\ call.ptr \in Nat /\ nsize \in Nat /\ nsize >= 4
           /\ align(call.size) \in Nat /\ align(call.size) + 2 <= nsize
           /\ nsize = block_size_for(call.size)
<1>1. call.size \in Nat /\ call.ptr \in Nat
  <2>1. call.size \in Sizes \cup {0} /\ call.ptr \in Nat
    BY DEF MallocTypeOK
  <2>2. \A s \in Sizes : s \in Nat
    BY ClientAssumption, Zenon
  <2> QED
    BY <2>1, <2>2
<1> QED
  BY <1>1, SizeFacts DEF nsize

LEMMA OwnedFacts ==
    ASSUME MallocTypeOK, HeapOK, BitsOK
    PROVE  /\ \A p \in Owned : /\ p \in Int /\ p > 0 /\ p # NULL /\ p - 1 \in blocks
                               /\ p - 1 # Base /\ p - 1 # epilogue
                               /\ p - 1 \notin FreeBlocks /\ mem[p - 1].bit = 1
           /\ \A b \in FreeBlocks : /\ b \in blocks /\ b # Base /\ b # epilogue
                                    /\ b + 1 \notin Owned /\ mem[b].bit = 0
<1>1. FreeBlocks = {b \in blocks : mem[b].bit = 0}
  BY FreeIs DEF FreeView, FreeSet
<1>2. ASSUME NEW p \in Owned
      PROVE  /\ p \in Int /\ p > 0 /\ p - 1 \in blocks /\ p - 1 # Base /\ p - 1 # epilogue
             /\ mem[p - 1].bit = 1
  <2>1. p - 1 \in blocks /\ p - 1 # Base /\ p - 1 # epilogue
    BY DEF BitsOK
  <2>2. p - 1 \in Nat
    BY <2>1, BlockWords DEF HeapOK
  <2>3. p \in Int
    BY DEF MallocTypeOK, Owned, gained, payload
  <2>4. (p - 1) + 1 = p
    BY <2>2, <2>3
  <2> QED
    BY <2>1, <2>2, <2>3, <2>4 DEF BitsOK
<1>3. ASSUME NEW b \in FreeBlocks
      PROVE  b \in blocks /\ b # Base /\ b # epilogue /\ b + 1 \notin Owned /\ mem[b].bit = 0
  BY <1>1, <1>3 DEF BitsOK
<1> QED
  BY <1>1, <1>2, <1>3 DEF NULL


LEMMA SameTagsBits ==
    ASSUME SameTags, BitsOK, Owned' = Owned
    PROVE  BitsOK'
  BY DEF SameTags, BitsOK

LEMMA SameTagsRoom ==
    ASSUME MallocTypeOK, HeapOK, SameTags, BitsOK, RoomOK, live' = live, Released' = Released
    PROVE  RoomOK'
<1> SUFFICES ASSUME NEW p \in DOMAIN live \ Released
             PROVE  align(live[p]) + TAGS_SIZE <= mem'[p - 1].val
  BY DEF RoomOK, align, TAGS_SIZE
<1>1. p \in Owned
  BY DEF Owned
<1>2. p - 1 \in blocks
  BY <1>1 DEF BitsOK
<1> QED
  BY <1>2 DEF RoomOK, SameTags

LEMMA SameTagsMerge ==
    ASSUME HeapOK, SameTags, MergeOK, Freeing => Freeing' /\ blk' = blk
    PROVE  MergeOK'
<1>1. FreeBlocks' = FreeBlocks /\ \A b \in FreeBlocks : mem'[b] = mem[b]
  BY SameTagsFree DEF SameTags, FreeBlocks
<1> QED
  BY <1>1 DEF MergeOK

LEMMA SameTagsRet ==
    ASSUME HeapOK, SameTags, BitsOK, RetOK, UNCHANGED <<call, ret, live>>, pc # "return"
    PROVE  RetOK'
<1> SUFFICES ASSUME ret # NULL
             PROVE  /\ nsize <= mem'[ret - 1].val
                    /\ IF ret = call.ptr THEN pc' = "return" ELSE ret \notin DOMAIN live
  BY DEF RetOK, nsize, block_size_for, align
<1>1. ret \in Owned
  BY DEF Owned, gained
<1>2. ret - 1 \in blocks
  BY <1>1 DEF BitsOK
<1> QED
  BY <1>2 DEF RetOK, SameTags

\* A step that leaves the heap alone.
LEMMA QuietStep ==
    ASSUME MallocInv, UNCHANGED heapvars, UNCHANGED live,
           InTransit = {}, InTransit' = {}, Owned' = Owned, Released' = Released,
           Freeing => Freeing' /\ blk' = blk,
           MallocTypeOK', RetOK', CallOK', WorkOK'
    PROVE  MallocInv'
<1> USE DEF MallocInv
<1>1. SameTags
  BY DEF SameTags, HeapOK, heapvars
<1>2. ListOK'
  <2>1. FreeBlocks' = FreeBlocks /\ mem' = mem /\ flist_first' = flist_first
    BY <1>1, SameTagsFree DEF heapvars
  <2>2. Listed' = Listed
    BY <2>1 DEF Listed
  <2> QED
    BY <2>1, <2>2 DEF ListOK
<1>3. HeapOK' /\ BitsOK' /\ RoomOK' /\ MergeOK'
  BY <1>1, SameTagsBits, SameTagsRoom, SameTagsMerge DEF SameTags
<1> QED
  BY <1>2, <1>3

\* A call that returns no pointer, and gave none up.
LEMMA ReturnsNull ==
    ASSUME pc' = "return", ret' = NULL, call'.ptr = NULL \/ call'.size # 0
    PROVE  Released' = {} /\ gained' = {} /\ InTransit' = {} /\ ~Freeing'
           /\ Owned' = DOMAIN live'
<1>1. /\ InTransit' = {} /\ ~Freeing' /\ Released' = dropped' \ (gained' \cup {NULL})
      /\ Owned' = (DOMAIN live' \ Released') \cup gained'
  BY PcTableAfter DEF PcTable
<1>2. gained' = {} /\ dropped' \subseteq {NULL}
  BY DEF gained, dropped
<1> QED
  BY <1>1, <1>2

LEMMA ZeroStep == ASSUME MallocInv, mm_malloc_zero PROVE MallocInv'
<1> USE DEF MallocInv
<1>1. /\ pc = "mm_malloc" /\ call.size = 0 /\ ret' = NULL
      /\ pc' = (IF Growing THEN "copy" ELSE "return")
      /\ UNCHANGED heapvars /\ UNCHANGED <<live, call, blk, ok>>
  BY DEF mm_malloc_zero, At, malloc_returns
<1>2. ret = NULL /\ pc' = "return" /\ call.ptr = NULL
  BY <1>1 DEF CallOK, Taking, Growing
<1>3. InTransit = {} /\ ~Freeing /\ Released = {} /\ Owned = DOMAIN live
  BY <1>1, <1>2, PcTableHolds DEF PcTable, PcIs, gained
<1>4. Released' = {} /\ InTransit' = {} /\ Owned' = DOMAIN live
  BY <1>1, <1>2, ReturnsNull
<1>5. MallocTypeOK'
  BY <1>1, <1>2 DEF MallocTypeOK, heapvars, NULL
<1>6. RetOK' /\ CallOK' /\ WorkOK'
  BY <1>1, <1>2 DEF RetOK, CallOK, WorkOK, Taking, Freeing, Growing
<1> QED
  BY <1>1, <1>3, <1>4, <1>5, <1>6, QuietStep

LEMMA FailsStep == ASSUME MallocInv, mm_malloc_fails PROVE MallocInv'
<1> USE DEF MallocInv
<1>1. /\ pc = "mm_malloc" /\ call.size # 0 /\ ret' = NULL
      /\ pc' = (IF Growing THEN "copy" ELSE "return")
      /\ UNCHANGED heapvars /\ UNCHANGED <<live, call, blk, ok>>
  BY DEF mm_malloc_fails, At, malloc_returns
<1>2. ret = NULL
  BY <1>1 DEF CallOK, Taking
<1>3. InTransit = {} /\ ~Freeing /\ Released = {} /\ Owned = DOMAIN live
  BY <1>1, <1>2, PcTableHolds DEF PcTable, PcIs, gained
<1>4. Released' = {} /\ InTransit' = {} /\ Owned' = DOMAIN live
  <2>1. CASE Growing
    BY <1>1, <2>1, PcTableAfter DEF PcTable, PcIs, gained
  <2>2. CASE ~Growing
    BY <1>1, <2>2, ReturnsNull
  <2> QED
    BY <2>1, <2>2
<1>5. MallocTypeOK'
  BY <1>1, <1>2 DEF MallocTypeOK, heapvars, NULL
<1>6. RetOK' /\ CallOK'
  BY <1>1, <1>2 DEF RetOK, CallOK, Taking, Freeing, Growing
<1>7. WorkOK'
  BY <1>1 DEF WorkOK, Taking, Freeing, Growing, heapvars, nsize, block_size_for, align
<1> QED
  BY <1>1, <1>3, <1>4, <1>5, <1>6, <1>7, QuietStep


\* The block that mm_free works on lies between the sentinels.
LEMMA AmidFacts ==
    ASSUME MallocInv, blk \in FreeBlocks
    PROVE  /\ blk \in blocks /\ blk # Base /\ blk # epilogue /\ mem[blk].bit = 0
           /\ block_prev(blk) = blk - mem[blk - 1].val
           /\ prev_free <=> block_prev(blk) \in FreeBlocks
           /\ prev_free <=> mem[blk - 1].bit = 0
           /\ next_free <=> block_next(blk) \in FreeBlocks
           /\ next_free <=> mem[blk + mem[blk].val].bit = 0
           /\ block_next(blk) = blk + mem[blk].val
<1>1. blk \in blocks /\ blk # Base /\ blk # epilogue /\ mem[blk].bit = 0
  BY OwnedFacts DEF MallocInv
<1>2. /\ block_prev(blk) = blk - mem[blk - 1].val
      /\ prev_free <=> block_prev(blk) \in FreeBlocks
      /\ prev_free <=> mem[blk - 1].bit = 0
      /\ next_free <=> block_next(blk) \in FreeBlocks
      /\ next_free <=> mem[blk + mem[blk].val].bit = 0
  BY <1>1, AmidIs DEF AmidView, MallocInv
<1>3. block_next(blk) = blk + mem[blk].val
  BY <1>1, NextIs DEF NextView, MallocInv
<1> QED
  BY <1>1, <1>2, <1>3

LEMMA LoneBlock ==
    ASSUME MallocInv, blk \in FreeBlocks, ~prev_free, ~next_free
    PROVE  \A b, c \in FreeBlocks : c # b + mem[b].val
<1> SUFFICES ASSUME NEW b \in FreeBlocks, NEW c \in FreeBlocks, c = b + mem[b].val
             PROVE  FALSE
  OBVIOUS
<1>1. blk = b \/ blk = c
  BY DEF MallocInv, MergeOK
<1>2. CASE blk = b
  BY <1>2, AmidFacts
<1>3. CASE blk = c
  <2>1. b \in blocks /\ mem[b].bit = 0
    BY OwnedFacts DEF MallocInv
  <2>2. b \in Nat /\ mem[b].val \in Nat
    BY <2>1, BlockWords DEF MallocInv, HeapOK
  <2>3. mem[b + mem[b].val - 1] = mem[b]
    BY <2>1 DEF MallocInv, HeapOK, Heap
  <2>4. b + mem[b].val - 1 = blk - 1
    BY <1>3, <2>2
  <2> QED
    BY <2>1, <2>3, <2>4, AmidFacts
<1> QED
  BY <1>1, <1>2, <1>3

LEMMA CoalesceNoneStep == ASSUME MallocInv, coalesce_none PROVE MallocInv'
<1> USE DEF MallocInv
<1>1. /\ pc = "coalesce" /\ pc' = "return" /\ (coalesce_helper(blk) => ~prev_free /\ ~next_free)
      /\ UNCHANGED heapvars /\ UNCHANGED <<live, call, blk, ret, ok>>
  BY DEF coalesce_none, At, callvars
<1>2. Freeing /\ InTransit = {} /\ Released = {call.ptr}
      /\ Owned = (DOMAIN live \ {call.ptr}) \cup gained
  BY <1>1, PcTableHolds DEF PcTable, PcIs
<1>3. SameTags
  BY <1>1 DEF SameTags, HeapOK, heapvars
<1>4. call.ptr # NULL /\ (call.size # 0 => ret # NULL) /\ blk \in FreeBlocks /\ ret # call.ptr
  BY <1>1, <1>2 DEF CallOK, WorkOK, RetOK
<1>5. /\ InTransit' = {} /\ ~Freeing' /\ Released' = dropped' \ (gained' \cup {NULL})
      /\ Owned' = (DOMAIN live' \ Released') \cup gained'
  BY <1>1, PcTableAfter DEF PcTable
<1>6. Released' = {call.ptr} /\ gained' = gained /\ Owned' = Owned
  <2>1. gained' = gained /\ dropped' = dropped /\ dropped = {call.ptr} /\ call.ptr \notin gained
    BY <1>1, <1>4 DEF gained, dropped
  <2>2. Released' = {call.ptr}
    BY <1>4, <1>5, <2>1
  <2> QED
    BY <1>1, <1>2, <1>5, <2>1, <2>2
<1>7. FreeBlocks' = FreeBlocks
  BY <1>3, SameTagsFree
<1>8. Listed' = Listed /\ Listed = FreeBlocks
  BY <1>2, <1>5, <1>7 DEF Listed
<1>9. ListOK'
  BY <1>1, <1>5, <1>8 DEF ListOK, heapvars
<1>10. BitsOK' /\ RoomOK' /\ HeapOK'
  BY <1>1, <1>2, <1>3, <1>6, SameTagsBits, SameTagsRoom DEF SameTags
<1>11. RetOK'
  BY <1>1, <1>3, SameTagsRet
<1>12. coalesce_helper(blk)
  <2>1. Ring(mem, FreeBlocks, flist_first) /\ FreeBlocks \in SUBSET blocks
    BY <1>8 DEF ListOK, FreeBlocks
  <2>2. on_list = FreeBlocks
    BY <2>1, OnList
  <2> QED
    BY <1>4, <2>2 DEF coalesce_helper
<1>13. MergeOK'
  <2>1. \A b, c \in FreeBlocks : c # b + mem[b].val
    BY <1>1, <1>4, <1>12, LoneBlock
  <2> QED
    BY <1>1, <1>7, <2>1 DEF MergeOK, heapvars
<1>14. MallocTypeOK'
  BY <1>1 DEF MallocTypeOK, heapvars
<1>15. CallOK' /\ WorkOK'
  BY <1>1 DEF CallOK, WorkOK, Taking, Freeing
<1> QED
  BY <1>9, <1>10, <1>11, <1>13, <1>14, <1>15

LEMMA ReallocFreeStep == ASSUME MallocInv, mm_realloc_free PROVE MallocInv'
<1> USE DEF MallocInv
<1>1. /\ pc = "mm_realloc" /\ call.size = 0 /\ ret' = NULL
      /\ pc' = (IF call.ptr = NULL THEN "return" ELSE "mm_free")
      /\ UNCHANGED heapvars /\ UNCHANGED <<live, call, blk, ok>>
  BY DEF mm_realloc_free, At
<1>2. ret = NULL
  BY <1>1 DEF CallOK
<1>3. InTransit = {} /\ ~Freeing /\ Released = {} /\ Owned = DOMAIN live
  BY <1>1, <1>2, PcTableHolds DEF PcTable, PcIs, gained
<1>4. Released' = {} /\ InTransit' = {} /\ Owned' = DOMAIN live
  <2>1. CASE call.ptr # NULL
    BY <1>1, <2>1, PcTableAfter DEF PcTable, PcIs, gained
  <2>2. CASE call.ptr = NULL
    BY <1>1, <2>2, ReturnsNull
  <2> QED
    BY <2>1, <2>2
<1>5. MallocTypeOK'
  BY <1>1, <1>2 DEF MallocTypeOK, heapvars, NULL
<1>6. RetOK' /\ CallOK' /\ WorkOK'
  BY <1>1, <1>2 DEF RetOK, CallOK, WorkOK, Taking, Freeing, Growing
<1> QED
  BY <1>1, <1>3, <1>4, <1>5, <1>6, QuietStep

LEMMA ReallocMallocStep == ASSUME MallocInv, mm_realloc_malloc PROVE MallocInv'
<1> USE DEF MallocInv
<1>1. /\ pc = "mm_realloc" /\ call.size # 0 /\ pc' = "mm_malloc"
      /\ call.ptr = NULL \/ nsize > csize
      /\ UNCHANGED heapvars /\ UNCHANGED <<live, call, blk, ret, ok>>
  BY DEF mm_realloc_malloc, At, callvars
<1>2. ret = NULL /\ call.fn = "realloc"
  BY <1>1 DEF CallOK
<1>3. InTransit = {} /\ ~Freeing /\ Released = {} /\ Owned = DOMAIN live
  BY <1>1, <1>2, PcTableHolds DEF PcTable, PcIs, gained
<1>4. Released' = {} /\ InTransit' = {} /\ Owned' = DOMAIN live
  BY <1>1, <1>2, PcTableAfter DEF PcTable, PcIs, gained
<1>5. MallocTypeOK'
  BY <1>1, <1>2 DEF MallocTypeOK, heapvars, NULL
<1>6. RetOK' /\ CallOK'
  BY <1>1, <1>2 DEF RetOK, CallOK, Taking, Freeing, Growing
<1>7. WorkOK'
  <2>1. call.ptr # NULL => csize = mem[call.ptr - 1].val
    <3> SUFFICES ASSUME call.ptr # NULL PROVE csize = mem[call.ptr - 1].val
      OBVIOUS
    <3>1. call.ptr \in Owned
      BY <1>3 DEF CallOK
    <3>2. call.ptr - 1 \in blocks
      BY <3>1 DEF BitsOK
    <3> QED
      BY <3>2, NextIs DEF NextView, csize, payload_to_block
  <2> QED
    BY <1>1, <2>1 DEF WorkOK, Taking, Freeing, Growing, heapvars, nsize, block_size_for, align
<1> QED
  BY <1>1, <1>3, <1>4, <1>5, <1>6, <1>7, QuietStep

LEMMA ReallocKeepStep == ASSUME MallocInv, mm_realloc_keep PROVE MallocInv'
<1> USE DEF MallocInv
<1>1. /\ pc = "mm_realloc" /\ call.size # 0 /\ call.ptr # NULL /\ pc' = "return"
      /\ nsize <= csize /\ ret' = call.ptr
      /\ UNCHANGED heapvars /\ UNCHANGED <<live, call, blk, ok>>
  BY DEF mm_realloc_keep, At
<1>2. ret = NULL /\ call.ptr \in DOMAIN live
  BY <1>1 DEF CallOK
<1>3. InTransit = {} /\ ~Freeing /\ Released = {} /\ Owned = DOMAIN live
  BY <1>1, <1>2, PcTableHolds DEF PcTable, PcIs, gained
<1>4. Released' = {} /\ InTransit' = {} /\ Owned' = DOMAIN live
  <2>1. /\ InTransit' = {} /\ Released' = dropped' \ (gained' \cup {NULL})
        /\ Owned' = (DOMAIN live' \ Released') \cup gained'
    BY <1>1, PcTableAfter DEF PcTable
  <2>2. gained' = {call.ptr} /\ dropped' = {call.ptr}
    BY <1>1 DEF gained, dropped
  <2> QED
    BY <1>1, <1>2, <2>1, <2>2
<1>5. MallocTypeOK'
  BY <1>1, <1>2 DEF MallocTypeOK, heapvars
<1>6. CallOK' /\ WorkOK'
  BY <1>1, <1>2 DEF CallOK, WorkOK, Taking, Freeing, Growing
<1>7. RetOK'
  <2>1. call.ptr - 1 \in blocks
    BY <1>2, <1>3 DEF BitsOK
  <2>2. csize = mem[call.ptr - 1].val
    BY <2>1, NextIs DEF NextView, csize, payload_to_block
  <2> QED
    BY <1>1, <2>2 DEF RetOK, heapvars, nsize, block_size_for, align
<1> QED
  BY <1>1, <1>3, <1>4, <1>5, <1>6, <1>7, QuietStep

\* The steps after which nothing runs.
LEMMA DeadStep ==
    ASSUME MallocInv, UNCHANGED <<heapvars, live, pc, callvars>>, ok' \in BOOLEAN
    PROVE  MallocInv'
<1> USE DEF MallocInv
<1>1. UNCHANGED <<mem, brk, flist_first, epilogue, blocks, live, pc, call, blk, ret>>
  BY DEF heapvars, callvars
<1>2. MallocTypeOK' /\ HeapOK'
  BY <1>1 DEF MallocTypeOK, HeapOK
<1>3. /\ InTransit' = InTransit /\ FreeBlocks' = FreeBlocks
      /\ Released' = Released /\ Owned' = Owned /\ Freeing' = Freeing
  BY <1>1 DEF InTransit, FreeBlocks, Released, Owned, Freeing, prev_free, next_free,
     block_allocated, block_next, block_prev, block_size, word, payload, dropped, gained
<1>4. ListOK' /\ BitsOK' /\ RoomOK' /\ MergeOK'
  BY <1>1, <1>3 DEF ListOK, Listed, BitsOK, RoomOK, MergeOK
<1>5. RetOK' /\ CallOK'
  BY <1>1, <1>3 DEF RetOK, CallOK, Taking, Growing, nsize
<1>6. WorkOK'
  BY <1>1, <1>3 DEF WorkOK, Taking, Growing, nsize, prev_free, next_free, block_next,
     block_allocated, block_prev, block_size, word, payload
<1> QED
  BY <1>2, <1>4, <1>5, <1>6


LEMMA CallMallocStep ==
    ASSUME MallocInv, NEW size \in Sizes \cup {0}, NEW w \in Fills, call_malloc(size, w)
    PROVE  MallocInv'
<1> USE DEF MallocInv
<1>1. /\ pc = "idle" /\ pc' = "mm_malloc"
      /\ call' = [fn |-> "malloc", ptr |-> NULL, size |-> size, fill |-> w]
      /\ UNCHANGED heapvars /\ UNCHANGED <<live, blk, ret, ok>>
  BY DEF call_malloc, At, Call
<1>2. ret = NULL /\ call'.fn = "malloc" /\ call'.ptr = NULL /\ call'.size = size
  BY <1>1 DEF CallOK
<1>3. InTransit = {} /\ ~Freeing /\ Released = {} /\ Owned = DOMAIN live
  BY <1>1, <1>2, PcTableHolds DEF PcTable, PcIs, gained
<1>4. Released' = {} /\ InTransit' = {} /\ Owned' = DOMAIN live
  BY <1>1, <1>2, PcTableAfter DEF PcTable, PcIs, gained
<1>5. MallocTypeOK'
  <2>1. w \in Word
    BY ClientAssumption, Zenon
  <2> QED
    BY <1>1, <2>1 DEF MallocTypeOK, heapvars, NULL
<1>6. RetOK' /\ CallOK' /\ WorkOK'
  BY <1>1, <1>2 DEF RetOK, CallOK, WorkOK, Taking, Freeing, Growing
<1> QED
  BY <1>1, <1>3, <1>4, <1>5, <1>6, QuietStep

LEMMA CallFreeStep ==
    ASSUME MallocInv, NEW p \in DOMAIN live \cup {NULL}, call_free(p)
    PROVE  MallocInv'
<1> USE DEF MallocInv
<1>1. /\ pc = "idle" /\ pc' = IF p = NULL THEN "return" ELSE "mm_free"
      /\ call' = [fn |-> "free", ptr |-> p, size |-> 0, fill |-> Pointer(0)]
      /\ UNCHANGED heapvars /\ UNCHANGED <<live, blk, ret, ok>>
  BY DEF call_free, At, Call
<1>2. ret = NULL /\ call'.fn = "free" /\ call'.ptr = p /\ call'.size = 0
  BY <1>1 DEF CallOK
<1>3. InTransit = {} /\ ~Freeing /\ Released = {} /\ Owned = DOMAIN live
  BY <1>1, <1>2, PcTableHolds DEF PcTable, PcIs, gained
<1>4. Released' = {} /\ InTransit' = {} /\ Owned' = DOMAIN live
  <2>1. CASE p # NULL
    BY <1>1, <1>2, <2>1, PcTableAfter DEF PcTable, PcIs, gained
  <2>2. CASE p = NULL
    BY <1>1, <1>2, <2>2, ReturnsNull
  <2> QED
    BY <2>1, <2>2
<1>5. MallocTypeOK'
  <2>1. Pointer(0) \in Word
    BY DEF Pointer, Word
  <2>2. p \in Nat
    BY DEF MallocTypeOK, NULL
  <2> QED
    BY <1>1, <2>1, <2>2 DEF MallocTypeOK, heapvars, NULL
<1>6. RetOK' /\ CallOK' /\ WorkOK'
  BY <1>1, <1>2 DEF RetOK, CallOK, WorkOK, Taking, Freeing, Growing
<1> QED
  BY <1>1, <1>3, <1>4, <1>5, <1>6, QuietStep

LEMMA CallReallocStep ==
    ASSUME MallocInv, NEW p \in DOMAIN live \cup {NULL}, NEW size \in Sizes \cup {0},
           NEW w \in Fills, call_realloc(p, size, w)
    PROVE  MallocInv'
<1> USE DEF MallocInv
<1>1. /\ pc = "idle" /\ pc' = "mm_realloc"
      /\ call' = [fn |-> "realloc", ptr |-> p, size |-> size, fill |-> w]
      /\ UNCHANGED heapvars /\ UNCHANGED <<live, blk, ret, ok>>
  BY DEF call_realloc, At, Call
<1>2. ret = NULL /\ call'.fn = "realloc" /\ call'.ptr = p /\ call'.size = size
  BY <1>1 DEF CallOK
<1>3. InTransit = {} /\ ~Freeing /\ Released = {} /\ Owned = DOMAIN live
  BY <1>1, <1>2, PcTableHolds DEF PcTable, PcIs, gained
<1>4. Released' = {} /\ InTransit' = {} /\ Owned' = DOMAIN live
  BY <1>1, <1>2, PcTableAfter DEF PcTable, PcIs, gained
<1>5. MallocTypeOK'
  <2>1. w \in Word
    BY ClientAssumption, Zenon
  <2>2. p \in Nat
    BY DEF MallocTypeOK, NULL
  <2> QED
    BY <1>1, <2>1, <2>2 DEF MallocTypeOK, heapvars
<1>6. RetOK' /\ CallOK' /\ WorkOK'
  BY <1>1, <1>2 DEF RetOK, CallOK, WorkOK, Taking, Freeing, Growing
<1> QED
  BY <1>1, <1>3, <1>4, <1>5, <1>6, QuietStep

------------------------------------------------------------------------------
(* mm_init *)

LEMMA HeapInit ==
    ASSUME NEW m \in [Arena -> Word], NEW n, n = mm_init(m)
    PROVE  /\ Heap(n, {Base, free_spot, first_epilogue}, first_epilogue, Base + 12)
           /\ Ring(n, {free_spot}, free_spot)
           /\ n[Base].bit = 1 /\ n[free_spot].bit = 0 /\ n[first_epilogue].bit = 1
           /\ Base \in Nat /\ free_spot = Base + 4 /\ first_epilogue = Base + 8
<1>1. /\ Base \in Nat /\ Base > 0 /\ MaxHeap \in Nat /\ MaxHeap >= 12
      /\ free_spot = Base + 4 /\ first_epilogue = Base + 8
  BY ArenaAssumption DEF MINBLOCKSIZE, free_spot, first_epilogue
<1>2. /\ \A i \in 0 .. 11 : Base + i \in Arena
  BY <1>1 DEF Arena
<1> DEFINE m1 == block_set_size_and_allocated(m, Base, 4, 1)
           m2 == block_set_size_and_allocated(m1, Base + 4, 4, 0)
           m3 == [m2 EXCEPT ![Base + 4 + 1] = Pointer(Base + 4),
                            ![Base + 4 + 2] = Pointer(Base + 4)]
<1>3. n = block_set_size_and_allocated(m3, Base + 8, 4, 1)
  BY <1>1 DEF mm_init, MINBLOCKSIZE
<1>4. /\ Base \in Arena /\ Base + 4 - 1 \in Arena /\ Base + 4 \in Arena
      /\ Base + 4 + 4 - 1 \in Arena /\ Base + 8 \in Arena /\ Base + 8 + 4 - 1 \in Arena
      /\ Base + 5 \in Arena /\ Base + 6 \in Arena
  BY <1>1 DEF Arena
<1>21. /\ TagWrite(m, m1, Base, 4, 1) /\ TagWrite(m1, m2, Base + 4, 4, 0)
      /\ TagWrite(m3, n, Base + 8, 4, 1)
  BY <1>3 DEF TagWrite
<1>23. m3 = [m2 EXCEPT ![Base + 4 + 1] = Pointer(Base + 4),
                      ![Base + 4 + 2] = Pointer(Base + 4)]
  OBVIOUS
<1> HIDE DEF m1, m2, m3
<1>22. 4 \in Nat /\ 1 \in Bits /\ 0 \in Bits
  BY DEF Bits
<1>5. /\ m1 \in [Arena -> Word] /\ m1[Base].val = 4 /\ m1[Base].bit = 1
      /\ m1[Base + 4 - 1] = m1[Base]
  <2>1. TagWrite(m, m1, Base, 4, 1)
    BY <1>21
  <2>2. Base \in Arena /\ Base + 4 - 1 \in Arena
    BY <1>4
  <2>3. TagsAre(m, m1, Base, 4, 1)
    BY <2>1, <2>2, <1>22, TagsSet, Zenon
  <2> QED
    BY <2>3 DEF TagsAre
<1>6. /\ m2 \in [Arena -> Word] /\ m2[Base + 4].val = 4 /\ m2[Base + 4].bit = 0
      /\ m2[Base + 4 + 4 - 1] = m2[Base + 4]
      /\ \A x \in Arena : x # Base + 4 /\ x # Base + 4 + 4 - 1 => m2[x] = m1[x]
  <2> DEFINE sp == Base + 4
  <2>1. TagWrite(m1, m2, sp, 4, 0)
    BY <1>21
  <2>2. sp \in Int /\ sp \in Arena /\ sp + 4 - 1 \in Arena
    BY <1>1, <1>4
  <2>3. m1 \in [Arena -> Word]
    BY <1>5
  <2> HIDE DEF sp
  <2>4. TagsAre(m1, m2, sp, 4, 0)
    BY <1>22, <2>1, <2>2, <2>3, TagsSet, Zenon
  <2> QED
    BY <2>4 DEF sp, TagsAre
<1>7. Pointer(Base + 4) \in Word /\ Pointer(Base + 4).val = Base + 4
  BY <1>1 DEF Pointer, Word
<1>8. /\ m3 \in [Arena -> Word] /\ m3[Base + 5].val = Base + 4 /\ m3[Base + 6].val = Base + 4
      /\ \A x \in Arena : x # Base + 5 /\ x # Base + 6 => m3[x] = m2[x]
  <2>1. Base + 4 + 1 = Base + 5 /\ Base + 4 + 2 = Base + 6 /\ Base + 5 # Base + 6
    BY <1>1
  <2> QED
    BY <1>4, <1>6, <1>7, <1>23, <2>1
<1>9. /\ n \in [Arena -> Word] /\ n[Base + 8].val = 4 /\ n[Base + 8].bit = 1
      /\ n[Base + 8 + 4 - 1] = n[Base + 8]
      /\ \A x \in Arena : x # Base + 8 /\ x # Base + 8 + 4 - 1 => n[x] = m3[x]
  <2> DEFINE sp == Base + 8
  <2>1. TagWrite(m3, n, sp, 4, 1)
    BY <1>21
  <2>2. sp \in Int /\ sp \in Arena /\ sp + 4 - 1 \in Arena
    BY <1>1, <1>4
  <2>3. m3 \in [Arena -> Word]
    BY <1>8
  <2> HIDE DEF sp
  <2>4. TagsAre(m3, n, sp, 4, 1)
    BY <1>22, <2>1, <2>2, <2>3, TagsSet, Zenon
  <2> QED
    BY <2>4 DEF sp, TagsAre
<1>10. /\ n[Base] = m1[Base] /\ n[Base + 3] = m1[Base]
  BY <1>1, <1>4, <1>5, <1>6, <1>8, <1>9
<1>11. /\ n[Base + 4] = m2[Base + 4] /\ n[Base + 7] = m2[Base + 4]
       /\ n[Base + 5] = m3[Base + 5] /\ n[Base + 6] = m3[Base + 6]
  BY <1>1, <1>4, <1>6, <1>8, <1>9
<1>12. Ring(n, {free_spot}, free_spot)
  <2>1. n[free_spot + 1].val = free_spot /\ n[free_spot + 2].val = free_spot
    BY <1>1, <1>8, <1>11
  <2> QED
    BY <2>1 DEF Ring
<1> DEFINE B == {Base, Base + 4, Base + 8}
<1>13. \A b \in B : n[b].val = 4
  BY <1>5, <1>6, <1>9, <1>10, <1>11
<1>14. \A b \in B : n[b + 3] = n[b]
  BY <1>1, <1>9, <1>10, <1>11
<1>15. Heap(n, B, Base + 8, Base + 12)
  <2>1. B \subseteq Base .. (Base + 12 - 1)
    BY <1>1
  <2>2. \A b \in B : /\ n[b].val >= 4 /\ n[b + n[b].val - 1] = n[b]
                     /\ b # Base + 8 => b + n[b].val \in B
    BY <1>1, <1>13, <1>14
  <2>3. \A b, c \in B : b < c => b + n[b].val <= c
    BY <1>1, <1>13
  <2>4. \A b \in B \ {Base} : \E c \in B : c + n[c].val = b
    BY <1>1, <1>13
  <2> QED
    BY <1>1, <1>9, <2>1, <2>2, <2>3, <2>4 DEF Heap
<1> QED
  BY <1>1, <1>5, <1>6, <1>9, <1>10, <1>11, <1>12, <1>15


Fresh ==
  /\ \E m \in [Arena -> Word] : mem = mm_init(m)
  /\ brk = Base + 12 /\ flist_first = free_spot /\ epilogue = first_epilogue
  /\ blocks = {Base, free_spot, first_epilogue} /\ live = NoPointers
  /\ pc = "idle" /\ call = NoCall /\ blk \in Nat /\ ret = NULL /\ ok \in BOOLEAN

LEMMA FreshInv == Fresh => MallocInv
<1> SUFFICES ASSUME Fresh PROVE MallocInv
  OBVIOUS
<1> USE DEF Fresh
<1>1. PICK m \in [Arena -> Word] : mem = mm_init(m)
  OBVIOUS
<1>2. /\ HeapOK /\ Ring(mem, {free_spot}, free_spot)
      /\ mem[Base].bit = 1 /\ mem[free_spot].bit = 0 /\ mem[first_epilogue].bit = 1
      /\ Base \in Nat /\ free_spot = Base + 4 /\ first_epilogue = Base + 8
  <2>1. /\ Heap(mem, {Base, free_spot, first_epilogue}, first_epilogue, Base + 12)
        /\ Ring(mem, {free_spot}, free_spot)
        /\ mem[Base].bit = 1 /\ mem[free_spot].bit = 0 /\ mem[first_epilogue].bit = 1
        /\ Base \in Nat /\ free_spot = Base + 4 /\ first_epilogue = Base + 8
    BY <1>1, HeapInit
  <2> QED
    BY <2>1 DEF HeapOK
<1>3. FreeBlocks = {free_spot}
  <2>1. FreeBlocks = {b \in blocks : mem[b].bit = 0}
    BY <1>2, FreeIs DEF FreeView, FreeSet
  <2> QED
    BY <1>2, <2>1
<1>4. DOMAIN live = {}
  BY DEF NoPointers
<1>5. InTransit = {} /\ ~Freeing /\ Released = {} /\ Owned = {}
  BY <1>4, PcTableHolds DEF PcTable, PcIs, gained
<1>6. MallocTypeOK
  <2>1. mem \in [Arena -> Word] /\ brk \in Nat
    BY <1>2 DEF HeapOK, Heap
  <2>2. Pointer(0) \in Word
    BY DEF Pointer, Word
  <2> QED
    BY <1>4, <2>1, <2>2 DEF MallocTypeOK, NoCall, Call, NULL
<1>7. ListOK
  BY <1>2, <1>3, <1>5 DEF ListOK, Listed
<1>8. BitsOK /\ RoomOK /\ RetOK
  BY <1>2, <1>4, <1>5 DEF BitsOK, RoomOK, RetOK
<1>9. MergeOK
  <2>1. mem[free_spot].val \in Nat /\ mem[free_spot].val >= 4
    BY <1>2, BlockWords DEF HeapOK
  <2> QED
    BY <1>2, <1>3, <2>1 DEF MergeOK
<1>10. CallOK /\ WorkOK
  BY DEF CallOK, WorkOK, Taking, Freeing, NoCall, Call
<1> QED
  BY <1>2, <1>6, <1>7, <1>8, <1>9, <1>10 DEF MallocInv

LEMMA InitInv == Init => MallocInv
<1> SUFFICES ASSUME Init PROVE Fresh
  BY FreshInv
<1>1. [a \in Arena |-> Pointer(0)] \in [Arena -> Word]
  BY DEF Pointer, Word
<1>2. Base + 3 * MINBLOCKSIZE = Base + 12
  BY DEF MINBLOCKSIZE
<1> QED
  BY <1>1, <1>2 DEF Init, Fresh, NULL

LEMMA RestartStep == ASSUME MallocInv, restart PROVE MallocInv'
<1>1. Base + 3 * MINBLOCKSIZE = Base + 12
  BY DEF MINBLOCKSIZE
<1>2. pc = "idle" /\ call = NoCall /\ ret = NULL /\ mem \in [Arena -> Word] /\ blk \in Nat
      /\ ok \in BOOLEAN
  BY DEF restart, At, MallocInv, CallOK, MallocTypeOK
<1>3. Fresh'
  BY <1>1, <1>2 DEF restart, Fresh, callvars, NULL
<1> QED
  BY <1>3, FreshInv, PTL


------------------------------------------------------------------------------
(* The steps that change the free list *)

\* The block that the call passed, while it is allocated, keeps its size.
LEMMA PassedBlock ==
    ASSUME MallocInv, SameTags, call.ptr # NULL, call.ptr \notin Released
    PROVE  mem'[call.ptr - 1] = mem[call.ptr - 1] /\ call.ptr - 1 \in blocks
<1>1. call.ptr \in Owned
  BY DEF MallocInv, CallOK, Owned
<1>2. call.ptr - 1 \in blocks
  BY <1>1 DEF MallocInv, BitsOK
<1> QED
  BY <1>2 DEF SameTags

LEMMA TypeKept ==
    ASSUME MallocInv, HeapOK', UNCHANGED <<live, call>>, blk' \in Nat, ret' \in Nat,
           ok' \in BOOLEAN,
           pc' \in {"idle", "mm_malloc", "split", "split_insert", "mm_free", "insert",
                    "coalesce", "pull_next", "merge", "mm_realloc", "copy", "return"}
    PROVE  MallocTypeOK'
<1>1. mem' \in [Arena -> Word] /\ brk' \in Nat
  BY DEF HeapOK, Heap
<1> QED
  BY <1>1 DEF MallocInv, MallocTypeOK

\* A step that writes into no payload of an allocated block.
PayloadsKept ==
  \A b \in blocks \ FreeBlocks, a \in Arena :
     b # epilogue /\ b < a /\ a + 2 <= b + mem[b].val => mem'[a] = mem[a]

LEMMA SparesPayloads ==
    ASSUME HeapOK, NEW L \in SUBSET FreeBlocks, Spares(mem, mem', L)
    PROVE  PayloadsKept
<1> SUFFICES ASSUME NEW b \in blocks \ FreeBlocks, NEW a \in Arena, b < a, a + 2 <= b + mem[b].val
             PROVE  mem'[a] = mem[a]
  BY DEF PayloadsKept
<1>1. b \in Nat /\ mem[b].val \in Nat /\ a \in Int
  BY BlockWords, ArenaAssumption DEF HeapOK, Arena
<1>2. ASSUME NEW c \in L PROVE a # c + 1 /\ a # c + 2
  <2>1. c \in blocks /\ c # b
    BY DEF FreeBlocks
  <2>2. c \in Nat /\ mem[c].val \in Nat /\ mem[c].val >= 4
    BY <2>1, BlockWords DEF HeapOK
  <2>3. b + mem[b].val <= c \/ c + mem[c].val <= b
    BY <2>1, Disjoint DEF HeapOK
  <2> QED
    BY <1>1, <2>2, <2>3
<1> QED
  BY <1>2 DEF Spares

LEMMA OutsidePayloads ==
    ASSUME HeapOK, NEW lo \in Nat, NEW hi \in Nat, Outside(mem, mem', lo, hi),
           \A b \in blocks \ FreeBlocks : b # epilogue => b + mem[b].val <= lo \/ hi <= b
    PROVE  PayloadsKept
<1> SUFFICES ASSUME NEW b \in blocks \ FreeBlocks, b # epilogue, NEW a \in Arena, b < a,
                    a + 2 <= b + mem[b].val
             PROVE  mem'[a] = mem[a]
  BY DEF PayloadsKept
<1>1. b \in Nat /\ mem[b].val \in Nat /\ a \in Int
  BY BlockWords, ArenaAssumption DEF HeapOK, Arena
<1>2. a < lo \/ hi <= a
  BY <1>1
<1> QED
  BY <1>2 DEF Outside

LEMMA PullStep == ASSUME MallocInv, mm_malloc_pull PROVE MallocInv' /\ ok' /\ PayloadsKept
<1> USE DEF MallocInv
<1> DEFINE fb == best(nsize)
<1>1. /\ ok /\ pc = "mm_malloc" /\ pc' = "split" /\ call.size # 0 /\ fits(nsize) # {}
      /\ blk' = fb /\ pull_free_block(fb) /\ UNCHANGED <<brk, epilogue, blocks>>
      /\ UNCHANGED <<live, call, ret>>
  BY DEF mm_malloc_pull, At
<1>2. ret = NULL /\ nsize \in Nat
  BY <1>1, CallFacts DEF CallOK, Taking
<1>3. InTransit = {} /\ ~Freeing /\ Released = {} /\ Owned = DOMAIN live
  BY <1>1, <1>2, PcTableHolds DEF PcTable, PcIs, gained
<1>4. Ring(mem, FreeBlocks, flist_first) /\ FreeBlocks \in SUBSET blocks
      /\ FreeBlocks \in SUBSET FreeBlocks
  BY <1>3 DEF ListOK, Listed, FreeBlocks
<1>5. fb \in FreeBlocks /\ mem[fb].val >= nsize
  BY <1>1, <1>2, <1>4, BestFits
<1> HIDE DEF fb
<1>6. ok' = TRUE /\ SameTags /\ Ring(mem', FreeBlocks \ {fb}, flist_first')
      /\ Spares(mem, mem', FreeBlocks)
  BY <1>1, <1>4, <1>5, PullKeeps
<1>7. FreeBlocks' = FreeBlocks
  BY <1>6, SameTagsFree
<1>8. InTransit' = {fb} /\ ~Freeing' /\ Released' = {} /\ Owned' = DOMAIN live
  BY <1>1, <1>2, PcTableAfter DEF PcTable, PcIs, gained
<1>9. HeapOK' /\ BitsOK' /\ RoomOK' /\ MergeOK' /\ RetOK'
  BY <1>1, <1>3, <1>6, <1>8, SameTagsBits, SameTagsRoom, SameTagsMerge, SameTagsRet
     DEF SameTags
<1>10. ListOK'
  BY <1>5, <1>6, <1>7, <1>8 DEF ListOK, Listed
<1>11. fb \in blocks /\ fb \in Nat
  BY <1>4, <1>5, BlockWords DEF HeapOK
<1>12. MallocTypeOK'
  <2>1. ret' \in Nat
    BY <1>1 DEF MallocTypeOK
  <2> QED
    BY <1>1, <1>6, <1>9, <1>11, <2>1, TypeKept
<1>13. CallOK'
  BY <1>1 DEF CallOK, Taking, Freeing, Growing
<1>14. WorkOK'
  <2>1. Growing => nsize > mem'[call.ptr - 1].val
    <3> SUFFICES ASSUME Growing PROVE nsize > mem'[call.ptr - 1].val
      OBVIOUS
    <3>1. call.ptr # NULL /\ nsize > mem[call.ptr - 1].val
      BY <1>1 DEF WorkOK, Taking, Growing
    <3> QED
      BY <1>3, <1>6, <3>1, PassedBlock
  <2>2. mem'[fb] = mem[fb]
    BY <1>6, <1>11 DEF SameTags
  <2>3. nsize' = nsize /\ Growing' = Growing
    BY <1>1 DEF nsize, Growing
  <2> QED
    BY <1>1, <1>5, <1>7, <2>1, <2>2, <2>3 DEF WorkOK, Taking, Freeing
<1>15. PayloadsKept
  BY <1>6, SparesPayloads
<1> QED
  BY <1>15, <1>6, <1>9, <1>10, <1>12, <1>13, <1>14


LEMMA SplitInsertStep == ASSUME MallocInv, split_insert PROVE MallocInv' /\ ok' /\ PayloadsKept
<1> USE DEF MallocInv
<1> DEFINE fb == block_next(blk)
<1>1. /\ ok /\ pc = "split_insert" /\ pc' = (IF Growing THEN "copy" ELSE "return")
      /\ ret' = payload(blk) /\ insert_free_block(fb) /\ UNCHANGED <<brk, epilogue, blocks>>
      /\ UNCHANGED <<live, call, blk>>
  BY DEF split_insert, At, malloc_returns
<1>2. /\ ret = NULL /\ call.size # 0 /\ (~Growing => call.ptr = NULL)
      /\ call.ptr \in DOMAIN live \cup {NULL}
  BY <1>1 DEF CallOK, Taking, Growing
<1>3. /\ blk \in blocks /\ mem[blk].val = nsize /\ fb \in FreeBlocks /\ payload(blk) \notin DOMAIN live
  BY <1>1 DEF WorkOK
<1>4. /\ InTransit = {fb} /\ ~Freeing /\ Released = {} /\ Owned = DOMAIN live \cup {payload(blk)}
  BY <1>1, <1>2, PcTableHolds DEF PcTable, PcIs, gained
<1> DEFINE L == FreeBlocks \ {fb}
<1>5. Ring(mem, L, flist_first) /\ L \in SUBSET FreeBlocks /\ fb \in FreeBlocks \ L
      /\ L \cup {fb} = FreeBlocks
  BY <1>3, <1>4 DEF ListOK, Listed
<1> HIDE DEF L, fb
<1>6. ok' = TRUE /\ SameTags /\ Ring(mem', FreeBlocks, flist_first')
      /\ Spares(mem, mem', FreeBlocks)
  BY <1>1, <1>5, InsertKeeps
<1>7. FreeBlocks' = FreeBlocks
  BY <1>6, SameTagsFree
<1>8. blk \in Nat /\ payload(blk) \in Nat /\ payload(blk) # NULL /\ payload(blk) - 1 = blk
  <2>1. blk \in Nat
    BY <1>3, BlockWords DEF HeapOK
  <2> QED
    BY <2>1 DEF payload, NULL
<1>9. gained' = {payload(blk)} /\ dropped' = {call.ptr}
  BY <1>1, <1>2, <1>8 DEF gained, dropped
<1>10. InTransit' = {} /\ ~Freeing' /\ Released' = {} /\ Owned' = Owned
  <2>1. CASE Growing
    BY <1>1, <1>4, <1>9, <2>1, PcTableAfter DEF PcTable, PcIs
  <2>2. CASE ~Growing
    <3>1. /\ InTransit' = {} /\ ~Freeing' /\ Released' = dropped' \ (gained' \cup {NULL})
          /\ Owned' = (DOMAIN live' \ Released') \cup gained'
      BY <1>1, <2>2, PcTableAfter DEF PcTable
    <3> QED
      BY <1>1, <1>2, <1>4, <1>9, <2>2, <3>1
  <2> QED
    BY <2>1, <2>2
<1>11. HeapOK' /\ BitsOK' /\ RoomOK' /\ MergeOK'
  BY <1>1, <1>4, <1>6, <1>10, SameTagsBits, SameTagsRoom, SameTagsMerge DEF SameTags
<1>12. ListOK'
  BY <1>6, <1>7, <1>10 DEF ListOK, Listed
<1>13. MallocTypeOK'
  <2>1. blk' \in Nat /\ ret' \in Nat
    BY <1>1, <1>8
  <2> QED
    BY <1>1, <1>6, <1>11, <2>1, TypeKept
<1>14. nsize' = nsize /\ Growing' = Growing
  BY <1>1 DEF nsize, Growing
<1>15. RetOK'
  <2>1. mem'[blk] = mem[blk] /\ nsize \in Nat
    BY <1>3, <1>6, CallFacts DEF SameTags
  <2>2. nsize <= mem'[payload(blk) - 1].val
    BY <1>3, <1>8, <2>1
  <2> QED
    BY <1>1, <1>2, <1>3, <1>8, <1>14, <2>2 DEF RetOK
<1>16. CallOK'
  BY <1>1, <1>2 DEF CallOK, Taking, Freeing, Growing
<1>17. WorkOK'
  <2>1. Growing => nsize > mem'[call.ptr - 1].val
    <3> SUFFICES ASSUME Growing PROVE nsize > mem'[call.ptr - 1].val
      OBVIOUS
    <3>1. call.ptr # NULL /\ nsize > mem[call.ptr - 1].val
      BY <1>1 DEF WorkOK, Taking, Growing
    <3> QED
      BY <1>4, <1>6, <3>1, PassedBlock
  <2> QED
    BY <1>1, <1>14, <2>1 DEF WorkOK, Taking, Freeing
<1>18. PayloadsKept
  BY <1>6, SparesPayloads
<1> QED
  BY <1>18, <1>6, <1>11, <1>12, <1>13, <1>15, <1>16, <1>17

LEMMA FreeInsertStep == ASSUME MallocInv, mm_free_insert PROVE MallocInv' /\ ok' /\ PayloadsKept
<1> USE DEF MallocInv
<1>1. /\ ok /\ pc = "insert" /\ pc' = "coalesce" /\ insert_free_block(blk)
      /\ UNCHANGED <<brk, epilogue, blocks>> /\ UNCHANGED <<live, call, blk, ret>>
  BY DEF mm_free_insert, At, callvars
<1>2. InTransit = {blk} /\ Freeing /\ Released = {call.ptr}
      /\ Owned = (DOMAIN live \ {call.ptr}) \cup gained
  BY <1>1, PcTableHolds DEF PcTable, PcIs
<1>3. blk \in FreeBlocks
  BY <1>2 DEF WorkOK
<1> DEFINE L == FreeBlocks \ {blk}
<1>4. Ring(mem, L, flist_first) /\ L \in SUBSET FreeBlocks /\ blk \in FreeBlocks \ L
      /\ L \cup {blk} = FreeBlocks
  BY <1>2, <1>3 DEF ListOK, Listed
<1> HIDE DEF L
<1>5. ok' = TRUE /\ SameTags /\ Ring(mem', FreeBlocks, flist_first')
      /\ Spares(mem, mem', FreeBlocks)
  BY <1>1, <1>4, InsertKeeps
<1>6. FreeBlocks' = FreeBlocks
  BY <1>5, SameTagsFree
<1>7. InTransit' = {} /\ Freeing' /\ Released' = Released /\ Owned' = Owned
  BY <1>1, <1>2, PcTableAfter DEF PcTable, PcIs, gained
<1>8. HeapOK' /\ BitsOK' /\ RoomOK' /\ MergeOK' /\ RetOK'
  BY <1>1, <1>5, <1>7, SameTagsBits, SameTagsRoom, SameTagsMerge, SameTagsRet DEF SameTags
<1>9. ListOK'
  BY <1>5, <1>6, <1>7 DEF ListOK, Listed
<1>10. MallocTypeOK'
  <2>1. blk' \in Nat /\ ret' \in Nat
    BY <1>1 DEF MallocTypeOK
  <2> QED
    BY <1>1, <1>5, <1>8, <2>1, TypeKept
<1>11. CallOK' /\ WorkOK'
  BY <1>1, <1>3, <1>6 DEF CallOK, WorkOK, Taking, Freeing
<1>12. PayloadsKept
  BY <1>5, SparesPayloads
<1> QED
  BY <1>12, <1>5, <1>8, <1>9, <1>10, <1>11

LEMMA CoalescePullStep == ASSUME MallocInv, coalesce_pull PROVE MallocInv' /\ ok' /\ PayloadsKept
<1> USE DEF MallocInv
<1> DEFINE fb == IF prev_free THEN blk ELSE block_next(blk)
<1>1. /\ ok /\ pc = "coalesce" /\ (prev_free \/ next_free) /\ pull_free_block(fb)
      /\ pc' = (IF prev_free /\ next_free THEN "pull_next" ELSE "merge")
      /\ UNCHANGED <<brk, epilogue, blocks>> /\ UNCHANGED <<live, call, blk, ret>>
  BY DEF coalesce_pull, At, callvars
<1>2. InTransit = {} /\ Freeing /\ Released = {call.ptr}
      /\ Owned = (DOMAIN live \ {call.ptr}) \cup gained
  BY <1>1, PcTableHolds DEF PcTable, PcIs
<1>3. blk \in FreeBlocks
  BY <1>2 DEF WorkOK
<1>4. /\ blk \in blocks /\ blk # Base /\ blk # epilogue
      /\ next_free <=> block_next(blk) \in FreeBlocks
  BY <1>3, AmidFacts
<1>5. fb \in FreeBlocks /\ Ring(mem, FreeBlocks, flist_first) /\ FreeBlocks \in SUBSET FreeBlocks
  BY <1>1, <1>2, <1>3, <1>4 DEF ListOK, Listed
<1> HIDE DEF fb
<1>6. ok' = TRUE /\ SameTags /\ Ring(mem', FreeBlocks \ {fb}, flist_first')
      /\ Spares(mem, mem', FreeBlocks)
  BY <1>1, <1>5, PullKeeps
<1>7. FreeBlocks' = FreeBlocks
  BY <1>6, SameTagsFree
<1>8. prev_free' = prev_free /\ next_free' = next_free /\ block_next(blk)' = block_next(blk)
  BY <1>1, <1>4, <1>6, SameTagsAmid
<1>9. Freeing' /\ Released' = Released /\ Owned' = Owned
  BY <1>1, <1>2, PcTableAfter DEF PcTable, PcIs, gained
<1>10. InTransit' = {fb}
  <2>1. CASE prev_free /\ next_free
    BY <1>1, <2>1, PcTableAfter DEF PcTable, fb
  <2>2. CASE prev_free /\ ~next_free
    BY <1>1, <1>8, <2>2, PcTableAfter DEF PcTable, fb
  <2>3. CASE ~prev_free
    BY <1>1, <1>8, <2>3, PcTableAfter DEF PcTable, fb
  <2> QED
    BY <2>1, <2>2, <2>3
<1>11. HeapOK' /\ BitsOK' /\ RoomOK' /\ MergeOK' /\ RetOK'
  BY <1>1, <1>6, <1>9, SameTagsBits, SameTagsRoom, SameTagsMerge, SameTagsRet DEF SameTags
<1>12. ListOK'
  BY <1>5, <1>6, <1>7, <1>10 DEF ListOK, Listed
<1>13. MallocTypeOK'
  <2>1. blk' \in Nat /\ ret' \in Nat
    BY <1>1 DEF MallocTypeOK
  <2> QED
    BY <1>1, <1>6, <1>11, <2>1, TypeKept
<1>14. CallOK'
  BY <1>1 DEF CallOK, Taking, Freeing
<1>15. WorkOK'
  BY <1>1, <1>3, <1>7, <1>8 DEF WorkOK, Taking, Freeing
<1>16. PayloadsKept
  BY <1>6, SparesPayloads
<1> QED
  BY <1>16, <1>6, <1>11, <1>12, <1>13, <1>14, <1>15

LEMMA PullNextStep == ASSUME MallocInv, coalesce_pull_next PROVE MallocInv' /\ ok' /\ PayloadsKept
<1> USE DEF MallocInv
<1> DEFINE fb == block_next(blk)
<1>1. /\ ok /\ pc = "pull_next" /\ pull_free_block(fb) /\ pc' = "merge"
      /\ UNCHANGED <<brk, epilogue, blocks>> /\ UNCHANGED <<live, call, blk, ret>>
  BY DEF coalesce_pull_next, At, callvars
<1>2. InTransit = {blk} /\ Freeing /\ Released = {call.ptr}
      /\ Owned = (DOMAIN live \ {call.ptr}) \cup gained
  BY <1>1, PcTableHolds DEF PcTable, PcIs
<1>3. blk \in FreeBlocks /\ prev_free /\ next_free
  BY <1>1, <1>2 DEF WorkOK
<1>4. /\ blk \in blocks /\ blk # Base /\ blk # epilogue /\ fb \in FreeBlocks
      /\ fb = blk + mem[blk].val
  BY <1>3, AmidFacts
<1>5. fb # blk
  <2>1. blk \in Nat /\ mem[blk].val \in Nat /\ mem[blk].val >= 4
    BY <1>4, BlockWords DEF HeapOK
  <2> QED
    BY <1>4, <2>1
<1> DEFINE L == FreeBlocks \ {blk}
<1>6. Ring(mem, L, flist_first) /\ L \in SUBSET FreeBlocks /\ fb \in L
  BY <1>2, <1>4, <1>5 DEF ListOK, Listed
<1> HIDE DEF L
<1>7. ok' = TRUE /\ SameTags /\ Ring(mem', L \ {fb}, flist_first')
      /\ Spares(mem, mem', L)
  BY <1>1, <1>6, PullKeeps
<1>8. FreeBlocks' = FreeBlocks
  BY <1>7, SameTagsFree
<1>9. prev_free' = prev_free /\ next_free' = next_free /\ block_next(blk)' = block_next(blk)
  BY <1>1, <1>4, <1>7, SameTagsAmid
<1>10. Freeing' /\ Released' = Released /\ Owned' = Owned
  BY <1>1, <1>2, PcTableAfter DEF PcTable, PcIs, gained
<1>11. InTransit' = {blk, fb}
  BY <1>1, <1>3, <1>9, PcTableAfter DEF PcTable
<1>12. HeapOK' /\ BitsOK' /\ RoomOK' /\ MergeOK' /\ RetOK'
  BY <1>1, <1>7, <1>10, SameTagsBits, SameTagsRoom, SameTagsMerge, SameTagsRet DEF SameTags
<1>13. ListOK'
  <2>1. L \ {fb} = FreeBlocks' \ InTransit'
    BY <1>8, <1>11 DEF L
  <2> QED
    BY <1>3, <1>4, <1>7, <1>8, <1>11, <2>1 DEF ListOK, Listed
<1>14. MallocTypeOK'
  <2>1. blk' \in Nat /\ ret' \in Nat
    BY <1>1 DEF MallocTypeOK
  <2> QED
    BY <1>1, <1>7, <1>12, <2>1, TypeKept
<1>15. CallOK'
  BY <1>1 DEF CallOK, Taking, Freeing
<1>16. WorkOK'
  BY <1>1, <1>3, <1>8, <1>9 DEF WorkOK, Taking, Freeing
<1>17. PayloadsKept
  BY <1>6, <1>7, SparesPayloads
<1> QED
  BY <1>17, <1>7, <1>12, <1>13, <1>14, <1>15, <1>16


------------------------------------------------------------------------------
(* The steps of mm_malloc that write tags *)

\* mm_malloc returns the payload of the block x.
LEMMA GivesBlock ==
    ASSUME MallocInv, pc \in {"mm_malloc", "split"}, call.size # 0, NEW x \in Nat,
           pc' = (IF Growing THEN "copy" ELSE "return"), ret' = payload(x),
           UNCHANGED <<live, call>>
    PROVE  /\ InTransit' = {} /\ ~Freeing' /\ Released' = {}
           /\ Owned' = DOMAIN live \cup {x + 1} /\ Owned = DOMAIN live
           /\ Released = {} /\ ~Freeing
           /\ CallOK' /\ ret' = x + 1 /\ ret' # NULL
           /\ nsize' = nsize /\ (Growing' <=> Growing)
<1> USE DEF MallocInv
<1>1. /\ ret = NULL /\ (~Growing => call.ptr = NULL)
      /\ call.ptr \in DOMAIN live \cup {NULL}
  BY DEF CallOK, Taking, Growing
<1>2. ~Freeing /\ Released = {} /\ Owned = DOMAIN live
  BY <1>1, PcTableHolds DEF PcTable, PcIs, gained
<1>3. ret' = x + 1 /\ ret' # NULL
  BY DEF payload, NULL
<1>4. gained' = {x + 1} /\ dropped' = {call.ptr}
  BY <1>3 DEF gained, dropped
<1>5. InTransit' = {} /\ ~Freeing' /\ Released' = {} /\ Owned' = DOMAIN live \cup {x + 1}
  <2>1. CASE Growing
    BY <1>4, <2>1, PcTableAfter DEF PcTable, PcIs
  <2>2. CASE ~Growing
    <3>1. /\ InTransit' = {} /\ ~Freeing' /\ Released' = dropped' \ (gained' \cup {NULL})
          /\ Owned' = (DOMAIN live' \ Released') \cup gained'
      BY <2>2, PcTableAfter DEF PcTable
    <3> QED
      BY <1>1, <1>4, <2>2, <3>1
  <2> QED
    BY <2>1, <2>2
<1>6. CallOK'
  BY <1>1, <1>3 DEF CallOK, Taking, Freeing, Growing
<1>7. nsize' = nsize /\ (Growing' <=> Growing)
  BY DEF nsize, Growing
<1> QED
  BY <1>2, <1>3, <1>5, <1>6, <1>7

\* What is left to show of a step of mm_malloc that returns the block x.
LEMMA GivesRest ==
    ASSUME MallocInv, pc \in {"mm_malloc", "split"}, call.size # 0, NEW x \in Nat,
           pc' = (IF Growing THEN "copy" ELSE "return"), ret' = payload(x),
           UNCHANGED <<live, call>>, UNCHANGED <<blk, ok>>, HeapOK',
           x + 1 \notin DOMAIN live, nsize <= mem'[x].val,
           \A p \in DOMAIN live : mem'[p - 1].val = mem[p - 1].val
    PROVE  MallocTypeOK' /\ RoomOK' /\ RetOK' /\ CallOK' /\ WorkOK'
<1> USE DEF MallocInv
<1>1. /\ ~Freeing' /\ Released' = {} /\ Released = {} /\ CallOK' /\ ret' = x + 1 /\ ret' # NULL
      /\ nsize' = nsize /\ (Growing' <=> Growing)
  BY GivesBlock
<1>2. MallocTypeOK'
  <2>1. blk' \in Nat /\ ret' \in Nat /\ ok' \in BOOLEAN
    BY <1>1 DEF MallocTypeOK
  <2>2. pc' \in {"copy", "return"}
    OBVIOUS
  <2> QED
    BY <2>1, <2>2, TypeKept
<1>3. RoomOK'
  BY <1>1 DEF RoomOK, align, TAGS_SIZE
<1>4. RetOK'
  <2>1. (x + 1) - 1 = x
    OBVIOUS
  <2>2. x + 1 # call.ptr
    BY <1>1 DEF CallOK
  <2> QED
    BY <1>1, <2>1, <2>2 DEF RetOK
<1>5. WorkOK'
  <2>1. Growing => nsize > mem'[call.ptr - 1].val
    <3>1. Growing => call.ptr \in DOMAIN live /\ nsize > mem[call.ptr - 1].val
      BY DEF WorkOK, CallOK, Taking, Growing
    <3> QED
      BY <3>1
  <2> QED
    BY <1>1, <2>1 DEF WorkOK, Taking, Freeing
<1> QED
  BY <1>1, <1>2, <1>3, <1>4, <1>5

LEMMA NoSplitStep == ASSUME MallocInv, no_split PROVE MallocInv' /\ ok' /\ PayloadsKept
<1> USE DEF MallocInv
<1> DEFINE s == mem[blk].val
<1>1. /\ ok /\ pc = "split" /\ pc' = (IF Growing THEN "copy" ELSE "return")
      /\ mem' = block_set_size_and_allocated(mem, blk, block_size(blk), 1)
      /\ ret' = payload(blk) /\ UNCHANGED <<brk, flist_first, epilogue, blocks>>
      /\ UNCHANGED <<live, call>> /\ UNCHANGED <<blk, ok>>
  BY DEF no_split, At, malloc_returns
<1>2. blk \in FreeBlocks /\ s >= nsize /\ call.size # 0
  BY <1>1 DEF WorkOK, CallOK
<1>3. /\ blk \in blocks /\ blk # Base /\ blk # epilogue /\ mem[blk].bit = 0
      /\ blk + 1 \notin Owned
  BY <1>2, OwnedFacts
<1>4. Heap(mem, blocks, epilogue, brk)
  BY DEF HeapOK
<1>5. /\ blk \in Nat /\ s \in Nat /\ s >= 4 /\ blk \in Arena /\ blk + s - 1 \in Arena
  BY <1>3, <1>4, BlockWords
<1>6. TagsAre(mem, mem', blk, s, 1)
  <2>1. block_size(blk) = s
    BY <1>3, NextIs DEF NextView
  <2> HIDE DEF s
  <2>2. TagWrite(mem, mem', blk, s, 1)
    BY <1>1, <2>1 DEF TagWrite
  <2>3. mem \in [Arena -> Word] /\ 1 \in Bits
    BY <1>4 DEF Heap, Bits
  <2> QED
    BY <1>5, <2>2, <2>3, TagsSet, Zenon
<1>7. Outside(mem, mem', blk, blk + s)
  BY <1>5, <1>6 DEF Outside, TagsAre
<1>8. Heap(mem', blocks, epilogue, brk) /\ \A c \in blocks : mem'[c].val = mem[c].val
  BY <1>3, <1>4, <1>6, <1>7, HeapMark DEF TagsAre
<1>9. \A c \in blocks \ {blk} : mem'[c] = mem[c] /\ mem'[c + 1] = mem[c + 1] /\ mem'[c + 2] = mem[c + 2]
  <2> TAKE c \in blocks \ {blk}
  <2>1. c + mem[c].val <= blk \/ blk + s <= c
    BY <1>3, <1>4, Disjoint
  <2>2. blk + s \in Nat
    BY <1>5
  <2> HIDE DEF s
  <2> QED
    BY <1>4, <1>5, <1>7, <2>1, <2>2, BlockOutside
<1>10. /\ InTransit' = {} /\ ~Freeing' /\ Released' = {}
       /\ Owned' = DOMAIN live \cup {blk + 1} /\ Owned = DOMAIN live
       /\ ~Freeing
  BY <1>1, <1>2, <1>5, GivesBlock
<1>11. HeapOK'
  BY <1>1, <1>8 DEF HeapOK
<1>12. FreeBlocks' = FreeBlocks \ {blk}
  <2>1. FreeBlocks = {b \in blocks : mem[b].bit = 0}
    BY FreeIs DEF FreeView, FreeSet
  <2>2. FreeBlocks' = {b \in blocks : mem'[b].bit = 0}
    BY <1>1, <1>11, FreeAfter DEF FreeView, FreeSet
  <2>3. mem'[blk].bit # 0
    BY <1>6 DEF TagsAre
  <2> QED
    BY <1>9, <2>1, <2>2, <2>3
<1>13. InTransit = {blk} /\ Listed = FreeBlocks \ {blk}
  BY <1>1, PcTableHolds DEF PcTable, Listed
<1>14. ListOK'
  <2> DEFINE L == FreeBlocks \ {blk}
  <2>1. L \subseteq blocks \ {blk} /\ Ring(mem, L, flist_first) /\ Listed' = L
    BY <1>10, <1>12, <1>13 DEF ListOK, FreeBlocks, Listed
  <2> HIDE DEF L
  <2>2. Ring(mem', L, flist_first)
    BY <1>9, <2>1, RingFrame
  <2> QED
    BY <1>1, <1>10, <2>1, <2>2 DEF ListOK
<1>15. BitsOK'
  <2>1. mem'[blk].bit = 1
    BY <1>6 DEF TagsAre
  <2>2. \A b \in blocks : mem'[b].bit = 1 <=> b \in {Base, epilogue} \/ b + 1 \in Owned'
    <3> TAKE b \in blocks
    <3>1. CASE b = blk
      BY <1>10, <2>1, <3>1
    <3>2. CASE b # blk
      <4>1. b \in Nat /\ b + 1 # blk + 1
        BY <1>4, <1>5, <3>2, BlockWords
      <4> QED
        BY <1>9, <1>10, <3>2, <4>1 DEF BitsOK
    <3> QED
      BY <3>1, <3>2
  <2>3. \A p \in Owned' : p - 1 \in blocks \ {Base, epilogue}
    <3>1. (blk + 1) - 1 = blk
      BY <1>5
    <3> QED
      BY <1>3, <1>10, <3>1 DEF BitsOK
  <2> QED
    BY <1>1, <2>2, <2>3 DEF BitsOK
<1>16. MergeOK'
  <2>1. \A b \in FreeBlocks' : b \in FreeBlocks /\ mem'[b].val = mem[b].val
    BY <1>8, <1>12 DEF FreeBlocks
  <2> QED
    BY <1>10, <2>1 DEF MergeOK
<1>17. MallocTypeOK' /\ RoomOK' /\ RetOK' /\ CallOK' /\ WorkOK'
  <2>1. \A p \in DOMAIN live : mem'[p - 1].val = mem[p - 1].val
    BY <1>8, <1>10 DEF BitsOK
  <2>2. nsize <= mem'[blk].val
    <3>1. nsize \in Nat
      BY CallFacts
    <3> QED
      BY <1>2, <1>3, <1>5, <1>8, <3>1
  <2> QED
    BY <1>1, <1>2, <1>3, <1>5, <1>10, <1>11, <2>1, <2>2, GivesRest
<1>18. PayloadsKept
  <2>1. \A b \in blocks \ FreeBlocks : b + mem[b].val <= blk \/ blk + s <= b
    BY <1>2, <1>3, <1>4, Disjoint
  <2>2. blk + s \in Nat
    BY <1>5
  <2> HIDE DEF s
  <2> QED
    BY <1>5, <1>7, <2>1, <2>2, OutsidePayloads
<1> QED
  BY <1>18, <1>1, <1>11, <1>14, <1>15, <1>16, <1>17


LEMMA ExtendStep == ASSUME MallocInv, extend_heap PROVE MallocInv' /\ ok' /\ PayloadsKept
<1> USE DEF MallocInv
<1> DEFINE e == epilogue
           s == nsize
           n1 == block_set_size_and_allocated(mem, e, s, 1)
<1>1. /\ ok /\ pc = "mm_malloc" /\ call.size # 0
      /\ pc' = (IF Growing THEN "copy" ELSE "return")
      /\ brk + s <= Base + MaxHeap /\ brk' = brk + s
      /\ mem' = block_set_size_and_allocated(n1, e + s, 4, 1)
      /\ epilogue' = e + s /\ blocks' = blocks \cup {e + s} /\ flist_first' = flist_first
      /\ ret' = payload(e) /\ UNCHANGED <<live, call>> /\ UNCHANGED <<blk, ok>>
  BY DEF extend_heap, At, malloc_returns, mem_sbrk, MINBLOCKSIZE
<1>2. Heap(mem, blocks, e, brk)
  BY DEF HeapOK
<1>3. s \in Nat /\ s >= 4
  BY CallFacts
<1> HIDE DEF s
<1>4. /\ e \in blocks /\ e \in Nat /\ e + 4 = brk /\ brk \in Nat /\ Base \in Nat /\ e >= Base
      /\ mem \in [Arena -> Word] /\ e # Base
  <2>1. e \in Nat /\ brk \in Nat /\ Base \in Nat
    BY <1>2, HeapNumbers
  <2>2. e \in blocks /\ e + 4 = brk /\ mem \in [Arena -> Word]
    BY <1>2 DEF Heap
  <2>3. e >= Base /\ e # Base
    BY <1>2, <2>2, HeapNumbers DEF BitsOK
  <2> QED
    BY <2>1, <2>2, <2>3
<1>5. /\ e \in Arena /\ e + s - 1 \in Arena /\ e + s \in Arena /\ (e + s) + 4 - 1 \in Arena
  <2>1. MaxHeap \in Nat
    BY ArenaAssumption
  <2> QED
    BY <1>1, <1>3, <1>4, <2>1 DEF Arena
<1>6. TagsAre(mem, n1, e, s, 1)
  <2>1. TagWrite(mem, n1, e, s, 1) /\ 1 \in Bits
    BY DEF TagWrite, Bits
  <2> HIDE DEF n1, e
  <2> QED
    BY <1>3, <1>4, <1>5, <2>1, TagsSet, Zenon
<1>7. TagsAre(n1, mem', e + s, 4, 1)
  <2>1. TagWrite(n1, mem', e + s, 4, 1) /\ 1 \in Bits /\ 4 \in Nat
    BY <1>1 DEF TagWrite, Bits
  <2>2. n1 \in [Arena -> Word]
    BY <1>6 DEF TagsAre
  <2> HIDE DEF n1, e
  <2> QED
    BY <1>5, <2>1, <2>2, TagsSet, Zenon
<1> HIDE DEF n1, e
<1>8. /\ mem' \in [Arena -> Word] /\ mem'[e].val = s /\ mem'[e].bit = 1
      /\ mem'[e + s - 1] = mem'[e]
      /\ mem'[e + s].val = 4 /\ mem'[e + s].bit = 1 /\ mem'[e + s + 3] = mem'[e + s]
  <2>1. /\ e # e + s /\ e # (e + s) + 4 - 1 /\ e + s - 1 # e + s
        /\ e + s - 1 # (e + s) + 4 - 1 /\ (e + s) + 4 - 1 = e + s + 3
    BY <1>3, <1>4
  <2> QED
    BY <1>5, <1>6, <1>7, <2>1 DEF TagsAre
<1>9. Outside(mem, mem', e, brk + s)
  <2> SUFFICES ASSUME NEW x \in Arena, x < e \/ brk + s <= x PROVE mem'[x] = mem[x]
    BY DEF Outside
  <2>1. x \in Int
    BY ArenaAssumption DEF Arena
  <2>2. x # e /\ x # e + s - 1 /\ x # e + s /\ x # (e + s) + 4 - 1
    BY <1>3, <1>4, <2>1
  <2> QED
    BY <1>6, <1>7, <2>2 DEF TagsAre
<1>10. /\ Heap(mem', blocks \cup {e + s}, e + s, brk + s) /\ e + s \notin blocks
  BY <1>1, <1>2, <1>3, <1>8, <1>9, HeapExtend
<1>11. \A c \in blocks \ {e} : mem'[c] = mem[c] /\ mem'[c + 1] = mem[c + 1] /\ mem'[c + 2] = mem[c + 2]
  <2> TAKE c \in blocks \ {e}
  <2>1. c + mem[c].val <= e
    <3>1. c \in Nat /\ c <= e
      BY <1>2, BlockWords
    <3>2. c < e
      BY <1>4, <3>1
    <3> QED
      BY <1>2, <1>4, <3>2 DEF Heap
  <2>2. brk + s \in Nat
    BY <1>3, <1>4
  <2> QED
    BY <1>2, <1>4, <1>9, <2>1, <2>2, BlockOutside
<1>12. /\ InTransit' = {} /\ ~Freeing' /\ Released' = {}
       /\ Owned' = DOMAIN live \cup {e + 1} /\ Owned = DOMAIN live /\ ~Freeing
  BY <1>1, <1>4, GivesBlock
<1>13. HeapOK'
  BY <1>1, <1>10 DEF HeapOK
<1>14. FreeBlocks' = FreeBlocks /\ e \notin FreeBlocks
  <2>1. FreeBlocks = {b \in blocks : mem[b].bit = 0}
    BY FreeIs DEF FreeView, FreeSet
  <2>2. FreeBlocks' = {b \in blocks \cup {e + s} : mem'[b].bit = 0}
    BY <1>1, <1>13, FreeAfter DEF FreeView, FreeSet
  <2>3. mem[e].bit = 1
    BY <1>4 DEF BitsOK, e
  <2> QED
    BY <1>8, <1>11, <2>1, <2>2, <2>3
<1>15. InTransit = {} /\ Listed = FreeBlocks
  BY <1>1, PcTableHolds DEF PcTable, PcIs, Listed
<1>16. FreeBlocks \subseteq blocks \ {e}
  BY <1>14 DEF FreeBlocks
<1>17. ListOK'
  <2>1. Ring(mem, FreeBlocks, flist_first) /\ Listed' = FreeBlocks
    BY <1>12, <1>14, <1>15 DEF ListOK, Listed
  <2>2. \A c \in FreeBlocks : mem'[c + 1] = mem[c + 1] /\ mem'[c + 2] = mem[c + 2]
    BY <1>11, <1>16
  <2>3. Ring(mem', FreeBlocks, flist_first)
    BY <2>1, <2>2, RingFrame
  <2> QED
    BY <1>1, <1>12, <2>1, <2>3 DEF ListOK
<1>18. BitsOK'
  <2>1. ASSUME NEW b \in blocks \cup {e + s}
        PROVE  mem'[b].bit = 1 <=> b \in {Base, e + s} \/ b + 1 \in Owned'
    <3>1. CASE b = e + s
      BY <1>8, <3>1
    <3>2. CASE b = e
      BY <1>8, <1>12, <3>2
    <3>3. CASE b \in blocks \ {e}
      <4>1. b \in Nat /\ b + 1 # e + 1 /\ b # e + s
        <5>1. b \in Nat
          BY <1>2, <3>3, BlockWords
        <5> QED
          BY <1>4, <1>10, <3>3, <5>1
      <4>2. mem[b].bit = 1 <=> b \in {Base, e} \/ b + 1 \in Owned
        BY <3>3 DEF BitsOK, e
      <4> QED
        BY <1>11, <1>12, <3>3, <4>1, <4>2
    <3> QED
      BY <3>1, <3>2, <3>3
  <2>2. ASSUME NEW p \in Owned' PROVE p - 1 \in (blocks \cup {e + s}) \ {Base, e + s}
    <3>1. CASE p = e + 1
      <4>1. p - 1 = e /\ e # e + s
        BY <1>3, <1>4, <3>1
      <4> QED
        BY <1>4, <4>1
    <3>2. CASE p \in DOMAIN live
      <4>1. p - 1 \in blocks \ {Base, e}
        BY <1>12, <3>2 DEF BitsOK, e
      <4> QED
        BY <1>10, <4>1
    <3> QED
      BY <1>12, <3>1, <3>2
  <2>3. e + s # Base
    BY <1>3, <1>4
  <2> QED
    BY <1>1, <2>1, <2>2, <2>3 DEF BitsOK
<1>19. MergeOK'
  <2>1. \A b \in FreeBlocks : mem'[b] = mem[b]
    BY <1>11, <1>16
  <2> QED
    BY <1>12, <1>14, <2>1 DEF MergeOK
<1>20. MallocTypeOK' /\ RoomOK' /\ RetOK' /\ CallOK' /\ WorkOK'
  <2>1. \A p \in DOMAIN live : p - 1 \in blocks \ {e}
    BY <1>12 DEF BitsOK, e
  <2>2. \A p \in DOMAIN live : mem'[p - 1].val = mem[p - 1].val
    BY <1>11, <2>1
  <2>3. nsize <= mem'[e].val
    BY <1>3, <1>8 DEF s
  <2>4. e + 1 \notin DOMAIN live
    <3>1. (e + 1) - 1 = e
      BY <1>4
    <3> QED
      BY <2>1, <3>1
  <2> QED
    BY <1>1, <1>4, <1>13, <2>2, <2>3, <2>4, GivesRest
<1>21. PayloadsKept
  <2>1. \A b \in blocks \ {e} : b + mem[b].val <= e
    <3> TAKE b \in blocks \ {e}
    <3>1. b \in Nat /\ b <= e
      BY <1>2, BlockWords
    <3>2. b < e
      BY <1>4, <3>1
    <3> QED
      BY <1>2, <1>4, <3>2 DEF Heap
  <2>2. brk + s \in Nat
    BY <1>3, <1>4
  <2>3. \A b \in blocks \ FreeBlocks : b # epilogue => b + mem[b].val <= e \/ brk + s <= b
    BY <2>1 DEF e
  <2> QED
    BY <1>4, <1>9, <2>2, <2>3, OutsidePayloads
<1> QED
  BY <1>21, <1>1, <1>13, <1>17, <1>18, <1>19, <1>20

LEMMA SplitStep == ASSUME MallocInv, split PROVE MallocInv' /\ ok' /\ PayloadsKept
<1> USE DEF MallocInv
<1> DEFINE t == mem[blk].val
           s == nsize
           r == blk + s
           n1 == block_set_size_and_allocated(mem, blk, s, 1)
<1>1. /\ ok /\ pc = "split" /\ pc' = "split_insert" /\ blocks' = blocks \cup {r}
      /\ mem' = block_set_size_and_allocated(n1, r, block_size(blk) - s, 0)
      /\ block_size(blk) - s >= 4
      /\ UNCHANGED <<brk, flist_first, epilogue>> /\ UNCHANGED <<live, call, blk, ret, ok>>
  BY DEF split, At, callvars, MINBLOCKSIZE
<1>2. blk \in FreeBlocks /\ t >= s /\ call.size # 0 /\ ret = NULL
  BY <1>1 DEF WorkOK, CallOK, Taking
<1>3. /\ blk \in blocks /\ blk # Base /\ blk # epilogue /\ mem[blk].bit = 0
      /\ blk + 1 \notin Owned
  BY <1>2, OwnedFacts
<1>4. Heap(mem, blocks, epilogue, brk)
  BY DEF HeapOK
<1>5. block_size(blk) = t
  BY <1>3, NextIs DEF NextView
<1>6. /\ blk \in Nat /\ t \in Nat /\ blk \in Arena /\ blk + t - 1 \in Arena
  BY <1>3, <1>4, BlockWords
<1>7. s \in Nat /\ s >= 4
  BY CallFacts
<1> DEFINE d == t - s
<1>8. d \in Nat /\ d >= 4 /\ t = s + d
  BY <1>1, <1>5, <1>6, <1>7
<1> HIDE DEF s, t
<1>9. /\ r \in Arena /\ r + d - 1 \in Arena /\ blk + s - 1 \in Arena /\ r + d = blk + t /\ r \in Nat
      /\ r + d - 1 = blk + t - 1
  <2>1. Base \in Nat /\ MaxHeap \in Nat
    BY ArenaAssumption
  <2> QED
    BY <1>6, <1>7, <1>8, <2>1 DEF Arena
<1> HIDE DEF d
<1>10. TagsAre(mem, n1, blk, s, 1)
  <2>1. TagWrite(mem, n1, blk, s, 1) /\ 1 \in Bits
    BY DEF TagWrite, Bits
  <2>2. mem \in [Arena -> Word]
    BY <1>4 DEF Heap
  <2> HIDE DEF n1
  <2> QED
    BY <1>6, <1>7, <1>9, <2>1, <2>2, TagsSet, Zenon
<1>11. TagsAre(n1, mem', r, d, 0)
  <2>1. TagWrite(n1, mem', r, d, 0) /\ 0 \in Bits
    BY <1>1, <1>5 DEF TagWrite, Bits, d
  <2>2. n1 \in [Arena -> Word]
    BY <1>10 DEF TagsAre
  <2> HIDE DEF n1, r
  <2> QED
    BY <1>8, <1>9, <2>1, <2>2, TagsSet, Zenon
<1> HIDE DEF n1
<1>12. /\ mem' \in [Arena -> Word] /\ mem'[blk].val = s /\ mem'[blk].bit = 1
       /\ mem'[blk + s - 1] = mem'[blk]
       /\ mem'[r].val = d /\ mem'[r].bit = 0 /\ mem'[blk + t - 1] = mem'[r]
  <2>1. blk # r /\ blk # r + d - 1 /\ blk + s - 1 # r /\ blk + s - 1 # r + d - 1
    BY <1>6, <1>7, <1>8
  <2> QED
    BY <1>6, <1>9, <1>10, <1>11, <2>1 DEF TagsAre
<1>13. Outside(mem, mem', blk, blk + t)
  <2> SUFFICES ASSUME NEW x \in Arena, x < blk \/ blk + t <= x PROVE mem'[x] = mem[x]
    BY DEF Outside
  <2>1. x \in Int
    BY ArenaAssumption DEF Arena
  <2>2. x # blk /\ x # blk + s - 1 /\ x # r /\ x # r + d - 1
    BY <1>6, <1>7, <1>8, <2>1
  <2> QED
    BY <1>10, <1>11, <2>2 DEF TagsAre
<1>14. Heap(mem', blocks \cup {r}, epilogue, brk) /\ r \notin blocks
  <2>1. /\ t - s = d
        /\ mem'[blk + s].val = t - s /\ mem'[blk + t - 1] = mem'[blk + s]
    BY <1>12 DEF d
  <2>2. t - s >= 4 /\ Outside(mem, mem', blk, blk + t) /\ mem' \in [Arena -> Word]
    BY <1>8, <1>12, <1>13, <2>1
  <2>3. mem'[blk].val = s /\ mem'[blk + s - 1] = mem'[blk] /\ s \in Nat /\ s >= 4
    BY <1>7, <1>12
  <2> HIDE DEF r
  <2>4. mem[blk].val - s >= 4 /\ Outside(mem, mem', blk, blk + mem[blk].val)
    BY <2>2 DEF t
  <2>5. mem'[blk + s].val = mem[blk].val - s /\ mem'[blk + mem[blk].val - 1] = mem'[blk + s]
    BY <2>1 DEF t
  <2>6. /\ Heap(mem', blocks \cup {blk + s}, epilogue, brk) /\ blk + s \notin blocks
    BY <1>3, <1>4, <2>2, <2>3, <2>4, <2>5, HeapSplit, ZenonT(40)
  <2> QED
    BY <2>6 DEF r
<1>15. \A c \in blocks \ {blk} : mem'[c] = mem[c] /\ mem'[c + 1] = mem[c + 1] /\ mem'[c + 2] = mem[c + 2]
  <2> TAKE c \in blocks \ {blk}
  <2>1. c + mem[c].val <= blk \/ blk + t <= c
    BY <1>3, <1>4, Disjoint DEF t
  <2>2. blk + t \in Nat
    BY <1>6
  <2> QED
    BY <1>4, <1>6, <1>13, <2>1, <2>2, BlockOutside
<1>16. HeapOK'
  BY <1>1, <1>14 DEF HeapOK
<1>17. block_next(blk)' = r
  BY <1>1, <1>3, <1>12, <1>16, NextAfter DEF NextView
<1>18. /\ InTransit' = {r} /\ ~Freeing' /\ Released' = {} /\ Owned' = DOMAIN live \cup {blk + 1}
       /\ InTransit = {blk} /\ ~Freeing /\ Released = {} /\ Owned = DOMAIN live
  BY <1>1, <1>2, <1>17, PcTableHolds, PcTableAfter DEF PcTable, gained, payload
<1>19. FreeBlocks' = (FreeBlocks \ {blk}) \cup {r} /\ r \notin FreeBlocks
  <2>1. FreeBlocks = {b \in blocks : mem[b].bit = 0}
    BY FreeIs DEF FreeView, FreeSet
  <2>2. FreeBlocks' = {b \in blocks \cup {r} : mem'[b].bit = 0}
    BY <1>1, <1>16, FreeAfter DEF FreeView, FreeSet
  <2>3. mem'[blk].bit # 0
    BY <1>12
  <2> QED
    BY <1>12, <1>14, <1>15, <2>1, <2>2, <2>3
<1> HIDE DEF r
<1>20. ListOK'
  <2> DEFINE L == FreeBlocks \ {blk}
  <2>1. L \subseteq blocks \ {blk} /\ Ring(mem, L, flist_first) /\ Listed' = L
    BY <1>18, <1>19 DEF ListOK, FreeBlocks, Listed
  <2> HIDE DEF L
  <2>2. Ring(mem', L, flist_first)
    BY <1>15, <2>1, RingFrame
  <2> QED
    BY <1>1, <1>18, <1>19, <2>1, <2>2 DEF ListOK
<1>21. BitsOK'
  <2>1. ASSUME NEW b \in blocks \cup {r}
        PROVE  mem'[b].bit = 1 <=> b \in {Base, epilogue} \/ b + 1 \in Owned'
    <3>1. CASE b = blk
      BY <1>12, <1>18, <3>1
    <3>2. CASE b = r
      <4>1. r # Base /\ r # epilogue
        BY <1>4, <1>14 DEF Heap
      <4>2. r + 1 \notin DOMAIN live
        <5>1. (r + 1) - 1 = r
          BY <1>9
        <5> QED
          BY <1>14, <1>18, <5>1 DEF BitsOK
      <4>3. r + 1 # blk + 1
        BY <1>3, <1>6, <1>9, <1>14
      <4> QED
        BY <1>12, <1>18, <3>2, <4>1, <4>2, <4>3
    <3>3. CASE b \in blocks \ {blk}
      <4>1. b \in Nat
        BY <1>4, <3>3, BlockWords
      <4>2. b + 1 # blk + 1
        BY <1>6, <3>3, <4>1
      <4> QED
        BY <1>15, <1>18, <3>3, <4>2 DEF BitsOK
    <3> QED
      BY <3>1, <3>2, <3>3
  <2>2. \A p \in Owned' : p - 1 \in (blocks \cup {r}) \ {Base, epilogue}
    <3>1. (blk + 1) - 1 = blk
      BY <1>6
    <3> QED
      BY <1>3, <1>18, <3>1 DEF BitsOK
  <2> QED
    BY <1>1, <2>1, <2>2 DEF BitsOK
<1>22. MergeOK'
  <2> SUFFICES ASSUME NEW b \in FreeBlocks', NEW c \in FreeBlocks', c = b + mem'[b].val
               PROVE  FALSE
    BY DEF MergeOK
  <2>1. \A x, y \in FreeBlocks : y # x + mem[x].val
    BY <1>18 DEF MergeOK
  <2>2. CASE b = r
    <3>1. c = blk + t /\ c # r
      BY <1>8, <1>9, <1>12, <2>2
    <3> QED
      BY <1>2, <1>19, <2>1, <3>1 DEF t
  <2>3. CASE b \in FreeBlocks \ {blk} /\ c = r
    <3>1. b \in blocks \ {blk}
      BY <2>3 DEF FreeBlocks
    <3>2. b + mem[b].val = r
      BY <1>15, <2>3, <3>1
    <3>3. b + mem[b].val <= blk \/ blk + t <= b
      BY <1>3, <1>4, <3>1, Disjoint DEF t
    <3>4. b \in Nat /\ mem[b].val \in Nat /\ mem[b].val >= 4
      BY <1>4, <3>1, BlockWords
    <3> QED
      BY <1>6, <1>7, <1>8, <3>2, <3>3, <3>4 DEF r
  <2>4. CASE b \in FreeBlocks \ {blk} /\ c \in FreeBlocks
    <3>1. b \in blocks \ {blk}
      BY <2>4 DEF FreeBlocks
    <3> QED
      BY <1>15, <2>1, <2>4, <3>1
  <2> QED
    BY <1>19, <2>2, <2>3, <2>4
<1>23. MallocTypeOK'
  <2>1. blk' \in Nat /\ ret' \in Nat /\ ok' \in BOOLEAN
    BY <1>1 DEF MallocTypeOK
  <2> QED
    BY <1>1, <1>16, <2>1, TypeKept
<1>24. \A p \in DOMAIN live : p - 1 \in blocks \ {blk} /\ mem'[p - 1].val = mem[p - 1].val
  <2> TAKE p \in DOMAIN live
  <2>1. p \in Nat /\ p - 1 \in blocks
    BY <1>18 DEF BitsOK, MallocTypeOK
  <2>2. p - 1 # blk
    BY <1>3, <1>6, <1>18, <2>1
  <2> QED
    BY <1>15, <2>1, <2>2
<1>25. RoomOK'
  BY <1>1, <1>18, <1>24 DEF RoomOK, align, TAGS_SIZE
<1>26. RetOK'
  BY <1>1, <1>2 DEF RetOK
<1>27. CallOK'
  BY <1>1 DEF CallOK, Taking, Freeing, Growing
<1>28. WorkOK'
  <2>1. nsize' = nsize /\ (Growing' <=> Growing)
    BY <1>1 DEF nsize, Growing
  <2>2. Growing => nsize > mem'[call.ptr - 1].val
    <3>1. Growing => call.ptr \in DOMAIN live /\ nsize > mem[call.ptr - 1].val
      BY <1>1 DEF WorkOK, CallOK, Taking, Growing
    <3> QED
      BY <1>24, <3>1
  <2>3. payload(blk) \notin DOMAIN live
    BY <1>3, <1>18 DEF payload
  <2>4. blk \in blocks' /\ mem'[blk].val = nsize /\ block_next(blk)' \in FreeBlocks'
    BY <1>1, <1>3, <1>12, <1>17, <1>19 DEF s
  <2>5. payload(blk)' \notin DOMAIN live'
    BY <1>1, <2>3 DEF payload
  <2> QED
    BY <1>1, <2>1, <2>2, <2>4, <2>5 DEF WorkOK, Taking, Freeing
<1>29. PayloadsKept
  <2>1. \A b \in blocks \ FreeBlocks : b + mem[b].val <= blk \/ blk + t <= b
    BY <1>2, <1>3, <1>4, Disjoint DEF t
  <2>2. blk + t \in Nat
    BY <1>6
  <2> QED
    BY <1>6, <1>13, <2>1, <2>2, OutsidePayloads
<1> QED
  BY <1>29, <1>1, <1>16, <1>20, <1>21, <1>22, <1>23, <1>25, <1>26, <1>27, <1>28

------------------------------------------------------------------------------
(* The steps of mm_free that write tags *)

LEMMA FreeStep == ASSUME MallocInv, mm_free PROVE MallocInv' /\ ok' /\ PayloadsKept
<1> USE DEF MallocInv
<1> DEFINE p == call.ptr
           b == p - 1
           s == mem[b].val
<1>1. /\ ok /\ pc = "mm_free" /\ pc' = "insert" /\ blk' = b
      /\ mem' = block_set_size_and_allocated(mem, b, block_size(b), 0)
      /\ UNCHANGED <<brk, flist_first, epilogue, blocks>> /\ UNCHANGED <<live, call, ret, ok>>
  BY DEF mm_free, At, payload_to_block
<1>2. p # NULL /\ p \in DOMAIN live /\ (call.size # 0 => ret # NULL)
  BY <1>1 DEF CallOK
<1>3. /\ InTransit = {} /\ ~Freeing /\ Released = {} /\ Owned = DOMAIN live \cup gained
  BY <1>1, PcTableHolds DEF PcTable, PcIs
<1>4. b \in blocks /\ b # Base /\ b # epilogue /\ b \notin FreeBlocks /\ p \in Nat
  BY <1>2, <1>3, OwnedFacts DEF MallocTypeOK
<1>5. ret # p
  BY <1>1, <1>2 DEF RetOK
<1> HIDE DEF p
<1>6. Heap(mem, blocks, epilogue, brk)
  BY DEF HeapOK
<1>7. /\ b \in Nat /\ s \in Nat /\ s >= 4 /\ b \in Arena /\ b + s - 1 \in Arena
  BY <1>4, <1>6, BlockWords
<1>8. p = b + 1
  BY <1>4
<1> HIDE DEF b
<1>9. TagsAre(mem, mem', b, s, 0)
  <2>1. block_size(b) = s
    BY <1>4, NextIs DEF NextView
  <2> HIDE DEF s
  <2>2. TagWrite(mem, mem', b, s, 0)
    BY <1>1, <2>1 DEF TagWrite
  <2>3. mem \in [Arena -> Word] /\ 0 \in Bits
    BY <1>6 DEF Heap, Bits
  <2> QED
    BY <1>7, <2>2, <2>3, TagsSet, Zenon
<1>10. Outside(mem, mem', b, b + s)
  BY <1>7, <1>9 DEF Outside, TagsAre
<1>11. Heap(mem', blocks, epilogue, brk) /\ \A c \in blocks : mem'[c].val = mem[c].val
  BY <1>4, <1>6, <1>9, <1>10, HeapMark DEF TagsAre
<1>12. \A c \in blocks \ {b} : mem'[c] = mem[c] /\ mem'[c + 1] = mem[c + 1] /\ mem'[c + 2] = mem[c + 2]
  <2> TAKE c \in blocks \ {b}
  <2>1. c + mem[c].val <= b \/ b + s <= c
    BY <1>4, <1>6, Disjoint
  <2>2. b + s \in Nat
    BY <1>7
  <2> HIDE DEF s
  <2> QED
    BY <1>6, <1>7, <1>10, <2>1, <2>2, BlockOutside
<1>13. HeapOK'
  BY <1>1, <1>11 DEF HeapOK
<1>14. /\ InTransit' = {b} /\ Freeing' /\ Released' = {p} /\ Owned' = (DOMAIN live \ {p}) \cup gained
       /\ Owned' = Owned \ {p}
  <2>1. /\ InTransit' = {b} /\ Freeing' /\ Released' = {p}
        /\ Owned' = (DOMAIN live \ {p}) \cup gained
    BY <1>1, PcTableAfter DEF PcTable, PcIs, gained, p
  <2>2. p \notin gained
    BY <1>5 DEF gained
  <2> QED
    BY <1>3, <2>1, <2>2
<1>15. FreeBlocks' = FreeBlocks \cup {b}
  <2>1. FreeBlocks = {c \in blocks : mem[c].bit = 0}
    BY FreeIs DEF FreeView, FreeSet
  <2>2. FreeBlocks' = {c \in blocks : mem'[c].bit = 0}
    BY <1>1, <1>13, FreeAfter DEF FreeView, FreeSet
  <2>3. mem'[b].bit = 0
    BY <1>9 DEF TagsAre
  <2> QED
    BY <1>4, <1>12, <2>1, <2>2, <2>3
<1>16. ListOK'
  <2>1. Listed = FreeBlocks /\ Listed' = FreeBlocks
    BY <1>3, <1>4, <1>14, <1>15 DEF Listed
  <2>2. Ring(mem, FreeBlocks, flist_first) /\ FreeBlocks \subseteq blocks \ {b}
    BY <1>4, <2>1 DEF ListOK, FreeBlocks
  <2>3. \A c \in FreeBlocks : mem'[c + 1] = mem[c + 1] /\ mem'[c + 2] = mem[c + 2]
    BY <1>12, <2>2
  <2>4. Ring(mem', FreeBlocks, flist_first)
    BY <2>2, <2>3, RingFrame
  <2> QED
    BY <1>1, <1>14, <1>15, <2>1, <2>4 DEF ListOK
<1>17. BitsOK'
  <2>1. ASSUME NEW c \in blocks
        PROVE  mem'[c].bit = 1 <=> c \in {Base, epilogue} \/ c + 1 \in Owned'
    <3>1. CASE c = b
      <4>1. mem'[b].bit = 0 /\ b + 1 \notin Owned'
        BY <1>8, <1>9, <1>14 DEF TagsAre
      <4> QED
        BY <1>4, <3>1, <4>1
    <3>2. CASE c # b
      <4>1. c \in Nat
        BY <1>6, BlockWords
      <4>2. c + 1 # p
        BY <1>7, <1>8, <3>2, <4>1
      <4> QED
        BY <1>12, <1>14, <3>2, <4>2 DEF BitsOK
    <3> QED
      BY <3>1, <3>2
  <2>2. \A q \in Owned' : q - 1 \in blocks \ {Base, epilogue}
    BY <1>14 DEF BitsOK
  <2> QED
    BY <1>1, <2>1, <2>2 DEF BitsOK
<1>18. MergeOK'
  <2> SUFFICES ASSUME NEW x \in FreeBlocks', NEW y \in FreeBlocks', y = x + mem'[x].val
               PROVE  b \in {x, y}
    BY <1>1, <1>14 DEF MergeOK
  <2>1. x \in blocks
    BY <1>4, <1>15 DEF FreeBlocks
  <2> QED
    BY <1>3, <1>11, <1>15, <2>1 DEF MergeOK
<1>19. MallocTypeOK'
  <2>1. blk' \in Nat /\ ret' \in Nat /\ ok' \in BOOLEAN
    BY <1>1, <1>7 DEF MallocTypeOK
  <2> QED
    BY <1>1, <1>13, <2>1, TypeKept
<1>20. \A q \in Owned : mem'[q - 1].val = mem[q - 1].val
  BY <1>11 DEF BitsOK
<1>21. RoomOK'
  <2>1. DOMAIN live \subseteq Owned
    BY <1>3
  <2> QED
    BY <1>1, <1>3, <1>20, <2>1 DEF RoomOK, align, TAGS_SIZE
<1>22. RetOK'
  <2>1. ret # NULL => ret \in Owned
    BY <1>3 DEF gained
  <2>2. nsize' = nsize
    BY <1>1 DEF nsize
  <2> QED
    BY <1>1, <1>5, <1>20, <2>1, <2>2 DEF RetOK, p
<1>23. CallOK'
  BY <1>1 DEF CallOK, Taking, Freeing, payload_to_block, b, p
<1>24. WorkOK'
  BY <1>1, <1>15 DEF WorkOK, Taking, Freeing
<1>25. PayloadsKept
  <2> SUFFICES ASSUME NEW c \in blocks, NEW a \in Arena, c < a, a + 2 <= c + mem[c].val
               PROVE  mem'[a] = mem[a]
    BY DEF PayloadsKept
  <2>1. c \in Nat /\ mem[c].val \in Nat /\ a \in Int
    BY <1>6, BlockWords, ArenaAssumption DEF Arena
  <2>2. c # b => c + mem[c].val <= b \/ b + s <= c
    BY <1>4, <1>6, Disjoint
  <2>3. a # b /\ a # b + s - 1
    <3>1. CASE c = b
      BY <1>7, <2>1, <3>1
    <3>2. CASE c # b
      BY <1>7, <2>1, <2>2, <3>2
    <3> QED
      BY <3>1, <3>2
  <2> QED
    BY <1>9, <2>3 DEF TagsAre
<1> QED
  BY <1>25, <1>1, <1>13, <1>16, <1>17, <1>18, <1>19, <1>21, <1>22, <1>23, <1>24

LEMMA MergeStep == ASSUME MallocInv, coalesce_merge PROVE MallocInv' /\ ok' /\ PayloadsKept
<1> USE DEF MallocInv
<1> DEFINE pv == blk - mem[blk - 1].val
           nx == blk + mem[blk].val
           f == IF prev_free THEN pv ELSE blk
           g == IF next_free THEN nx + mem[nx].val ELSE nx
           z == g - f
           size == block_size(blk) + (IF prev_free THEN block_size(block_prev(blk)) ELSE 0)
                                   + (IF next_free THEN block_size(block_next(blk)) ELSE 0)
<1>1. Heap(mem, blocks, epilogue, brk)
  BY DEF HeapOK
<1>2. pc = "merge"
  BY DEF coalesce_merge, At
<1>3. blk \in FreeBlocks /\ (prev_free \/ next_free)
  BY <1>2 DEF WorkOK, Freeing
<1>4. /\ blk \in blocks /\ blk # Base /\ blk # epilogue /\ mem[blk].bit = 0
      /\ block_prev(blk) = pv /\ (prev_free <=> pv \in FreeBlocks)
      /\ block_next(blk) = nx /\ (next_free <=> nx \in FreeBlocks)
  BY <1>3, AmidFacts
<1>5. pv \in blocks /\ pv + mem[pv].val = blk /\ nx \in blocks
  <2>1. pv \in blocks /\ pv + mem[pv].val = blk
    BY <1>1, <1>4, BlockBefore
  <2>2. nx \in blocks
    BY <1>1, <1>4 DEF Heap
  <2> QED
    BY <2>1, <2>2
<1>6. /\ block_size(blk) = mem[blk].val /\ block_size(pv) = mem[pv].val
      /\ block_size(nx) = mem[nx].val
  BY <1>4, <1>5, NextIs DEF NextView
<1>7. next_free => nx + mem[nx].val \in blocks
  <2>1. next_free => nx # epilogue
    BY <1>4, OwnedFacts
  <2> QED
    BY <1>1, <1>5, <2>1 DEF Heap
<1>8. /\ f \in blocks /\ g \in blocks /\ f \in FreeBlocks
  BY <1>3, <1>4, <1>5, <1>7
<1>9. /\ blk \in Nat /\ mem[blk].val \in Nat /\ mem[blk].val >= 4
      /\ pv \in Nat /\ mem[pv].val \in Nat /\ mem[pv].val >= 4
      /\ nx \in Nat /\ mem[nx].val \in Nat /\ mem[nx].val >= 4
  <2> HIDE DEF pv, nx
  <2> QED
    BY <1>1, <1>4, <1>5, BlockWords
<1> HIDE DEF pv
<1>10. nx = blk + mem[blk].val
  OBVIOUS
<1> HIDE DEF nx
<1>11. /\ f \in Nat /\ g \in Nat /\ f <= blk /\ nx <= g /\ z \in Nat /\ z >= 8 /\ f + z = g
       /\ (prev_free => f < blk) /\ (next_free => nx < g)
  BY <1>3, <1>5, <1>9, <1>10
<1>12. size = z
  BY <1>4, <1>5, <1>6, <1>9, <1>10
<1> HIDE DEF size
<1>13. /\ ok /\ pc' = "return" /\ mem' = block_set_size_and_allocated(mem, f, size, 0)
       /\ blocks' = {c \in blocks : c <= f \/ c >= f + size}
       /\ UNCHANGED <<brk, flist_first, epilogue>> /\ UNCHANGED <<live, call, blk, ret, ok>>
  BY <1>4 DEF coalesce_merge, At, callvars, size
<1>14. blocks' = {c \in blocks : c <= f \/ c >= g}
  BY <1>11, <1>12, <1>13
<1>15. /\ Freeing /\ InTransit = (IF prev_free THEN {blk} ELSE {}) \cup (IF next_free THEN {nx} ELSE {})
       /\ Released = {call.ptr} /\ Owned = (DOMAIN live \ {call.ptr}) \cup gained
  BY <1>2, <1>4, PcTableHolds DEF PcTable, PcIs
<1>16. ASSUME NEW c \in blocks PROVE c \in InTransit <=> f < c /\ c < g
  <2>1. c \in Nat /\ mem[c].val \in Nat /\ mem[c].val >= 4
    BY <1>1, BlockWords
  <2>2. c # pv => c + mem[c].val <= pv \/ pv + mem[pv].val <= c
    BY <1>1, <1>5, Disjoint
  <2>3. c # blk => c + mem[c].val <= blk \/ blk + mem[blk].val <= c
    BY <1>1, <1>4, Disjoint
  <2>4. c # nx => c + mem[c].val <= nx \/ nx + mem[nx].val <= c
    BY <1>1, <1>5, Disjoint
  <2>5. CASE c = blk
    BY <1>9, <1>10, <1>11, <1>15, <2>5
  <2>6. CASE c = nx
    BY <1>9, <1>10, <1>11, <1>15, <2>6
  <2>7. CASE c # blk /\ c # nx
    <3>1. c \notin InTransit
      BY <1>15, <2>7
    <3>2. ~(f < c /\ c < g)
      <4>1. CASE c + mem[c].val <= blk
        BY <1>5, <1>9, <2>1, <2>2, <4>1
      <4>2. CASE nx + mem[nx].val <= c
        BY <1>9, <2>1, <4>2
      <4> QED
        BY <1>9, <1>10, <2>1, <2>3, <2>4, <2>7, <4>1, <4>2
    <3> QED
      BY <3>1, <3>2
  <2> QED
    BY <2>5, <2>6, <2>7
<1> HIDE DEF f, g, z
<1>17. f \in Arena /\ f + z - 1 \in Arena /\ g - 1 = f + z - 1
  <2>1. f \in Arena
    BY <1>1, <1>8, BlockWords
  <2>2. g \in Arena
    BY <1>1, <1>8, BlockWords
  <2>3. Base \in Nat /\ MaxHeap \in Nat
    BY ArenaAssumption
  <2> QED
    BY <1>11, <2>1, <2>2, <2>3 DEF Arena
<1>18. TagsAre(mem, mem', f, z, 0)
  <2>1. TagWrite(mem, mem', f, z, 0)
    BY <1>12, <1>13 DEF TagWrite
  <2>2. mem \in [Arena -> Word] /\ 0 \in Bits
    BY <1>1 DEF Heap, Bits
  <2> QED
    BY <1>11, <1>17, <2>1, <2>2, TagsSet, Zenon
<1>19. Outside(mem, mem', f, g)
  <2> SUFFICES ASSUME NEW x \in Arena, x < f \/ g <= x PROVE mem'[x] = mem[x]
    BY DEF Outside
  <2>1. x \in Int
    BY ArenaAssumption DEF Arena
  <2>2. x # f /\ x # f + z - 1
    BY <1>11, <2>1
  <2> QED
    BY <1>18, <2>2 DEF TagsAre
<1>20. Heap(mem', blocks', epilogue, brk)
  <2>1. mem'[f].val = g - f /\ mem'[g - 1] = mem'[f] /\ f < g
    BY <1>11, <1>17, <1>18 DEF TagsAre, z
  <2>2. mem' \in [Arena -> Word]
    BY <1>18 DEF TagsAre
  <2> QED
    BY <1>1, <1>8, <1>14, <1>19, <2>1, <2>2, HeapMerge
<1>21. HeapOK'
  BY <1>13, <1>20 DEF HeapOK
<1>22. \A c \in blocks : c \in blocks' <=> c \notin InTransit
  <2> TAKE c \in blocks
  <2>1. c \in Nat
    BY <1>1, BlockWords
  <2> QED
    BY <1>11, <1>14, <1>16, <2>1
<1>23. \A c \in blocks' : /\ c \in blocks /\ mem'[c].bit = mem[c].bit
                          /\ mem'[c + 1] = mem[c + 1] /\ mem'[c + 2] = mem[c + 2]
                          /\ c # f => mem'[c] = mem[c]
  <2> TAKE c \in blocks'
  <2>1. c \in blocks /\ (c <= f \/ c >= g)
    BY <1>14
  <2>2. CASE c = f
    <3>1. mem'[f].bit = 0 /\ mem[f].bit = 0
      BY <1>8, <1>18, OwnedFacts DEF TagsAre
    <3>2. f + 1 \in Arena /\ f + 2 \in Arena
      BY <1>1, <1>8, BlockWords
    <3>3. f + 1 # f /\ f + 2 # f /\ f + 1 # f + z - 1 /\ f + 2 # f + z - 1
      BY <1>11
    <3> QED
      BY <1>18, <2>1, <2>2, <3>1, <3>2, <3>3 DEF TagsAre
  <2>3. CASE c # f
    <3>1. c \in Nat
      BY <1>1, <2>1, BlockWords
    <3>2. c + mem[c].val <= f \/ f + mem[f].val <= c
      BY <1>1, <1>8, <2>1, <2>3, Disjoint
    <3>3. mem[f].val \in Nat /\ mem[f].val >= 4
      BY <1>1, <1>8, BlockWords
    <3>4. c + mem[c].val <= f \/ g <= c
      BY <1>11, <2>1, <2>3, <3>1, <3>2, <3>3
    <3> QED
      BY <1>1, <1>11, <1>19, <2>1, <3>4, BlockOutside
  <2> QED
    BY <2>2, <2>3
<1>24. FreeBlocks' = Listed /\ f \in Listed
  <2>1. FreeBlocks = {c \in blocks : mem[c].bit = 0}
    BY FreeIs DEF FreeView, FreeSet
  <2>2. FreeBlocks' = {c \in blocks' : mem'[c].bit = 0}
    BY <1>21, FreeAfter DEF FreeView, FreeSet
  <2>3. f \notin InTransit
    BY <1>8, <1>11, <1>16
  <2> QED
    BY <1>8, <1>22, <1>23, <2>1, <2>2, <2>3 DEF Listed
<1>25. call.ptr # NULL /\ (call.size # 0 => ret # NULL) /\ ret # call.ptr
  BY <1>2, <1>15 DEF CallOK, RetOK
<1>26. InTransit' = {} /\ ~Freeing' /\ Released' = {call.ptr} /\ gained' = gained /\ Owned' = Owned
  <2>1. /\ InTransit' = {} /\ ~Freeing' /\ Released' = dropped' \ (gained' \cup {NULL})
        /\ Owned' = (DOMAIN live' \ Released') \cup gained'
    BY <1>13, PcTableAfter DEF PcTable
  <2>2. gained' = gained /\ dropped' = dropped /\ dropped = {call.ptr} /\ call.ptr \notin gained
    BY <1>13, <1>25 DEF gained, dropped
  <2>3. Released' = {call.ptr}
    BY <1>25, <2>1, <2>2
  <2> QED
    BY <1>13, <1>15, <2>1, <2>2, <2>3
<1>27. ListOK'
  <2>1. Listed' = Listed /\ Listed \subseteq blocks'
    BY <1>22, <1>24, <1>26 DEF Listed, FreeBlocks
  <2>2. Ring(mem, Listed, flist_first)
    BY DEF ListOK
  <2>3. \A c \in Listed : mem'[c + 1] = mem[c + 1] /\ mem'[c + 2] = mem[c + 2]
    BY <1>23, <2>1
  <2>4. Ring(mem', Listed, flist_first)
    BY <2>2, <2>3, RingFrame
  <2> QED
    BY <1>13, <1>26, <2>1, <2>4 DEF ListOK
<1>28. \A p \in Owned : p - 1 \in blocks' /\ p - 1 # f /\ mem'[p - 1] = mem[p - 1]
  <2> TAKE p \in Owned
  <2>1. p - 1 \in blocks /\ p - 1 \notin FreeBlocks
    BY OwnedFacts
  <2>2. p - 1 \notin InTransit /\ p - 1 # f
    BY <1>8, <2>1 DEF ListOK
  <2> QED
    BY <1>22, <1>23, <2>1, <2>2
<1>29. BitsOK'
  <2>1. \A c \in blocks' : mem'[c].bit = 1 <=> c \in {Base, epilogue} \/ c + 1 \in Owned'
    BY <1>23, <1>26 DEF BitsOK
  <2>2. \A p \in Owned' : p - 1 \in blocks' \ {Base, epilogue}
    BY <1>26, <1>28 DEF BitsOK
  <2> QED
    BY <1>13, <2>1, <2>2 DEF BitsOK
<1>30. RoomOK' /\ RetOK'
  <2>1. DOMAIN live \ {call.ptr} \subseteq Owned
    BY <1>15
  <2>2. RoomOK'
    BY <1>13, <1>15, <1>26, <1>28, <2>1 DEF RoomOK, align, TAGS_SIZE
  <2>3. ret # NULL => ret \in Owned
    BY <1>15 DEF gained
  <2>4. nsize' = nsize
    BY <1>13 DEF nsize
  <2>5. RetOK'
    BY <1>13, <1>25, <1>28, <2>3, <2>4 DEF RetOK
  <2> QED
    BY <2>2, <2>5
<1>31. MergeOK'
  <2> SUFFICES ASSUME NEW b \in Listed, NEW c \in Listed, c = b + mem'[b].val PROVE FALSE
    BY <1>24 DEF MergeOK
  <2>1. b \in FreeBlocks /\ c \in FreeBlocks /\ b \in blocks /\ b \in blocks'
    BY <1>22 DEF Listed, FreeBlocks
  <2>2. b \in Nat
    BY <1>1, <2>1, BlockWords
  <2>3. CASE b # f
    <3>1. c = b + mem[b].val /\ mem[b].val \in Nat /\ mem[b].val >= 4
      BY <1>1, <1>23, <2>1, <2>3, BlockWords
    <3>2. blk \in {b, c}
      BY <2>1, <3>1 DEF MergeOK
    <3>3. ~prev_free
      BY <1>15, <3>2 DEF Listed
    <3>4. f = blk
      BY <3>3 DEF f
    <3>5. blk = b + mem[b].val
      BY <2>3, <3>1, <3>2, <3>4
    <3>6. b # pv
      BY <1>4, <2>1, <3>3
    <3>7. b + mem[b].val <= pv \/ pv + mem[pv].val <= b
      BY <1>1, <1>5, <2>1, <3>6, Disjoint
    <3> QED
      BY <1>5, <1>9, <2>2, <3>1, <3>5, <3>7
  <2>4. CASE b = f
    <3>1. c = g
      BY <1>11, <1>18, <2>4 DEF TagsAre
    <3>2. CASE next_free
      <4>1. nx \in FreeBlocks /\ g = nx + mem[nx].val
        BY <1>4, <3>2 DEF g
      <4>2. blk \in {nx, g}
        BY <2>1, <3>1, <4>1 DEF MergeOK
      <4> QED
        BY <1>9, <1>10, <1>11, <4>2
    <3>3. CASE ~next_free
      BY <1>4, <2>1, <3>1, <3>3 DEF g
    <3> QED
      BY <3>2, <3>3
  <2> QED
    BY <2>3, <2>4
<1>32. MallocTypeOK'
  <2>1. blk' \in Nat /\ ret' \in Nat /\ ok' \in BOOLEAN
    BY <1>13 DEF MallocTypeOK
  <2> QED
    BY <1>13, <1>21, <2>1, TypeKept
<1>33. CallOK' /\ WorkOK'
  BY <1>13 DEF CallOK, WorkOK, Taking, Freeing
<1>34. PayloadsKept
  <2> SUFFICES ASSUME NEW b \in blocks \ FreeBlocks PROVE b + mem[b].val <= f \/ g <= b
    BY <1>11, <1>19, OutsidePayloads
  <2>1. b \notin InTransit /\ b # f
    BY <1>8 DEF ListOK
  <2>2. b \in Nat /\ mem[b].val \in Nat
    BY <1>1, BlockWords
  <2>3. b + mem[b].val <= f \/ f + mem[f].val <= b
    BY <1>1, <1>8, <2>1, Disjoint
  <2>4. mem[f].val \in Nat /\ mem[f].val >= 4
    BY <1>1, <1>8, BlockWords
  <2> QED
    BY <1>11, <1>16, <2>1, <2>2, <2>3, <2>4
<1> QED
  BY <1>34, <1>13, <1>21, <1>27, <1>29, <1>30, <1>31, <1>32, <1>33

------------------------------------------------------------------------------
(* The steps that write into a payload *)

\* A write between the tags of an allocated block disturbs neither the heap nor
\* the free list.
PayloadWrite(x) ==
  /\ mem' \in [Arena -> Word]
  /\ \A a \in Arena : mem'[a] = mem[a] \/ (x < a /\ a + 2 <= x + mem[x].val)

LEMMA PayloadWritten ==
    ASSUME MallocInv, NEW x \in blocks, x \notin FreeBlocks, PayloadWrite(x),
           UNCHANGED <<brk, epilogue, blocks>>, flist_first' = flist_first
    PROVE  SameTags /\ Ring(mem', Listed, flist_first')
<1> USE DEF MallocInv
<1>1. Heap(mem, blocks, epilogue, brk)
  BY DEF HeapOK
<1>2. x \in Nat /\ mem[x].val \in Nat /\ mem[x].val >= 4 /\ x \in Arena /\ x + mem[x].val - 1 \in Arena
  BY <1>1, BlockWords
<1>3. Outside(mem, mem', x, x + mem[x].val)
  <2> SUFFICES ASSUME NEW a \in Arena, a < x \/ x + mem[x].val <= a PROVE mem'[a] = mem[a]
    BY DEF Outside
  <2>1. a \in Int
    BY ArenaAssumption DEF Arena
  <2> QED
    BY <1>2, <2>1 DEF PayloadWrite
<1>4. mem'[x] = mem[x] /\ mem'[x + mem[x].val - 1] = mem[x + mem[x].val - 1]
  <2>1. ~(x < x) /\ ~((x + mem[x].val - 1) + 2 <= x + mem[x].val)
    BY <1>2
  <2> QED
    BY <1>2, <2>1 DEF PayloadWrite
<1>5. ASSUME NEW c \in blocks \ {x}
      PROVE  /\ mem'[c] = mem[c] /\ mem'[c + mem[c].val - 1] = mem[c + mem[c].val - 1]
             /\ mem'[c + 1] = mem[c + 1] /\ mem'[c + 2] = mem[c + 2]
  <2>1. c + mem[c].val <= x \/ x + mem[x].val <= c
    BY <1>1, Disjoint
  <2>2. x + mem[x].val \in Nat
    BY <1>2
  <2> QED
    BY <1>1, <1>2, <1>3, <2>1, <2>2, BlockOutside
<1>6. \A c \in blocks : mem'[c] = mem[c] /\ mem'[c + mem[c].val - 1] = mem[c + mem[c].val - 1]
  BY <1>4, <1>5
<1>7. mem' \in [Arena -> Word]
  BY DEF PayloadWrite
<1>8. Heap(mem', blocks, epilogue, brk)
  BY <1>1, <1>6, <1>7, HeapFrame
<1>9. SameTags
  BY <1>6, <1>8 DEF SameTags, HeapOK
<1>10. \A c \in Listed : mem'[c + 1] = mem[c + 1] /\ mem'[c + 2] = mem[c + 2]
  BY <1>5 DEF Listed, FreeBlocks
<1>11. Ring(mem', Listed, flist_first)
  BY <1>10, RingFrame DEF ListOK
<1> QED
  BY <1>9, <1>11

LEMMA CopyStep == ASSUME MallocInv, mm_realloc_copy, ~Overruns PROVE MallocInv' /\ ok'
<1> USE DEF MallocInv
<1> DEFINE q == call.ptr
           x == ret - 1
<1>1. /\ ok /\ pc = "copy" /\ UNCHANGED <<brk, epilogue, blocks>> /\ flist_first' = flist_first
      /\ UNCHANGED <<live, call, blk, ret, ok>>
  BY DEF mm_realloc_copy, At, callvars
<1>2. Growing /\ call.size # 0 /\ q # NULL /\ q \in DOMAIN live
  BY <1>1 DEF CallOK, Growing
<1>3. InTransit = {} /\ ~Freeing /\ Released = {} /\ Owned = DOMAIN live \cup gained
  BY <1>1, PcTableHolds DEF PcTable, PcIs
<1>4. nsize' = nsize
  BY <1>1 DEF nsize
<1>5. blk' \in Nat /\ ret' \in Nat /\ ok' \in BOOLEAN
  BY <1>1 DEF MallocTypeOK
<1>6. CASE ret = NULL
  <2>1. pc' = "return" /\ mem' = mem
    BY <1>6 DEF mm_realloc_copy
  <2>2. Released' = {} /\ InTransit' = {} /\ Owned' = DOMAIN live'
    BY <1>1, <1>2, <1>6, <2>1, ReturnsNull
  <2>3. Owned' = Owned
    BY <1>1, <1>3, <1>6, <2>2 DEF gained
  <2>4. UNCHANGED heapvars
    BY <1>1, <2>1 DEF heapvars
  <2>5. HeapOK'
    BY <2>4 DEF HeapOK, heapvars
  <2>6. MallocTypeOK'
    BY <1>1, <1>5, <2>1, <2>5, TypeKept
  <2>7. RetOK' /\ CallOK' /\ WorkOK'
    BY <1>1, <1>6, <2>1 DEF RetOK, CallOK, WorkOK, Taking, Freeing
  <2> QED
    BY <1>1, <1>3, <2>2, <2>3, <2>4, <2>6, <2>7, QuietStep
<1>7. CASE ret # NULL
  <2>1. ret \in Owned /\ q \in Owned
    BY <1>2, <1>3, <1>7 DEF gained
  <2>2. x \in blocks /\ x \notin FreeBlocks /\ q - 1 \in blocks
    BY <2>1, OwnedFacts
  <2>3. csize = mem[q - 1].val /\ block_size(payload_to_block(ret)) = mem[x].val
    BY <2>2, NextIs DEF NextView, csize, payload_to_block
  <2> DEFINE n == csize
  <2>4. n \in Nat /\ x \in Nat /\ mem[x].val \in Nat /\ ret = x + 1
    <3>1. n \in Nat
      BY <2>2, <2>3, BlockWords DEF HeapOK
    <3>2. x \in Nat /\ mem[x].val \in Nat
      BY <2>2, BlockWords DEF HeapOK
    <3>3. ret \in Nat
      BY DEF MallocTypeOK
    <3> QED
      BY <3>1, <3>2, <3>3
  <2>5. n + 2 <= mem[x].val
    <3>1. nsize > n /\ nsize <= mem[x].val /\ nsize \in Nat
      BY <1>1, <1>2, <1>7, <2>3, CallFacts DEF WorkOK, RetOK
    <3>2. mem[x].val # n + 1
      BY <1>1, <1>7, <2>3 DEF Overruns
    <3> QED
      BY <2>4, <3>1, <3>2
  <2>6. /\ pc' = "mm_free"
        /\ mem' = [a \in Arena |-> IF a \in ret .. (ret + n - 1)
                                     THEN word(q + (a - ret)) ELSE mem[a]]
    BY <1>7 DEF mm_realloc_copy, memmove
  <2> HIDE DEF n, x
  <2>7. PayloadWrite(x)
    <3>1. ASSUME NEW v PROVE word(v) \in Word
      BY DEF word, Tag, Word, HeapOK, Heap
    <3>2. mem' \in [Arena -> Word]
      BY <2>6, <3>1 DEF HeapOK, Heap
    <3>3. ASSUME NEW a \in Arena PROVE mem'[a] = mem[a] \/ (x < a /\ a + 2 <= x + mem[x].val)
      <4>1. CASE a \in ret .. (ret + n - 1)
        BY <2>4, <2>5, <4>1
      <4>2. CASE a \notin ret .. (ret + n - 1)
        BY <2>6, <4>2
      <4> QED
        BY <4>1, <4>2
    <3> QED
      BY <3>2, <3>3 DEF PayloadWrite
  <2>8. SameTags /\ Ring(mem', Listed, flist_first')
    BY <1>1, <2>2, <2>7, PayloadWritten
  <2>9. InTransit' = {} /\ Released' = Released /\ Owned' = Owned
    BY <1>1, <1>3, <2>6, PcTableAfter DEF PcTable, PcIs, gained
  <2>10. HeapOK' /\ BitsOK' /\ RoomOK' /\ MergeOK' /\ RetOK'
    BY <1>1, <1>3, <2>8, <2>9, SameTagsBits, SameTagsRoom, SameTagsMerge, SameTagsRet DEF SameTags
  <2>11. ListOK'
    BY <1>3, <2>8, <2>9, SameTagsFree DEF ListOK, Listed
  <2>12. MallocTypeOK'
    BY <1>1, <1>5, <2>6, <2>10, TypeKept
  <2>13. CallOK' /\ WorkOK'
    BY <1>1, <1>2, <1>7, <2>6 DEF CallOK, WorkOK, Taking, Freeing
  <2> QED
    BY <1>1, <2>10, <2>11, <2>12, <2>13
<1> QED
  BY <1>6, <1>7

\* The client writes into the payload that it got.
LEMMA ReturnWrites ==
    ASSUME MallocInv, return
    PROVE  /\ ret = NULL => mem' = mem
           /\ ret # NULL => ret - 1 \in blocks \ FreeBlocks /\ PayloadWrite(ret - 1)
<1> USE DEF MallocInv
<1>1. ASSUME ret = NULL PROVE mem' = mem
  BY <1>1 DEF return, HeapOK, Heap
<1>2. ASSUME ret # NULL PROVE ret - 1 \in blocks \ FreeBlocks /\ PayloadWrite(ret - 1)
  <2> DEFINE x == ret - 1
             lo == ret + align(old_size)
             hi == ret + align(call.size) - 1
  <2>1. ret \in Owned
    BY <1>2 DEF Owned, gained
  <2>2. x \in blocks /\ x \notin FreeBlocks
    BY <2>1, OwnedFacts
  <2>3. x \in Nat /\ mem[x].val \in Nat
    BY <2>2, BlockWords DEF HeapOK
  <2>4. align(call.size) \in Nat /\ align(call.size) + 2 <= nsize /\ nsize \in Nat
    BY CallFacts
  <2>5. nsize <= mem[x].val
    BY <1>2 DEF RetOK
  <2>6. align(old_size) \in Nat
    <3>1. old_size \in Nat
      BY ClientAssumption DEF old_size, MallocTypeOK
    <3> QED
      BY <3>1, SizeFacts
  <2>7. ret = x + 1 /\ ret \in Nat
    BY DEF MallocTypeOK
  <2>8. mem' = [a \in Arena |-> IF a \in lo .. hi THEN call.fill ELSE mem[a]]
    BY <1>2 DEF return
  <2> HIDE DEF x
  <2>9. \A a \in lo .. hi : x < a /\ a + 2 <= x + mem[x].val
    BY <2>3, <2>4, <2>5, <2>6, <2>7
  <2> HIDE DEF lo, hi
  <2>10. PayloadWrite(x)
    BY <2>8, <2>9 DEF PayloadWrite, HeapOK, Heap, MallocTypeOK
  <2> QED
    BY <2>2, <2>10 DEF x
<1> QED
  BY <1>1, <1>2

LEMMA ReturnStep == ASSUME MallocInv, return PROVE MallocInv' /\ ok'
<1> USE DEF MallocInv
<1> DEFINE D == (DOMAIN live \ dropped) \cup gained
<1>1. /\ ok /\ pc = "return" /\ pc' = "idle" /\ call' = NoCall /\ blk' = NULL /\ ret' = NULL
      /\ live' = [p \in D |-> IF p \in gained THEN call.size ELSE live[p]]
      /\ UNCHANGED <<brk, epilogue, blocks>> /\ flist_first' = flist_first /\ ok' = ok
  BY DEF return, At
<1>2. /\ InTransit = {} /\ ~Freeing /\ Released = dropped \ (gained \cup {NULL})
      /\ Owned = (DOMAIN live \ Released) \cup gained
  BY <1>1, PcTableHolds DEF PcTable
<1>3. NULL \notin DOMAIN live
  <2>1. NULL \in DOMAIN live => NULL \in Owned
    BY <1>2
  <2> QED
    BY <2>1, OwnedFacts
<1>4. D = Owned
  BY <1>2, <1>3
<1>5. /\ InTransit' = {} /\ ~Freeing' /\ Released' = {} /\ Owned' = DOMAIN live'
  BY <1>1, PcTableAfter DEF PcTable, PcIs, gained
<1>6. DOMAIN live' = Owned /\ Owned' = Owned
  BY <1>1, <1>4, <1>5
<1>7. SameTags /\ Ring(mem', Listed, flist_first')
  <2>1. CASE ret = NULL
    <3>1. mem' = mem
      BY <2>1, ReturnWrites
    <3> QED
      BY <1>1, <3>1 DEF SameTags, HeapOK, ListOK
  <2>2. CASE ret # NULL
    <3>1. ret - 1 \in blocks \ FreeBlocks /\ PayloadWrite(ret - 1)
      BY <2>2, ReturnWrites
    <3> QED
      BY <1>1, <3>1, PayloadWritten
  <2> QED
    BY <2>1, <2>2
<1>8. HeapOK' /\ BitsOK' /\ MergeOK'
  BY <1>2, <1>6, <1>7, SameTagsBits, SameTagsMerge DEF SameTags
<1>9. ListOK'
  BY <1>2, <1>5, <1>7, SameTagsFree DEF ListOK, Listed
<1>10. ASSUME NEW p \in Owned
       PROVE  /\ p \in Nat /\ live'[p] \in Sizes
              /\ align(live'[p]) + TAGS_SIZE <= mem'[p - 1].val
  <2>1. mem'[p - 1] = mem[p - 1]
    BY <1>7 DEF BitsOK, SameTags
  <2>2. CASE p \in gained
    <3>1. ret # NULL /\ p = ret /\ call.size # 0
      BY <2>2 DEF gained, CallOK
    <3>2. live'[p] = call.size
      BY <1>1, <1>4, <2>2
    <3>3. nsize <= mem[p - 1].val
      BY <3>1 DEF RetOK
    <3>4. align(call.size) \in Nat /\ align(call.size) + 2 <= nsize /\ nsize \in Nat
      BY CallFacts
    <3>5. mem[p - 1].val \in Nat
      BY BlockWords DEF HeapOK, BitsOK
    <3>6. p \in Nat /\ call.size \in Sizes
      BY <3>1 DEF MallocTypeOK
    <3> HIDE DEF D
    <3> QED
      BY <2>1, <3>2, <3>3, <3>4, <3>5, <3>6 DEF TAGS_SIZE
  <2>3. CASE p \notin gained
    <3>1. p \in DOMAIN live \ Released
      BY <1>2, <2>3
    <3>2. live'[p] = live[p]
      BY <1>1, <1>4, <2>3
    <3> QED
      BY <2>1, <3>1, <3>2 DEF RoomOK, MallocTypeOK
  <2> QED
    BY <2>2, <2>3
<1>11. RoomOK'
  BY <1>5, <1>6, <1>10 DEF RoomOK, align, TAGS_SIZE
<1>12. MallocTypeOK'
  <2>1. NoCall \in [fn : {"none", "malloc", "free", "realloc"}, ptr : Nat, size : Sizes \cup {0},
                    fill : Word]
    BY DEF NoCall, Call, NULL, Pointer, Word
  <2>2. mem' \in [Arena -> Word] /\ brk' \in Nat
    BY <1>8 DEF HeapOK, Heap
  <2>3. \A p \in DOMAIN live' : p \in Nat /\ live'[p] \in Sizes
    BY <1>6, <1>10
  <2> QED
    BY <1>1, <2>1, <2>2, <2>3 DEF MallocTypeOK, NULL
<1>13. RetOK' /\ WorkOK'
  BY <1>1 DEF RetOK, WorkOK, Taking, Freeing
<1>14. CallOK'
  BY <1>1 DEF CallOK, Taking, Freeing, NoCall, Call, Growing
<1> QED
  BY <1>1, <1>8, <1>9, <1>11, <1>12, <1>13, <1>14

------------------------------------------------------------------------------
(* Every step *)

\* Every step but a copy into an end tag preserves the invariant.
LEMMA InvStep == ASSUME MallocInv, ~Overruns, [Next]_vars PROVE MallocInv'
<1>1. ASSUME UNCHANGED vars PROVE MallocInv'
  <2>1. UNCHANGED <<heapvars, live, pc, callvars>> /\ ok' \in BOOLEAN
    BY <1>1 DEF vars, MallocInv, MallocTypeOK
  <2> QED
    BY <2>1, DeadStep
<1>2. ASSUME Step PROVE MallocInv'
  <2>1. ASSUME mm_realloc_astray PROVE MallocInv'
    <3>1. UNCHANGED <<heapvars, live, pc, callvars>> /\ ok' \in BOOLEAN
      BY <2>1 DEF mm_realloc_astray
    <3> QED
      BY <3>1, DeadStep
  <2> QED
    BY <1>2, <2>1, ZeroStep, FailsStep, ExtendStep, PullStep, SplitStep, NoSplitStep,
       SplitInsertStep, FreeStep, FreeInsertStep, CoalesceNoneStep, CoalescePullStep,
       PullNextStep, MergeStep, ReallocFreeStep, ReallocMallocStep, ReallocKeepStep,
       CopyStep, ReturnStep DEF Step
<1>3. ASSUME Client PROVE MallocInv'
  <2>1. ASSUME mm_check_heap PROVE MallocInv'
    <3>1. UNCHANGED <<heapvars, live, pc, callvars>> /\ ok' \in BOOLEAN
      BY <2>1 DEF mm_check_heap, assert
    <3> QED
      BY <3>1, DeadStep
  <2> QED
    BY <1>3, <2>1, CallMallocStep, CallFreeStep, CallReallocStep, RestartStep DEF Client
<1> QED
  BY <1>1, <1>2, <1>3 DEF Next

\* The other steps leave the blocks and the break alone.
LEMMA BlocksKept ==
    ASSUME [Next]_vars, ~extend_heap, ~split, ~coalesce_merge, ~restart
    PROVE  blocks' = blocks /\ brk' = brk
<1>1. ASSUME Step PROVE blocks' = blocks /\ brk' = brk
  BY <1>1 DEF Step, mm_malloc_zero, mm_malloc_fails, mm_malloc_pull, no_split, split_insert,
     mm_free, mm_free_insert, coalesce_none, coalesce_pull, coalesce_pull_next,
     mm_realloc_free, mm_realloc_malloc, mm_realloc_keep, mm_realloc_astray,
     mm_realloc_copy, return, heapvars
<1>2. ASSUME Client PROVE blocks' = blocks /\ brk' = brk
  BY <1>2 DEF Client, call_malloc, call_free, call_realloc, mm_check_heap, heapvars
<1> QED
  BY <1>1, <1>2 DEF Next, vars, heapvars

\* No assert fails, but in the two places that read what they should not.
LEMMA OkKept ==
    ASSUME MallocInv, ~Overruns, [Next]_vars, ok, ~mm_realloc_astray, ~mm_check_heap
    PROVE  ok'
<1>1. ASSUME Step PROVE ok'
  <2>1. ASSUME \/ mm_malloc_zero \/ mm_malloc_fails \/ coalesce_none \/ mm_realloc_free
               \/ mm_realloc_malloc \/ mm_realloc_keep
        PROVE  ok'
    BY <2>1 DEF mm_malloc_zero, mm_malloc_fails, coalesce_none, mm_realloc_free,
       mm_realloc_malloc, mm_realloc_keep
  <2> QED
    BY <1>1, <2>1, ExtendStep, PullStep, SplitStep, NoSplitStep, SplitInsertStep, FreeStep,
       FreeInsertStep, CoalescePullStep, PullNextStep, MergeStep, CopyStep, ReturnStep DEF Step
<1>2. ASSUME Client PROVE ok'
  BY <1>2 DEF Client, call_malloc, call_free, call_realloc, restart
<1> QED
  BY <1>1, <1>2 DEF Next, vars

\* The heap never shrinks below what mm_init made of it.
Tall == brk >= Base + 12

LEMMA TallStep == ASSUME MallocInv, Tall, [Next]_vars PROVE Tall'
<1>1. Base \in Nat /\ brk \in Nat /\ nsize \in Nat
  BY ArenaAssumption, CallFacts DEF MallocInv, MallocTypeOK
<1>2. ASSUME extend_heap PROVE Tall'
  BY <1>1, <1>2 DEF extend_heap, mem_sbrk, Tall
<1>3. ASSUME split \/ coalesce_merge PROVE Tall'
  BY <1>3 DEF split, coalesce_merge, Tall
<1>4. ASSUME restart PROVE Tall'
  BY <1>1, <1>4 DEF restart, Tall, MINBLOCKSIZE
<1> QED
  BY <1>2, <1>3, <1>4, BlocksKept DEF Tall

\* With even requests every new block starts at an even distance from the first.
LEMMA EvenStep ==
    ASSUME EvenRequests, MallocInv, Evenly, [Next]_vars PROVE Evenly'
<1>1. Base \in Nat
  BY ArenaAssumption
<1>2. nsize \in Nat /\ nsize % 2 = 0
  <2>1. call.size \in Sizes \cup {0} /\ nsize \in Nat /\ nsize = block_size_for(call.size)
        /\ align(call.size) \in Nat
    BY CallFacts DEF MallocInv, MallocTypeOK
  <2>2. align(0) = 0
    BY DEF align, WORD_SIZE
  <2>3. align(call.size) % 2 = 0
    BY <2>1, <2>2 DEF EvenRequests
  <2> QED
    BY <2>1, <2>3 DEF block_size_for, TAGS_SIZE, MINBLOCKSIZE
<1>3. ASSUME NEW b \in blocks PROVE EvenPlace(b + nsize)
  <2>1. b \in Nat /\ (b - Base) % 2 = 0
    BY BlockWords DEF MallocInv, HeapOK, Evenly, EvenPlace
  <2>2. ((b + nsize) - Base) % 2 = 0
    BY <1>1, <1>2, <2>1
  <2> QED
    BY <2>2 DEF EvenPlace
<1>4. ASSUME extend_heap PROVE Evenly'
  <2>1. epilogue \in blocks /\ blocks' = blocks \cup {epilogue + nsize}
    BY <1>4 DEF extend_heap, MallocInv, HeapOK, Heap
  <2> QED
    BY <1>3, <2>1 DEF Evenly
<1>5. ASSUME split PROVE Evenly'
  <2>1. blk \in blocks /\ blocks' = blocks \cup {blk + nsize}
    BY <1>5 DEF split, At, MallocInv, WorkOK, FreeBlocks
  <2> QED
    BY <1>3, <2>1 DEF Evenly
<1>6. ASSUME coalesce_merge PROVE Evenly'
  BY <1>6 DEF coalesce_merge, Evenly
<1>7. ASSUME restart PROVE Evenly'
  <2>1. blocks' = {Base, Base + 4, Base + 8}
    BY <1>1, <1>7 DEF restart, free_spot, first_epilogue, MINBLOCKSIZE
  <2>2. (Base - Base) % 2 = 0 /\ ((Base + 4) - Base) % 2 = 0 /\ ((Base + 8) - Base) % 2 = 0
    BY <1>1
  <2>3. EvenPlace(Base) /\ EvenPlace(Base + 4) /\ EvenPlace(Base + 8)
    BY <2>2 DEF EvenPlace
  <2> QED
    BY <2>1, <2>3 DEF Evenly
<1> QED
  BY <1>4, <1>5, <1>6, <1>7, BlocksKept DEF Evenly

\* The size of a block is the distance to the next one, and so even.
LEMMA EvenSizes ==
    ASSUME MallocInv, Evenly, NEW b \in blocks PROVE mem[b].val % 2 = 0
<1>1. Base \in Nat /\ b \in Nat /\ mem[b].val \in Nat /\ (b - Base) % 2 = 0
  BY ArenaAssumption, BlockWords DEF MallocInv, HeapOK, Evenly, EvenPlace
<1>2. CASE b = epilogue
  <2>1. mem[b].val = 4
    BY <1>2 DEF MallocInv, HeapOK, Heap
  <2> QED
    BY <2>1
<1>3. CASE b # epilogue
  <2>1. EvenPlace(b + mem[b].val)
    BY <1>3 DEF MallocInv, HeapOK, Heap, Evenly
  <2>2. ((b + mem[b].val) - Base) % 2 = 0
    BY <2>1 DEF EvenPlace
  <2> QED
    BY <1>1, <2>2
<1> QED
  BY <1>2, <1>3

LEMMA EvenFits == ASSUME MallocInv, Evenly PROVE ~Overruns
<1> SUFFICES ASSUME Overruns PROVE FALSE
  OBVIOUS
<1> USE DEF MallocInv
<1>1. pc = "copy" /\ ret # NULL /\ block_size(payload_to_block(ret)) = csize + 1
  BY DEF Overruns
<1>2. Owned = DOMAIN live \cup gained
  BY <1>1, PcTableHolds DEF PcTable, PcIs
<1>3. ret \in Owned /\ call.ptr \in Owned
  BY <1>1, <1>2 DEF CallOK, Growing, gained
<1>4. ret - 1 \in blocks /\ call.ptr - 1 \in blocks
  BY <1>3, OwnedFacts
<1>5. mem[ret - 1].val = mem[call.ptr - 1].val + 1
  BY <1>1, <1>4, NextIs DEF NextView, csize, payload_to_block
<1>6. mem[ret - 1].val % 2 = 0 /\ mem[call.ptr - 1].val % 2 = 0
  BY <1>4, EvenSizes
<1>7. mem[call.ptr - 1].val \in Nat
  BY <1>4, BlockWords DEF HeapOK
<1> QED
  BY <1>5, <1>6, <1>7

LEMMA InitEven == Init => Evenly /\ Tall
<1> SUFFICES ASSUME Init PROVE Evenly /\ Tall
  OBVIOUS
<1>1. Base \in Nat
  BY ArenaAssumption
<1>2. blocks = {Base, Base + 4, Base + 8} /\ brk = Base + 12
  BY <1>1 DEF Init, free_spot, first_epilogue, MINBLOCKSIZE
<1>3. (Base - Base) % 2 = 0 /\ ((Base + 4) - Base) % 2 = 0 /\ ((Base + 8) - Base) % 2 = 0
  BY <1>1
<1> QED
  BY <1>1, <1>2, <1>3 DEF Evenly, EvenPlace, Tall

------------------------------------------------------------------------------
(* What the invariant says to a reader of mm.c *)

LEMMA InvTiled == MallocInv => Tiled
<1> SUFFICES ASSUME MallocInv PROVE Tiled
  OBVIOUS
<1>1. Heap(mem, blocks, epilogue, brk)
  BY DEF MallocInv, HeapOK
<1>2. \A b \in blocks : block_next(b) = b + mem[b].val /\ block_size(b) = mem[b].val
  BY NextIs DEF NextView, MallocInv
<1>3. TagsAgree
  BY <1>1, <1>2 DEF TagsAgree, Heap
<1>4. ASSUME NEW b \in blocks
      PROVE  /\ block_size(b) >= MINBLOCKSIZE
             /\ IF b = epilogue THEN block_next(b) = brk ELSE block_next(b) \in blocks
  BY <1>1, <1>2 DEF Heap, MINBLOCKSIZE
<1>5. \A b, c \in blocks : b < c => block_next(b) <= c
  BY <1>1, <1>2 DEF Heap
<1>6. {Base, epilogue} \subseteq blocks
  BY <1>1 DEF Heap
<1> QED
  BY <1>3, <1>4, <1>5, <1>6 DEF Tiled

LEMMA InvListExact == MallocInv => FreeListExact
<1> SUFFICES ASSUME MallocInv PROVE FreeListExact
  OBVIOUS
<1>1. Ring(mem, Listed, flist_first) /\ Listed \in SUBSET blocks /\ HeapOK
  BY DEF MallocInv, ListOK, Listed, FreeBlocks
<1>2. closes /\ on_list = Listed
  BY <1>1, OnList
<1>3. ASSUME NEW b \in Listed PROVE block_prev_free(block_next_free(b)) = b
  <2> DEFINE n == mem[b + 1].val
  <2>1. n \in Listed /\ mem[n + 2].val = b
    BY <1>1 DEF Ring
  <2>2. b + 1 \in Arena
    BY <1>1, BlockWords DEF HeapOK
  <2>3. n + 2 \in Arena
    <3>1. n \in blocks
      BY <1>1, <2>1
    <3> HIDE DEF n
    <3> QED
      BY <1>1, <3>1, BlockWords DEF HeapOK
  <2>4. block_next_free(b) = n
    BY <2>2, WordIs DEF block_next_free
  <2> QED
    BY <2>1, <2>3, <2>4, WordIs DEF block_prev_free
<1> QED
  BY <1>2, <1>3 DEF FreeListExact, Listed

LEMMA InvCoalesced == MallocInv => Coalesced
<1> SUFFICES ASSUME MallocInv, pc = "idle", NEW b \in FreeBlocks PROVE block_next(b) \notin FreeBlocks
  BY DEF Coalesced
<1>1. block_next(b) = b + mem[b].val
  BY NextIs DEF NextView, MallocInv, FreeBlocks
<1> QED
  BY <1>1 DEF MallocInv, MergeOK, Freeing

LEMMA InvNothingLeaks == MallocInv => NothingLeaks
<1> SUFFICES ASSUME MallocInv, pc = "idle"
             PROVE  /\ blocks \ FreeBlocks
                         = {Base, epilogue} \cup {payload_to_block(p) : p \in DOMAIN live}
                    /\ \A p \in DOMAIN live :
                         live[p] <= WORD_SIZE * (block_size(payload_to_block(p)) - TAGS_SIZE)
  BY DEF NothingLeaks
<1> USE DEF MallocInv
<1>1. Owned = DOMAIN live /\ Released = {}
  BY PcTableHolds DEF PcTable, PcIs, gained, CallOK
<1>2. FreeBlocks = {b \in blocks : mem[b].bit = 0}
  BY FreeIs DEF FreeView, FreeSet
<1>3. \A b \in blocks : b \in Nat /\ mem[b].bit \in {0, 1}
  BY BlockWords DEF HeapOK
<1>4. ASSUME NEW b \in blocks \ FreeBlocks
      PROVE  b \in {Base, epilogue} \cup {payload_to_block(p) : p \in DOMAIN live}
  <2>1. b \in {Base, epilogue} \/ b + 1 \in DOMAIN live
    BY <1>1, <1>2, <1>3 DEF BitsOK
  <2>2. payload_to_block(b + 1) = b
    BY <1>3 DEF payload_to_block
  <2> QED
    BY <2>1, <2>2
<1>5. ASSUME NEW p \in DOMAIN live PROVE payload_to_block(p) \in blocks \ FreeBlocks
  BY <1>1, OwnedFacts DEF payload_to_block
<1>6. {Base, epilogue} \subseteq blocks \ FreeBlocks
  <2>1. {Base, epilogue} \subseteq blocks
    BY DEF HeapOK, Heap
  <2> QED
    BY <2>1, OwnedFacts
<1>7. ASSUME NEW p \in DOMAIN live
      PROVE  live[p] <= WORD_SIZE * (block_size(payload_to_block(p)) - TAGS_SIZE)
  <2> DEFINE v == mem[p - 1].val
             s == live[p]
  <2>1. p - 1 \in blocks
    BY <1>5 DEF payload_to_block
  <2>2. block_size(payload_to_block(p)) = v /\ v \in Nat
    BY <2>1, NextIs, BlockWords DEF NextView, HeapOK, payload_to_block
  <2>3. align(s) + 2 <= v /\ s \in Nat
    BY <1>1, ClientAssumption DEF RoomOK, MallocTypeOK, TAGS_SIZE
  <2> HIDE DEF v, s
  <2>4. align(s) \in Nat /\ s <= 8 * align(s)
    BY <2>3 DEF align, WORD_SIZE
  <2>5. s <= 8 * (v - 2)
    BY <2>2, <2>3, <2>4
  <2> QED
    BY <2>2, <2>5 DEF s, WORD_SIZE, TAGS_SIZE
<1> QED
  BY <1>4, <1>5, <1>6, <1>7

LEMMA StepGrows ==
    ASSUME MallocInv, Tall, [Next]_vars, brk' > brk, NEW b \in FreeBlocks
    PROVE  block_size(b) < brk' - brk
<1> USE DEF MallocInv
<1>1. Base \in Nat /\ brk \in Nat /\ nsize \in Nat
  BY ArenaAssumption, CallFacts DEF MallocTypeOK
<1>2. ~restart /\ ~split /\ ~coalesce_merge
  BY <1>1 DEF restart, split, coalesce_merge, Tall, MINBLOCKSIZE
<1>3. extend_heap
  BY <1>1, <1>2, BlocksKept
<1>4. pc = "mm_malloc" /\ fits(nsize) = {} /\ brk' = brk + nsize
  BY <1>3 DEF extend_heap, At, mem_sbrk
<1>5. Listed = FreeBlocks
  BY <1>4, PcTableHolds DEF PcTable, PcIs, Listed
<1>6. on_list = FreeBlocks
  <2>1. Ring(mem, FreeBlocks, flist_first) /\ FreeBlocks \in SUBSET blocks
    BY <1>5 DEF ListOK, FreeBlocks
  <2> QED
    BY <2>1, OnList
<1>7. PICK k \in DOMAIN free_list : b = free_list[k]
  BY <1>6 DEF on_list
<1>8. ~(block_size(b) >= nsize)
  BY <1>4, <1>7 DEF fits
<1>9. block_size(b) \in Nat
  <2>1. b \in blocks
    BY DEF FreeBlocks
  <2> QED
    BY <2>1, NextIs, BlockWords DEF NextView, HeapOK
<1> QED
  BY <1>1, <1>4, <1>8, <1>9

LEMMA StepDies ==
    ASSUME MallocInv, ~Overruns, [Next]_vars, ok, ~ok'
    PROVE  \/ pc = "idle" /\ flist_first = NULL
           \/ pc = "mm_realloc" /\ mem[call.ptr].val # 0
<1> USE DEF MallocInv
<1>1. CASE mm_check_heap
  BY <1>1 DEF mm_check_heap, At, assert
<1>2. CASE mm_realloc_astray
  <2> SUFFICES ASSUME mem[call.ptr].val = 0 PROVE FALSE
    BY <1>2 DEF mm_realloc_astray, At
  <2>1. pc = "mm_realloc" /\ nsize > csize /\ seems_to_fit /\ call.ptr \in DOMAIN live
    BY <1>2 DEF mm_realloc_astray, At, CallOK
  <2>2. call.ptr - 1 \in blocks /\ call.ptr \in Nat
    BY <2>1, PcTableHolds DEF PcTable, PcIs, BitsOK, MallocTypeOK
  <2>3. csize \in Nat /\ call.ptr \in Arena
    <3>1. csize = mem[call.ptr - 1].val
      BY <2>2, NextIs DEF NextView, csize, payload_to_block
    <3>2. mem[call.ptr - 1].val \in Nat /\ (call.ptr - 1) + 1 \in Arena
      BY <2>2, BlockWords DEF HeapOK
    <3> QED
      BY <2>2, <3>1, <3>2
  <2>4. block_size(call.ptr) = 0
    BY <2>3, WordIs DEF block_size
  <2>5. astray = call.ptr
    BY <2>2, <2>4 DEF astray, block_next
  <2>6. csize + 0 >= nsize
    BY <2>1, <2>3, <2>4, <2>5 DEF seems_to_fit
  <2>7. nsize \in Nat
    BY CallFacts
  <2> QED
    BY <2>1, <2>3, <2>6, <2>7
<1> QED
  BY <1>1, <1>2, OkKept

------------------------------------------------------------------------------
(***************************************************************************)
(* The copy of mm_realloc is the only step that can damage the heap: as    *)
(* long as it does not reach an end tag, the blocks tile the heap, the     *)
(* free list holds the free blocks and nothing else, free neighbours are   *)
(* merged and nothing leaks, for all sizes of requests.                    *)
(***************************************************************************)
THEOREM OnlyTheCopyHarms ==
  Spec /\ []~Overruns => [](Tiled /\ FreeListExact /\ Coalesced /\ NothingLeaks)
<1>1. MallocInv /\ ~Overruns /\ [Next]_vars => MallocInv'
  BY InvStep
<1>2. MallocInv => Tiled /\ FreeListExact /\ Coalesced /\ NothingLeaks
  BY InvTiled, InvListExact, InvCoalesced, InvNothingLeaks
<1> QED
  BY <1>1, <1>2, InitInv, PTL DEF Spec

(***************************************************************************)
(* If every request is an even number of words, mm_realloc never copies    *)
(* into an end tag, and the invariant holds always.                        *)
(***************************************************************************)
THEOREM EvenIsSound ==
  ASSUME EvenRequests PROVE Spec => [](MallocInv /\ ~Overruns /\ Tall)
<1> DEFINE I == MallocInv /\ Evenly /\ Tall
<1>1. Init => I
  BY InitInv, InitEven
<1>2. I /\ [Next]_vars => I'
  BY InvStep, EvenFits, EvenStep, TallStep
<1>3. I => MallocInv /\ ~Overruns /\ Tall
  BY EvenFits
<1> QED
  BY <1>1, <1>2, <1>3, PTL DEF Spec

(***************************************************************************)
(* With such requests, the blocks tile the heap between any two steps of   *)
(* the library.                                                            *)
(***************************************************************************)
THEOREM HeapIsTiled == ASSUME EvenRequests PROVE Spec => []Tiled
  BY EvenIsSound, InvTiled, PTL

(***************************************************************************)
(* The loops over the free list end, and pass exactly the free blocks.     *)
(***************************************************************************)
THEOREM ListIsExact == ASSUME EvenRequests PROVE Spec => []FreeListExact
  BY EvenIsSound, InvListExact, PTL

(***************************************************************************)
(* No two free blocks are neighbours between calls, although split does    *)
(* not coalesce.                                                           *)
(***************************************************************************)
THEOREM FreeIsMerged == ASSUME EvenRequests PROVE Spec => []Coalesced
  BY EvenIsSound, InvCoalesced, PTL

(***************************************************************************)
(* Between calls every allocated block belongs to a pointer of the client  *)
(* and has room for what it asked for.                                     *)
(***************************************************************************)
THEOREM NoLeaks == ASSUME EvenRequests PROVE Spec => []NothingLeaks
  BY EvenIsSound, InvNothingLeaks, PTL

(***************************************************************************)
(* mm_malloc extends the heap only if no free block is large enough.       *)
(***************************************************************************)
THEOREM GrowsLate == ASSUME EvenRequests PROVE Spec => GrowsOnlyWhenFull
<1>1. (MallocInv /\ ~Overruns /\ Tall) /\ [Next]_vars
        => [brk' > brk => \A b \in FreeBlocks : block_size(b) < brk' - brk]_vars
  BY StepGrows
<1> QED
  BY <1>1, EvenIsSound, PTL DEF Spec, GrowsOnlyWhenFull

(***************************************************************************)
(* No assert of mminline.h fails and no wild address is followed, but by   *)
(* mm_realloc of a block that must grow and by mm_check_heap.              *)
(***************************************************************************)
THEOREM DiesInTwoPlaces == ASSUME EvenRequests PROVE Spec => DiesOnlyWhereKnown
<1>1. (MallocInv /\ ~Overruns /\ Tall) /\ [Next]_vars
        => [ok /\ ~ok' => \/ pc = "idle" /\ flist_first = NULL
                          \/ pc = "mm_realloc" /\ mem[call.ptr].val # 0]_vars
  BY StepDies
<1> QED
  BY <1>1, EvenIsSound, PTL DEF Spec, DiesOnlyWhereKnown

------------------------------------------------------------------------------
(* The library implements the abstract allocator *)

\* Who may hold what during a call: a pointer is passed to mm_free or to mm_realloc,
\* and a block on its way out of mm_realloc has room for the old contents.
FnOK ==
  call.ptr # NULL => /\ call.fn \in {"free", "realloc"}
                     /\ call.size # 0 => call.fn = "realloc"
MoveOK ==
  Growing /\ ret # NULL /\ ret # call.ptr => align(live[call.ptr]) + TAGS_SIZE <= nsize

LEMMA MovesInto ==
    ASSUME MallocInv, Taking, UNCHANGED <<live, call>> PROVE MoveOK'
<1> USE DEF MallocInv
<1> SUFFICES ASSUME Growing PROVE align(live[call.ptr]) + TAGS_SIZE <= nsize
  BY DEF MoveOK, Growing, nsize
<1>1. Released = {}
  BY PcTableHolds DEF PcTable, PcIs, Taking
<1>2. call.ptr \in DOMAIN live /\ nsize > mem[call.ptr - 1].val
  BY DEF CallOK, WorkOK, Growing
<1>3. align(live[call.ptr]) + TAGS_SIZE <= mem[call.ptr - 1].val
  BY <1>1, <1>2 DEF RoomOK
<1>4. nsize \in Nat /\ align(live[call.ptr]) \in Nat
  <2>1. live[call.ptr] \in Nat
    BY <1>2, ClientAssumption DEF MallocTypeOK
  <2> QED
    BY <2>1, CallFacts, SizeFacts
<1>5. mem[call.ptr - 1].val \in Nat
  <2>1. call.ptr \in Owned
    BY <1>1, <1>2 DEF Owned
  <2> QED
    BY <2>1, BlockWords DEF BitsOK, HeapOK
<1> QED
  BY <1>2, <1>3, <1>4, <1>5 DEF TAGS_SIZE

LEMMA MoveStep ==
    ASSUME MallocInv, FnOK, MoveOK, [Next]_vars PROVE FnOK' /\ MoveOK'
<1> USE DEF MallocInv
<1>1. ASSUME UNCHANGED <<live, call, ret>> PROVE FnOK' /\ MoveOK'
  BY <1>1 DEF FnOK, MoveOK, Growing, nsize
<1>2. ASSUME UNCHANGED <<live, call>> PROVE FnOK'
  BY <1>2 DEF FnOK
<1>3. ASSUME ret' = NULL PROVE MoveOK'
  BY <1>3 DEF MoveOK
<1>4. pc = "idle" => ret = NULL
  BY DEF CallOK
<1>5. ASSUME Step PROVE FnOK' /\ MoveOK'
  <2>1. ASSUME mm_malloc_zero \/ mm_malloc_fails \/ mm_realloc_free PROVE FnOK' /\ MoveOK'
    BY <1>2, <1>3, <2>1 DEF mm_malloc_zero, mm_malloc_fails, mm_realloc_free, malloc_returns
  <2>2. ASSUME extend_heap \/ no_split \/ split_insert PROVE FnOK' /\ MoveOK'
    <3>1. Taking /\ UNCHANGED <<live, call>>
      BY <2>2 DEF extend_heap, no_split, split_insert, Taking, At
    <3> QED
      BY <1>2, <3>1, MovesInto
  <2>3. ASSUME mm_realloc_keep PROVE FnOK' /\ MoveOK'
    <3>1. UNCHANGED <<live, call>> /\ ret' = call'.ptr
      BY <2>3 DEF mm_realloc_keep
    <3> QED
      BY <1>2, <3>1 DEF MoveOK
  <2>4. ASSUME return PROVE FnOK' /\ MoveOK'
    <3>1. ret' = NULL /\ call' = NoCall
      BY <2>4 DEF return
    <3> QED
      BY <1>3, <3>1 DEF FnOK, NoCall, Call
  <2>5. ASSUME \/ mm_malloc_pull \/ split \/ mm_free \/ mm_free_insert \/ coalesce_none
               \/ coalesce_pull \/ coalesce_pull_next \/ coalesce_merge \/ mm_realloc_malloc
               \/ mm_realloc_astray \/ mm_realloc_copy
        PROVE  FnOK' /\ MoveOK'
    BY <1>1, <2>5 DEF mm_malloc_pull, split, mm_free, mm_free_insert, coalesce_none,
       coalesce_pull, coalesce_pull_next, coalesce_merge, mm_realloc_malloc,
       mm_realloc_astray, mm_realloc_copy, callvars
  <2> QED
    BY <1>5, <2>1, <2>2, <2>3, <2>4, <2>5 DEF Step
<1>6. ASSUME Client PROVE FnOK' /\ MoveOK'
  <2>1. ASSUME NEW size, NEW w, call_malloc(size, w) PROVE FnOK' /\ MoveOK'
    BY <1>3, <1>4, <2>1 DEF call_malloc, At, FnOK, Call
  <2>2. ASSUME NEW p, call_free(p) PROVE FnOK' /\ MoveOK'
    BY <1>3, <1>4, <2>2 DEF call_free, At, FnOK, Call
  <2>3. ASSUME NEW p, NEW size, NEW w, call_realloc(p, size, w) PROVE FnOK' /\ MoveOK'
    BY <1>3, <1>4, <2>3 DEF call_realloc, At, FnOK, Call
  <2>4. ASSUME mm_check_heap PROVE FnOK' /\ MoveOK'
    BY <1>1, <2>4 DEF mm_check_heap, callvars
  <2>5. ASSUME restart PROVE FnOK' /\ MoveOK'
    BY <1>3, <1>4, <2>5 DEF restart, At, callvars, FnOK
  <2> QED
    BY <1>6, <2>1, <2>2, <2>3, <2>4, <2>5 DEF Client
<1> QED
  BY <1>1, <1>5, <1>6 DEF Next, vars, callvars

\* Where the data of the pointer p is at present.
Home(p) == IF Copied(p) THEN ret ELSE p
Region(p) == p .. (p + align(live[p]) - 1)
Contents(p) == [a \in Region(p) |-> mem[Home(p) + (a - p)]]
StoreView == MallocTypeOK => store = [p \in DOMAIN live \ GivenUp |-> Contents(p)]

LEMMA StoreIs == StoreView
<1> SUFFICES ASSUME MallocTypeOK, NEW p \in DOMAIN live \ GivenUp, NEW a \in Region(p)
             PROVE  (IF Copied(p) THEN mem[ret + (a - p)] ELSE mem[a]) = mem[Home(p) + (a - p)]
  BY DEF StoreView, store, Contents, Region
<1>1. p \in Nat /\ align(live[p]) \in Nat
  BY SizeFacts, ClientAssumption DEF MallocTypeOK
<1>2. a \in Int
  BY <1>1 DEF Region
<1>3. p + (a - p) = a
  BY <1>1, <1>2
<1> QED
  BY <1>3 DEF Home

LEMMA StoreAfter == StoreView'
  BY StoreIs, PTL

\* Its data is in the payload of an allocated block of its own.
LEMMA HomeFacts ==
    ASSUME MallocInv, FnOK, MoveOK, NEW p \in DOMAIN live \ GivenUp
    PROVE  /\ p \in Nat /\ align(live[p]) \in Nat /\ Home(p) \in Nat
           /\ Home(p) \in Owned /\ Home(p) - 1 \in blocks \ FreeBlocks
           /\ Home(p) - 1 # epilogue
           /\ align(live[p]) + 2 <= mem[Home(p) - 1].val
<1> USE DEF MallocInv
<1>1. p \in Nat /\ align(live[p]) \in Nat
  BY SizeFacts, ClientAssumption DEF MallocTypeOK
<1>2. Home(p) \in Owned /\ align(live[p]) + 2 <= mem[Home(p) - 1].val
  <2>1. CASE Copied(p) /\ ret # call.ptr
    <3>1. ret # NULL /\ Growing /\ p = call.ptr /\ Home(p) = ret
      BY <2>1 DEF Copied, Home
    <3>2. ret \in Owned
      BY <3>1 DEF Owned, gained
    <3>3. nsize <= mem[ret - 1].val /\ align(live[p]) + 2 <= nsize
      BY <2>1, <3>1 DEF RetOK, MoveOK, TAGS_SIZE
    <3>4. nsize \in Nat /\ mem[ret - 1].val \in Nat
      BY <3>2, CallFacts, BlockWords DEF BitsOK, HeapOK
    <3> QED
      BY <1>1, <3>1, <3>2, <3>3, <3>4
  <2>2. CASE ~(Copied(p) /\ ret # call.ptr)
    <3>1. Home(p) = p
      BY <2>2 DEF Home, Copied
    <3>2. p \notin Released
      <4> SUFFICES ASSUME p \in Released PROVE FALSE
        OBVIOUS
      <4>1. p = call.ptr /\ p # NULL /\ (call.size # 0 => ret # NULL) /\ ret # p
        <5>1. CASE Freeing
          BY <5>1 DEF Released, CallOK, RetOK, Freeing
        <5>2. CASE ~Freeing
          BY <5>2 DEF Released, dropped, gained
        <5> QED
          BY <5>1, <5>2
      <4>2. call.size # 0
        BY <4>1 DEF GivenUp, FnOK
      <4>3. Growing /\ ret # NULL
        BY <4>1, <4>2 DEF Growing, FnOK
      <4>4. pc \notin {"split_insert", "copy"}
        BY DEF Released, Freeing
      <4> QED
        BY <2>2, <4>1, <4>3, <4>4 DEF Copied
    <3> QED
      BY <3>1, <3>2 DEF RoomOK, Owned, TAGS_SIZE
  <2> QED
    BY <2>1, <2>2
<1>3. Home(p) \in Nat
  BY <1>1 DEF Home, MallocTypeOK
<1>4. Home(p) - 1 \in blocks \ FreeBlocks /\ Home(p) - 1 # epilogue
  BY <1>2, OwnedFacts
<1> QED
  BY <1>1, <1>2, <1>3, <1>4

\* A word of its data, as a word of that payload.
LEMMA HomeWord ==
    ASSUME MallocInv, FnOK, MoveOK, NEW p \in DOMAIN live \ GivenUp, NEW a \in Region(p),
           NEW x, x = Home(p) + (a - p), NEW b, b = Home(p) - 1
    PROVE  x \in Arena /\ b < x /\ x + 2 <= b + mem[b].val
<1>1. /\ p \in Nat /\ align(live[p]) \in Nat /\ Home(p) \in Nat /\ b \in blocks
      /\ align(live[p]) + 2 <= mem[b].val
  BY HomeFacts
<1>2. /\ b \in Nat /\ mem[b].val \in Nat /\ b \in Arena /\ b + mem[b].val - 1 \in Arena
  BY <1>1, BlockWords DEF MallocInv, HeapOK
<1>3. a \in Int /\ p <= a /\ a <= p + align(live[p]) - 1
  BY <1>1 DEF Region
<1>4. x \in Int /\ b < x /\ x + 2 <= b + mem[b].val
  BY <1>1, <1>2, <1>3
<1>5. Base \in Nat /\ MaxHeap \in Nat
  BY ArenaAssumption
<1> QED
  BY <1>2, <1>4, <1>5 DEF Arena

\* A step that writes into no payload and moves no data changes nothing of it.
LEMMA StoreKept ==
    ASSUME MallocInv, FnOK, MoveOK, MallocInv', UNCHANGED <<live, call>>, PayloadsKept,
           \A p \in DOMAIN live \ GivenUp : Home(p)' = Home(p)
    PROVE  store' = store
<1>1. GivenUp' = GivenUp /\ live' = live
  BY DEF GivenUp
<1>2. ASSUME NEW p \in DOMAIN live \ GivenUp PROVE Contents(p)' = Contents(p)
  <2>1. Region(p)' = Region(p)
    BY DEF Region
  <2>2. ASSUME NEW a \in Region(p) PROVE mem'[Home(p) + (a - p)] = mem[Home(p) + (a - p)]
    <3> DEFINE x == Home(p) + (a - p)
               b == Home(p) - 1
    <3>1. x \in Arena /\ b < x /\ x + 2 <= b + mem[b].val
      BY HomeWord
    <3>2. b \in blocks \ FreeBlocks /\ b # epilogue
      BY HomeFacts
    <3> HIDE DEF x, b
    <3>3. mem'[x] = mem[x]
      BY <3>1, <3>2 DEF PayloadsKept
    <3> QED
      BY <3>3 DEF x
  <2>3. Home(p)' = Home(p)
    OBVIOUS
  <2> HIDE DEF Home
  <2> QED
    BY <2>1, <2>2, <2>3 DEF Contents
<1>3. /\ store = [p \in DOMAIN live \ GivenUp |-> Contents(p)]
      /\ store' = [p \in DOMAIN live' \ GivenUp' |-> Contents(p)']
  BY StoreIs, StoreAfter DEF StoreView, MallocInv
<1> QED
  BY <1>1, <1>2, <1>3

\* The steps inside a call move no data, but for the copy of mm_realloc.
LEMMA StepStores ==
    ASSUME MallocInv, FnOK, MoveOK, MallocInv', Step, ~mm_realloc_copy, ~return
    PROVE  store' = store
<1> USE DEF MallocInv
<1>1. ASSUME UNCHANGED heapvars PROVE PayloadsKept
  BY <1>1 DEF PayloadsKept, heapvars
<1>2. ASSUME ret = NULL, ret' = NULL PROVE \A p \in DOMAIN live \ GivenUp : Home(p)' = Home(p)
  BY <1>2 DEF Home, Copied
<1>3. ASSUME ret = NULL, pc' = (IF Growing THEN "copy" ELSE "return"), UNCHANGED call
      PROVE  \A p \in DOMAIN live \ GivenUp : Home(p)' = Home(p)
  BY <1>3 DEF Home, Copied, Growing
<1>4. ASSUME UNCHANGED <<call, ret>>, pc \notin {"split_insert", "copy"},
             pc' \notin {"split_insert", "copy"}
      PROVE  \A p \in DOMAIN live \ GivenUp : Home(p)' = Home(p)
  BY <1>4 DEF Home, Copied, Growing
<1>5. Taking \/ pc = "mm_realloc" => ret = NULL
  BY DEF CallOK
<1>6. ASSUME mm_malloc_zero \/ mm_malloc_fails \/ mm_realloc_free \/ mm_realloc_malloc
      PROVE  store' = store
  <2>1. UNCHANGED heapvars /\ UNCHANGED <<live, call>> /\ ret' = NULL /\ ret = NULL
    BY <1>5, <1>6 DEF mm_malloc_zero, mm_malloc_fails, mm_realloc_free, mm_realloc_malloc,
       malloc_returns, At, Taking, callvars
  <2> QED
    BY <1>1, <1>2, <2>1, StoreKept
<1>7. ASSUME extend_heap \/ no_split \/ split_insert PROVE store' = store
  <2>1. /\ UNCHANGED <<live, call>> /\ ret = NULL
        /\ pc' = (IF Growing THEN "copy" ELSE "return")
    BY <1>5, <1>7 DEF extend_heap, no_split, split_insert, malloc_returns, At, Taking
  <2>2. PayloadsKept
    BY <1>7, ExtendStep, NoSplitStep, SplitInsertStep
  <2> QED
    BY <1>3, <2>1, <2>2, StoreKept
<1>8. ASSUME mm_malloc_pull \/ split PROVE store' = store
  <2>1. UNCHANGED <<live, call>> /\ ret = NULL /\ ret' = NULL
    BY <1>5, <1>8 DEF mm_malloc_pull, split, At, Taking, callvars
  <2>2. PayloadsKept
    BY <1>8, PullStep, SplitStep
  <2> QED
    BY <1>2, <2>1, <2>2, StoreKept
<1>9. ASSUME \/ mm_free \/ mm_free_insert \/ coalesce_none \/ coalesce_pull
             \/ coalesce_pull_next \/ coalesce_merge \/ mm_realloc_astray
      PROVE  store' = store
  <2>1. /\ UNCHANGED <<live, call>> /\ UNCHANGED <<call, ret>>
        /\ pc \notin {"split_insert", "copy"} /\ pc' \notin {"split_insert", "copy"}
    BY <1>9 DEF mm_free, mm_free_insert, coalesce_none, coalesce_pull, coalesce_pull_next,
       coalesce_merge, mm_realloc_astray, At, callvars
  <2>2. PayloadsKept
    <3>1. ASSUME coalesce_none \/ mm_realloc_astray PROVE PayloadsKept
      BY <1>1, <3>1 DEF coalesce_none, mm_realloc_astray
    <3> QED
      BY <1>9, <3>1, FreeStep, FreeInsertStep, CoalescePullStep, PullNextStep, MergeStep
  <2> QED
    BY <1>4, <2>1, <2>2, StoreKept
<1>10. ASSUME mm_realloc_keep PROVE store' = store
  <2>1. UNCHANGED heapvars /\ UNCHANGED <<live, call>> /\ ret' = call.ptr /\ ret = NULL
    BY <1>5, <1>10 DEF mm_realloc_keep, At
  <2>2. \A p \in DOMAIN live \ GivenUp : Home(p)' = Home(p)
    BY <2>1 DEF Home, Copied
  <2> QED
    BY <1>1, <2>1, <2>2, StoreKept
<1> QED
  BY <1>6, <1>7, <1>8, <1>9, <1>10 DEF Step

\* The copy: the data is in the new block, and nowhere else anything changes.
LEMMA CopyStores ==
    ASSUME MallocInv, FnOK, MoveOK, MallocInv', mm_realloc_copy, ~Overruns
    PROVE  store' = store
<1> USE DEF MallocInv
<1> DEFINE q == call.ptr
<1>1. /\ pc = "copy" /\ UNCHANGED <<live, call>> /\ UNCHANGED <<call, ret>>
  BY DEF mm_realloc_copy, At, callvars
<1>2. Growing /\ call.size # 0 /\ q # NULL /\ q \in DOMAIN live
  BY <1>1 DEF CallOK, Growing
<1>3. Released = {} /\ Owned = DOMAIN live \cup gained
  BY <1>1, PcTableHolds DEF PcTable, PcIs
<1>4. CASE ret = NULL
  <2>1. mem' = mem
    BY <1>4 DEF mm_realloc_copy
  <2>2. PayloadsKept
    BY <2>1 DEF PayloadsKept
  <2>3. \A p \in DOMAIN live \ GivenUp : Home(p)' = Home(p)
    BY <1>1, <1>4 DEF Home, Copied
  <2> QED
    BY <1>1, <2>2, <2>3, StoreKept
<1>5. CASE ret # NULL
  <2> DEFINE n == csize
  <2>1. /\ pc' = "mm_free"
        /\ mem' = [a \in Arena |-> IF a \in ret .. (ret + n - 1)
                                     THEN word(q + (a - ret)) ELSE mem[a]]
    BY <1>5 DEF mm_realloc_copy, memmove
  <2>2. GivenUp = {} /\ GivenUp' = {}
    BY <1>1, <1>2 DEF GivenUp
  <2>3. q \in Owned /\ ret \in Owned /\ q - 1 \in blocks /\ ret - 1 \in blocks
    BY <1>2, <1>3, <1>5, OwnedFacts DEF gained
  <2>4. n = mem[q - 1].val /\ n \in Nat /\ q \in Nat /\ ret \in Nat
    <3>1. n = mem[q - 1].val
      BY <2>3, NextIs DEF NextView, csize, payload_to_block
    <3>2. mem[q - 1].val \in Nat
      BY <2>3, BlockWords DEF HeapOK
    <3> QED
      BY <3>1, <3>2 DEF MallocTypeOK
  <2>5. mem[ret - 1].val \in Nat /\ ret - 1 \in Nat /\ n + 2 <= mem[ret - 1].val
    <3>1. nsize > n /\ nsize <= mem[ret - 1].val /\ nsize \in Nat
      BY <1>1, <1>2, <1>5, <2>4, CallFacts DEF WorkOK, RetOK
    <3>2. mem[ret - 1].val # n + 1
      BY <1>1, <1>5, <2>3, NextIs DEF Overruns, NextView, payload_to_block
    <3>3. mem[ret - 1].val \in Nat /\ ret - 1 \in Nat
      BY <2>3, BlockWords DEF HeapOK
    <3> QED
      BY <2>4, <3>1, <3>2, <3>3
  <2> HIDE DEF n
  <2>6. ASSUME NEW p \in DOMAIN live PROVE Contents(p)' = Contents(p)
    <3>1. p \in DOMAIN live \ GivenUp /\ Home(p) = p /\ Region(p)' = Region(p)
      BY <1>1, <2>2 DEF Home, Copied, Region
    <3>2. /\ p \in Nat /\ align(live[p]) \in Nat /\ p - 1 \in blocks
          /\ align(live[p]) + 2 <= mem[p - 1].val
      BY <3>1, HomeFacts
    <3>3. ASSUME NEW a \in Region(p) PROVE mem'[Home(p)' + (a - p)] = mem[Home(p) + (a - p)]
      <4>1. a \in Int /\ p <= a /\ a <= p + align(live[p]) - 1
        BY <3>2 DEF Region
      <4>2. p + (a - p) = a
        BY <3>2, <4>1
      <4>3. a \in Arena /\ p - 1 < a /\ a + 2 <= (p - 1) + mem[p - 1].val
        BY <3>1, <4>2, HomeWord
      <4>4. CASE p = q
        <5>1. Home(p)' = ret
          BY <1>1, <1>2, <1>5, <2>1, <4>4 DEF Home, Copied, Growing
        <5> DEFINE x == ret + (a - p)
        <5>2. x \in Int /\ x \in ret .. (ret + n - 1) /\ q + (x - ret) = a
          BY <2>4, <3>2, <4>1, <4>4
        <5>3. x \in Arena
          <6>1. ret - 1 \in Arena /\ (ret - 1) + mem[ret - 1].val - 1 \in Arena
            BY <2>3, BlockWords DEF HeapOK
          <6>2. Base \in Nat /\ MaxHeap \in Nat
            BY ArenaAssumption
          <6> QED
            BY <2>4, <2>5, <5>2, <6>1, <6>2 DEF Arena
        <5> HIDE DEF x
        <5>4. mem'[x] = word(a)
          BY <2>1, <5>2, <5>3
        <5>5. mem'[x] = mem[a]
          BY <4>3, <5>4, WordIs
        <5> QED
          BY <3>1, <4>2, <5>1, <5>5 DEF x
      <4>5. CASE p # q
        <5>1. Home(p)' = p
          BY <1>1, <4>5 DEF Home, Copied
        <5>2. p - 1 # ret - 1
          <6>1. p # ret
            BY <1>1, <1>2, <1>5, <4>5 DEF RetOK
          <6> QED
            BY <2>4, <3>2, <6>1
        <5>3. (p - 1) + mem[p - 1].val <= ret - 1 \/ (ret - 1) + mem[ret - 1].val <= p - 1
          BY <2>3, <3>2, <5>2, Disjoint DEF HeapOK
        <5>4. mem[p - 1].val \in Nat
          BY <3>2, BlockWords DEF HeapOK
        <5>5. a \notin ret .. (ret + n - 1)
          BY <2>4, <2>5, <3>2, <4>1, <4>3, <5>3, <5>4
        <5>6. mem'[a] = mem[a]
          BY <2>1, <4>3, <5>5
        <5> QED
          BY <3>1, <4>2, <5>1, <5>6
      <4> QED
        BY <4>4, <4>5
    <3> HIDE DEF Home
    <3> QED
      BY <3>1, <3>3 DEF Contents
  <2>7. /\ store = [p \in DOMAIN live |-> Contents(p)]
        /\ store' = [p \in DOMAIN live |-> Contents(p)']
    <3>1. /\ store = [p \in DOMAIN live \ GivenUp |-> Contents(p)]
          /\ store' = [p \in DOMAIN live' \ GivenUp' |-> Contents(p)']
      BY StoreIs, StoreAfter DEF StoreView
    <3> QED
      BY <1>1, <2>2, <3>1
  <2> QED
    BY <2>6, <2>7
<1> QED
  BY <1>4, <1>5

\* Between calls the data of a pointer is where it points, and the regions are apart.
IdleView ==
  MallocInv /\ pc = "idle" =>
    /\ store = [p \in DOMAIN live |-> [a \in Region(p) |-> mem[a]]]
    /\ NULL \notin DOMAIN live
    /\ \A p \in DOMAIN live :
         /\ p \in Arena /\ Region(p) \subseteq Arena
         /\ \A q \in DOMAIN live \ {p} : Region(p) \cap Region(q) = {}

LEMMA IdleIs == IdleView
<1> SUFFICES ASSUME MallocInv, pc = "idle"
             PROVE  /\ store = [p \in DOMAIN live |-> [a \in Region(p) |-> mem[a]]]
                    /\ NULL \notin DOMAIN live
                    /\ \A p \in DOMAIN live :
                         /\ p \in Arena /\ Region(p) \subseteq Arena
                         /\ \A q \in DOMAIN live \ {p} : Region(p) \cap Region(q) = {}
  BY DEF IdleView
<1> USE DEF MallocInv
<1>1. call = NoCall /\ ret = NULL
  BY DEF CallOK
<1>2. FnOK /\ MoveOK /\ GivenUp = {}
  BY <1>1 DEF FnOK, MoveOK, GivenUp, NoCall, Call
<1>3. \A p \in DOMAIN live : Home(p) = p /\ p \in DOMAIN live \ GivenUp
  BY <1>1, <1>2 DEF Home, Copied
<1>4. ASSUME NEW p \in DOMAIN live
      PROVE  /\ p \in Nat /\ align(live[p]) \in Nat /\ p - 1 \in blocks
             /\ p \in Owned /\ mem[p - 1].val \in Nat
  <2>1. /\ p \in Nat /\ align(live[p]) \in Nat /\ p - 1 \in blocks /\ p \in Owned
    BY <1>2, <1>3, HomeFacts
  <2> QED
    BY <2>1, BlockWords DEF HeapOK
<1>5. ASSUME NEW p \in DOMAIN live, NEW a \in Region(p)
      PROVE  a \in Int /\ p + (a - p) = a /\ a \in Arena /\ p - 1 < a /\ a + 2 <= (p - 1) + mem[p - 1].val
  <2>1. a \in Int /\ p + (a - p) = a
    BY <1>4 DEF Region
  <2>2. a \in Arena /\ p - 1 < a /\ a + 2 <= (p - 1) + mem[p - 1].val
    BY <1>2, <1>3, <2>1, HomeWord
  <2> QED
    BY <2>1, <2>2
<1>6. store = [p \in DOMAIN live |-> [a \in Region(p) |-> mem[a]]]
  <2>1. store = [p \in DOMAIN live |-> Contents(p)]
    BY <1>2, StoreIs DEF StoreView
  <2>2. ASSUME NEW p \in DOMAIN live PROVE Contents(p) = [a \in Region(p) |-> mem[a]]
    BY <1>3, <1>5 DEF Contents
  <2> QED
    BY <2>1, <2>2
<1>7. NULL \notin DOMAIN live
  BY <1>4, OwnedFacts
<1>8. ASSUME NEW p \in DOMAIN live PROVE p \in Arena
  <2>1. (p - 1) + 1 \in Arena
    BY <1>4, BlockWords DEF HeapOK
  <2> QED
    BY <1>4, <2>1
<1>9. ASSUME NEW p \in DOMAIN live, NEW q \in DOMAIN live \ {p},
             NEW a \in Region(p), a \in Region(q)
      PROVE  FALSE
  <2>1. p - 1 # q - 1
    BY <1>4
  <2>2. (p - 1) + mem[p - 1].val <= q - 1 \/ (q - 1) + mem[q - 1].val <= p - 1
    BY <1>4, <2>1, Disjoint DEF HeapOK
  <2>3. /\ p \in Nat /\ mem[p - 1].val \in Nat /\ q \in Nat /\ mem[q - 1].val \in Nat
    BY <1>4
  <2>4. a \in Int /\ p - 1 < a /\ a + 2 <= (p - 1) + mem[p - 1].val
    BY <1>5
  <2>5. q - 1 < a /\ a + 2 <= (q - 1) + mem[q - 1].val
    BY <1>5, <1>9
  <2> QED
    BY <2>2, <2>3, <2>4, <2>5
<1>10. \A p \in DOMAIN live :
         /\ p \in Arena /\ Region(p) \subseteq Arena
         /\ \A q \in DOMAIN live \ {p} : Region(p) \cap Region(q) = {}
  BY <1>5, <1>8, <1>9
<1> QED
  BY <1>6, <1>7, <1>10

LEMMA IdleAfter == IdleView'
  BY IdleIs, PTL

\* A call drops at most the pointer it is to free.
LEMMA CallStores ==
    ASSUME MallocInv, MallocInv', pc = "idle", UNCHANGED <<mem, live, ret>>,
           GivenUp' \subseteq {call'.ptr}, call'.ptr \in DOMAIN live \cup {NULL}
    PROVE  Abstract!Free \/ store' = store
<1> USE DEF MallocInv
<1>1. ret = NULL /\ ret' = NULL
  BY DEF CallOK
<1>2. NULL \notin DOMAIN live /\ store = [p \in DOMAIN live |-> [a \in Region(p) |-> mem[a]]]
  BY IdleIs DEF IdleView
<1>3. store' = [p \in DOMAIN live \ GivenUp' |-> [a \in Region(p) |-> mem[a]]]
  <2>1. store' = [p \in DOMAIN live \ GivenUp' |-> Contents(p)']
    BY StoreAfter DEF StoreView
  <2>2. ASSUME NEW p \in DOMAIN live PROVE Contents(p)' = [a \in Region(p) |-> mem[a]]
    <3>1. Home(p)' = p /\ Region(p)' = Region(p)
      BY <1>1 DEF Home, Copied, Region
    <3>2. p \in Nat /\ align(live[p]) \in Nat
      BY SizeFacts, ClientAssumption DEF MallocTypeOK
    <3>3. \A a \in Region(p) : p + (a - p) = a
      BY <3>2 DEF Region
    <3> HIDE DEF Home
    <3>4. Contents(p)' = [a \in Region(p) |-> mem[p + (a - p)]]
      BY <3>1 DEF Contents
    <3> QED
      BY <3>3, <3>4
  <2> QED
    BY <2>1, <2>2
<1> DEFINE v(p) == [a \in Region(p) |-> mem[a]]
<1> HIDE DEF v
<1>4. store = [p \in DOMAIN live |-> v(p)] /\ store' = [p \in DOMAIN live \ GivenUp' |-> v(p)]
  BY <1>2, <1>3 DEF v
<1>5. CASE GivenUp' \cap DOMAIN live = {}
  <2>1. DOMAIN live \ GivenUp' = DOMAIN live
    BY <1>5
  <2> QED
    BY <1>4, <2>1
<1>6. CASE GivenUp' \cap DOMAIN live # {}
  <2>1. GivenUp' = {call'.ptr} /\ call'.ptr \in DOMAIN store
    BY <1>2, <1>4, <1>6
  <2>2. Abstract!Free
    BY <1>4, <2>1 DEF Abstract!Free, Abstract!Keeps
  <2> QED
    BY <2>2
<1> QED
  BY <1>5, <1>6

LEMMA ClientStores ==
    ASSUME MallocInv, MallocInv', Client PROVE Abstract!Next \/ store' = store
<1>1. ASSUME NEW size, NEW w, call_malloc(size, w) PROVE Abstract!Free \/ store' = store
  <2>1. pc = "idle" /\ UNCHANGED <<mem, live, ret>> /\ call' = Call("malloc", NULL, size, w)
    BY <1>1 DEF call_malloc, At, heapvars
  <2>2. GivenUp' \subseteq {call'.ptr} /\ call'.ptr \in DOMAIN live \cup {NULL}
    BY <2>1 DEF GivenUp, Call
  <2> QED
    BY <2>1, <2>2, CallStores
<1>2. ASSUME NEW p \in DOMAIN live \cup {NULL}, call_free(p) PROVE Abstract!Free \/ store' = store
  <2>1. pc = "idle" /\ UNCHANGED <<mem, live, ret>> /\ call' = Call("free", p, 0, Pointer(0))
    BY <1>2 DEF call_free, At, heapvars
  <2>2. GivenUp' \subseteq {call'.ptr} /\ call'.ptr \in DOMAIN live \cup {NULL}
    BY <2>1 DEF GivenUp, Call
  <2> QED
    BY <2>1, <2>2, CallStores
<1>3. ASSUME NEW p \in DOMAIN live \cup {NULL}, NEW size, NEW w, call_realloc(p, size, w)
      PROVE  Abstract!Free \/ store' = store
  <2>1. pc = "idle" /\ UNCHANGED <<mem, live, ret>> /\ call' = Call("realloc", p, size, w)
    BY <1>3 DEF call_realloc, At, heapvars
  <2>2. GivenUp' \subseteq {call'.ptr} /\ call'.ptr \in DOMAIN live \cup {NULL}
    BY <2>1 DEF GivenUp, Call
  <2> QED
    BY <2>1, <2>2, CallStores
<1>4. ASSUME mm_check_heap PROVE Abstract!Free \/ store' = store
  <2>1. pc = "idle" /\ UNCHANGED <<mem, live, ret, call>>
    BY <1>4 DEF mm_check_heap, At, heapvars, callvars
  <2>2. GivenUp' \subseteq {call'.ptr} /\ call'.ptr \in DOMAIN live \cup {NULL}
    BY <2>1 DEF GivenUp, MallocInv, CallOK
  <2> QED
    BY <2>1, <2>2, CallStores
<1>5. ASSUME restart PROVE Abstract!Reset
  <2>1. pc' = "idle" /\ DOMAIN live' = {}
    BY <1>5 DEF restart, At, NoPointers
  <2>2. store' = [p \in DOMAIN live' |-> [a \in Region(p)' |-> mem'[a]]]
    BY <2>1, IdleAfter DEF IdleView
  <2> QED
    BY <2>1, <2>2 DEF Abstract!Reset
<1> QED
  BY <1>1, <1>2, <1>3, <1>4, <1>5 DEF Client, Abstract!Next

\* The call returns.
LEMMA ReturnStores ==
    ASSUME MallocInv, FnOK, MoveOK, MallocInv', return PROVE Abstract!Next \/ store' = store
<1> USE DEF MallocInv
<1> DEFINE p == call.ptr
           V(q) == [a \in Region(q)' |-> mem'[a]]
<1>1. /\ pc = "return" /\ pc' = "idle"
      /\ live' = [q \in (DOMAIN live \ dropped) \cup gained |->
                    IF q \in gained THEN call.size ELSE live[q]]
  BY DEF return, At
<1>2. /\ store = [q \in DOMAIN live \ GivenUp |-> Contents(q)]
      /\ store' = [q \in DOMAIN live' |-> V(q)]
      /\ \A q \in DOMAIN live' :
           /\ q \in Arena /\ Region(q)' \subseteq Arena
           /\ \A x \in DOMAIN live' \ {q} : Region(q)' \cap Region(x)' = {}
  BY <1>1, StoreIs, IdleAfter DEF StoreView, IdleView
<1>3. /\ Released = dropped \ (gained \cup {NULL}) /\ Owned = (DOMAIN live \ Released) \cup gained
  BY <1>1, PcTableHolds DEF PcTable
<1>4. NULL \notin DOMAIN live
  <2>1. NULL \in DOMAIN live => NULL \in Owned
    BY <1>3
  <2> QED
    BY <2>1, OwnedFacts
<1>5. ASSUME NEW q \in DOMAIN live \ GivenUp, Home(q) = q, q # ret, q \in DOMAIN live'
      PROVE  V(q) = Contents(q)
  <2>1. live'[q] = live[q]
    BY <1>1, <1>5 DEF gained
  <2>2. Region(q)' = Region(q)
    BY <2>1 DEF Region, align
  <2>3. q \in Nat /\ align(live[q]) \in Nat /\ q - 1 \in blocks
    BY <1>5, HomeFacts
  <2>4. ASSUME NEW a \in Region(q) PROVE mem'[a] = mem[Home(q) + (a - q)]
    <3>1. a \in Int /\ q + (a - q) = a
      BY <2>3 DEF Region
    <3>2. a \in Arena /\ q - 1 < a /\ a + 2 <= (q - 1) + mem[q - 1].val
      BY <1>5, <3>1, HomeWord
    <3>3. mem'[a] = mem[a]
      <4>1. CASE ret = NULL
        BY <4>1, ReturnWrites
      <4>2. CASE ret # NULL
        <5>1. ret - 1 \in blocks /\ PayloadWrite(ret - 1) /\ ret \in Nat
          BY <4>2, ReturnWrites DEF MallocTypeOK
        <5>2. q - 1 # ret - 1
          BY <1>5, <2>3, <5>1
        <5>3. (q - 1) + mem[q - 1].val <= ret - 1 \/ (ret - 1) + mem[ret - 1].val <= q - 1
          BY <2>3, <5>1, <5>2, Disjoint DEF HeapOK
        <5>4. mem[q - 1].val \in Nat /\ mem[ret - 1].val \in Nat
          BY <2>3, <5>1, BlockWords DEF HeapOK
        <5>5. ~(ret - 1 < a /\ a + 2 <= (ret - 1) + mem[ret - 1].val)
          BY <2>3, <3>1, <3>2, <5>1, <5>3, <5>4
        <5> QED
          BY <3>2, <5>1, <5>5 DEF PayloadWrite
      <4> QED
        BY <4>1, <4>2
    <3> QED
      BY <1>5, <3>1, <3>3
  <2> HIDE DEF Home
  <2> QED
    BY <2>2, <2>4 DEF Contents
<1>6. CASE ret = NULL
  <2>1. DOMAIN live' = DOMAIN live \ GivenUp
    <3>1. DOMAIN live' = DOMAIN live \ dropped
      BY <1>1, <1>6 DEF gained
    <3>2. CASE call.size # 0
      BY <1>6, <3>1, <3>2 DEF dropped, GivenUp
    <3>3. CASE call.size = 0
      BY <1>4, <3>1, <3>3 DEF dropped, GivenUp, FnOK
    <3> QED
      BY <3>2, <3>3
  <2>2. ASSUME NEW q \in DOMAIN live' PROVE V(q) = Contents(q)
    BY <1>4, <1>5, <1>6, <2>1 DEF Home, Copied
  <2> HIDE DEF V
  <2> QED
    BY <1>2, <2>1, <2>2
<1>7. CASE ret # NULL
  <2>1. call.size # 0 /\ GivenUp = {} /\ dropped = {p} /\ gained = {ret}
    BY <1>7 DEF CallOK, GivenUp, dropped, gained
  <2>2. DOMAIN live' = (DOMAIN live \ {p}) \cup {ret} /\ ret \in DOMAIN live'
    BY <1>1, <2>1
  <2>3. ret \notin DOMAIN live \ {p}
    BY <1>7 DEF RetOK
  <2>4. DOMAIN store = DOMAIN live /\ DOMAIN store' = DOMAIN live'
    BY <1>2, <2>1
  <2>5. ASSUME NEW q \in DOMAIN live \ {p}
        PROVE  q \in DOMAIN store' /\ store'[q] = store[q]
    <3>1. q \in DOMAIN live' /\ q \in DOMAIN live \ GivenUp /\ q # ret /\ Home(q) = q
      BY <2>1, <2>2, <2>3 DEF Home, Copied
    <3>2. V(q) = Contents(q)
      BY <1>5, <3>1
    <3> HIDE DEF V
    <3> QED
      BY <1>2, <2>4, <3>1, <3>2
  <2>6. Abstract!Owns(ret)
    <3>1. \A q \in DOMAIN live' : DOMAIN store'[q] = Region(q)'
      BY <1>2
    <3> QED
      BY <1>2, <2>2, <2>4, <3>1 DEF Abstract!Owns
  <2>7. CASE p = NULL
    <3>1. DOMAIN live \ {p} = DOMAIN live
      BY <1>4, <2>7
    <3>2. Abstract!Keeps(DOMAIN store)
      BY <2>4, <2>5, <3>1 DEF Abstract!Keeps
    <3>3. ret \in Arena \ DOMAIN store /\ DOMAIN store' = DOMAIN store \cup {ret}
      BY <1>2, <2>2, <2>3, <2>4, <3>1
    <3> QED
      BY <2>6, <3>2, <3>3 DEF Abstract!Next, Abstract!Malloc
  <2>8. CASE p # NULL
    <3>1. p \in DOMAIN live /\ Growing /\ Home(p) = ret
      BY <1>1, <1>7, <2>1, <2>8 DEF CallOK, FnOK, Growing, Home, Copied
    <3>2. p \in DOMAIN live \ GivenUp /\ p \in DOMAIN store
      BY <2>1, <2>4, <3>1
    <3>3. Abstract!Keeps(DOMAIN store \ {p})
      BY <2>4, <2>5 DEF Abstract!Keeps
    <3>4. ASSUME NEW a \in DOMAIN store'[ret], p + (a - ret) \in DOMAIN store[p]
          PROVE  store'[ret][a] = store[p][p + (a - ret)]
      <4> DEFINE b == p + (a - ret)
      <4> PICK r \in Nat : r = ret
        BY DEF MallocTypeOK
      <4>1. a \in Region(r)' /\ store'[r][a] = mem'[a] /\ b \in Region(p) /\ store[p] = Contents(p)
        <5>1. r \in DOMAIN live' /\ a \in DOMAIN store'[r]
          BY <2>2
        <5>2. store'[r] = V(r)
          BY <1>2, <5>1
        <5>3. store[p] = Contents(p) /\ DOMAIN Contents(p) = Region(p)
          BY <1>2, <3>2 DEF Contents
        <5> QED
          BY <3>4, <5>1, <5>2, <5>3
      <4>2. live'[ret] = call.size /\ live[p] = old_size
        BY <1>1, <2>1, <2>2, <3>1 DEF old_size
      <4>3. /\ ret \in Nat /\ p \in Nat /\ align(old_size) \in Nat /\ align(call.size) \in Nat
        <5>1. p \in Nat /\ align(live[p]) \in Nat
          BY <3>2, HomeFacts
        <5> QED
          BY <4>2, <5>1, CallFacts DEF MallocTypeOK
      <4>4. a \in Int /\ a \in Arena
        <5>1. a \in Arena
          BY <1>2, <2>2, <4>1
        <5> QED
          BY <5>1, ArenaAssumption DEF Arena
      <4>5. b <= p + align(old_size) - 1
        BY <4>1, <4>2, <4>3 DEF Region
      <4>6. a \notin (ret + align(old_size)) .. (ret + align(call.size) - 1) /\ ret + (b - p) = a
        BY <4>3, <4>4, <4>5
      <4>7. mem'[a] = mem[a]
        BY <4>4, <4>6 DEF return
      <4>8. store[p][b] = mem[ret + (b - p)]
        BY <3>1, <4>1 DEF Contents
      <4> QED
        BY <4>1, <4>6, <4>7, <4>8
    <3>5. /\ ret \in Arena /\ DOMAIN store' = (DOMAIN store \ {p}) \cup {ret}
          /\ ret \notin DOMAIN store \ {p}
      BY <1>2, <2>2, <2>3, <2>4
    <3>6. Abstract!Realloc
      BY <2>6, <3>2, <3>3, <3>4, <3>5 DEF Abstract!Realloc
    <3> QED
      BY <3>6 DEF Abstract!Next
  <2> QED
    BY <2>7, <2>8
<1> QED
  BY <1>6, <1>7

LEMMA InitStores == Init => Abstract!Init /\ FnOK /\ MoveOK
<1> SUFFICES ASSUME Init PROVE Abstract!Init /\ FnOK /\ MoveOK
  OBVIOUS
<1>1. DOMAIN live = {} /\ call = NoCall /\ ret = NULL
  BY DEF Init, NoPointers
<1>2. DOMAIN store = {}
  BY <1>1 DEF store
<1> QED
  BY <1>1, <1>2 DEF Abstract!Init, FnOK, MoveOK, NoCall, Call

LEMMA NextStores ==
    ASSUME MallocInv, FnOK, MoveOK, MallocInv', ~Overruns, [Next]_vars
    PROVE  [Abstract!Next]_store
<1>1. ASSUME Step PROVE Abstract!Next \/ store' = store
  BY <1>1, StepStores, CopyStores, ReturnStores
<1>2. ASSUME Client PROVE Abstract!Next \/ store' = store
  BY <1>2, ClientStores
<1>3. ASSUME UNCHANGED vars PROVE store' = store
  BY <1>3 DEF vars, heapvars, callvars, store, GivenUp, Copied, Growing
<1> QED
  BY <1>1, <1>2, <1>3 DEF Next

(***************************************************************************)
(* The library implements the abstract allocator for every client whose    *)
(* requests are even numbers of words: regions never overlap, and what the *)
(* client wrote stays in them, also across mm_realloc.                     *)
(***************************************************************************)
THEOREM LibraryAllocates == ASSUME EvenRequests PROVE Spec => Allocates
<1> DEFINE I == MallocInv /\ ~Overruns /\ Tall
           J == FnOK /\ MoveOK
<1>1. Spec => []I
  BY EvenIsSound
<1>2. Init => Abstract!Init /\ J
  BY InitStores
<1>3. I /\ J /\ [Next]_vars => J'
  BY MoveStep
<1>4. I /\ I' /\ J /\ [Next]_vars => [Abstract!Next]_store
  BY NextStores
<1> HIDE DEF I, J
<1> QED
  BY <1>1, <1>2, <1>3, <1>4, PTL DEF Spec, Allocates, Abstract!Spec
==============================================================================
