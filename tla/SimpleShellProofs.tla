-------------------------- MODULE SimpleShellProofs --------------------------
(***************************************************************************)
(* Proofs about the parsers of the two shells and the redirections of the  *)
(* first one, for lines of any number of strings.                          *)
(***************************************************************************)
EXTENDS SimpleShell, SequenceTheorems, WellFoundedInduction, TLAPS

------------------------------------------------------------------------------
(* Lines *)

\* A set of natural numbers has a least element.
LEMMA LeastOf ==
    ASSUME NEW places \in SUBSET Nat, places # {}
    PROVE  \E i \in places : \A j \in places : i <= j
<1> DEFINE R == OpToRel(<, Nat)
<1>1. IsWellFoundedOn(R, Nat)
  BY NatLessThanWellFounded
<1>2. \A i, j \in Nat : <<j, i>> \in R <=> j < i
  BY DEF OpToRel
<1> HIDE DEF R
<1>3. PICK i \in places : \A j \in places : ~(<<j, i>> \in R)
  BY <1>1, WFMin
<1>4. ASSUME NEW j \in places
      PROVE  i <= j
  <2>1. ~(<<j, i>> \in R) /\ i \in Nat /\ j \in Nat
    BY <1>3
  <2>2. ~(j < i)
    BY <2>1, <1>2, Zenon
  <2> QED
    BY <2>1, <2>2
<1> QED
  BY <1>4

\* Of two ways to say where a row of symbols starts only one is right.
LEMMA RowStart ==
    ASSUME line \in Seq(Strings), NEW i \in 1..Len(line), NEW a \in 1..i, NEW b \in 1..i,
           Row(a, i), Row(b, i), a > 1 => line[a - 1] \notin Symbols,
           b > 1 => line[b - 1] \notin Symbols
    PROVE  a = b
<1>1. ASSUME a < b
      PROVE  FALSE
  <2>1. b - 1 \in a..i /\ b > 1
    BY <1>1
  <2> QED
    BY <2>1 DEF Row
<1>2. ASSUME b < a
      PROVE  FALSE
  <2>1. a - 1 \in b..i /\ a > 1
    BY <1>2
  <2> QED
    BY <2>1 DEF Row
<1> QED
  BY <1>1, <1>2

LEMMA RowHasStart ==
    ASSUME line \in Seq(Strings), NEW i \in 1..Len(line), line[i] \in Symbols
    PROVE  \E j \in 1..i : Row(j, i) /\ (j > 1 => line[j - 1] \notin Symbols)
<1> DEFINE starts == {j \in 1..i : Row(j, i)}
<1>1. i \in starts
  BY DEF Row
<1>2. PICK j \in starts : \A m \in starts : j <= m
  <2>1. starts \in SUBSET Nat
    OBVIOUS
  <2> QED
    BY <1>1, <2>1, LeastOf
<1>3. ASSUME j > 1, line[j - 1] \in Symbols
      PROVE  FALSE
  <2>1. j - 1 \in 1..i /\ \A k \in (j - 1)..i : k = j - 1 \/ k \in j..i
    BY <1>2, <1>3
  <2>2. Row(j - 1, i)
    BY <1>2, <1>3, <2>1 DEF Row
  <2> QED
    BY <1>2, <2>1, <2>2
<1> QED
  BY <1>2, <1>3

\* The operators of a line, one string at a time.
LEMMA OpRule ==
    ASSUME line \in Seq(Strings), NEW i \in 1..Len(line)
    PROVE  i \in Operators <=> line[i] \in Symbols /\ i - 1 \notin Operators
<1> DEFINE Starts(j, k) == /\ j \in 1..k /\ Row(j, k)
                           /\ j > 1 => line[j - 1] \notin Symbols
<1>1. DOMAIN line = 1..Len(line) /\ Len(line) \in Nat
  BY LenProperties
<1>2. \A k : k \in Operators <=>
        k \in 1..Len(line) /\ \E j \in 1..k : Starts(j, k) /\ (k - j) % 2 = 0
  BY <1>1 DEF Operators
<1>3. ASSUME i \in Operators
      PROVE  line[i] \in Symbols /\ i - 1 \notin Operators
  <2>1. PICK j \in 1..i : Starts(j, i) /\ (i - j) % 2 = 0
    BY <1>2, <1>3
  <2>2. line[i] \in Symbols
    BY <2>1 DEF Row
  <2>3. ASSUME i - 1 \in Operators
        PROVE  FALSE
    <3>1. i - 1 \in 1..Len(line)
      BY <1>2, <2>3
    <3>2. PICK m \in 1..(i - 1) : Starts(m, i - 1) /\ ((i - 1) - m) % 2 = 0
      BY <1>2, <2>3
    <3>3. Row(m, i) /\ m \in 1..i
      BY <2>2, <3>2 DEF Row
    <3>4. m = j
      BY <2>1, <3>2, <3>3, RowStart
    <3> QED
      BY <2>1, <3>1, <3>2, <3>4
  <2> QED
    BY <2>2, <2>3
<1>4. ASSUME line[i] \in Symbols, i - 1 \notin Operators
      PROVE  i \in Operators
  <2>1. CASE i = 1 \/ line[i - 1] \notin Symbols
    <3>1. Starts(i, i) /\ (i - i) % 2 = 0
      BY <1>4, <2>1 DEF Row
    <3> QED
      BY <1>2, <3>1
  <2>2. CASE i # 1 /\ line[i - 1] \in Symbols
    <3>1. i - 1 \in 1..Len(line)
      BY <2>2
    <3>2. PICK j \in 1..(i - 1) : Starts(j, i - 1)
      BY <2>2, <3>1, RowHasStart
    <3>3. ((i - 1) - j) % 2 # 0
      BY <1>2, <1>4, <3>1, <3>2
    <3>4. (i - j) % 2 = 0 /\ j \in 1..i
      BY <3>1, <3>2, <3>3
    <3>5. Starts(j, i)
      BY <1>4, <3>2, <3>4 DEF Row
    <3> QED
      BY <1>2, <3>4, <3>5
  <2> QED
    BY <2>1, <2>2
<1> QED
  BY <1>3, <1>4

LEMMA LineFacts ==
    ASSUME line \in Seq(Strings)
    PROVE  /\ Len(line) \in Nat /\ DOMAIN line = 1..Len(line)
           /\ line = <<>> <=> Len(line) = 0
           /\ Operators \subseteq 1..Len(line)
           /\ \A i \in Int : i \in FileNames <=> i - 1 \in Operators
           /\ \A i \in 1..Len(line) :
                StrAt(i) = line[i] /\ line[i] \in Strings /\ line[i] # ""
           /\ \A i \in Int : i > Len(line) => StrAt(i) = ""
<1>1. Len(line) \in Nat /\ DOMAIN line = 1..Len(line) /\ (line = <<>> <=> Len(line) = 0)
  BY EmptySeq, LenProperties
<1>2. Operators \subseteq 1..Len(line)
  BY <1>1 DEF Operators
<1>3. \A i \in Int : i \in FileNames <=> i - 1 \in Operators
  <2>1. \A i \in Operators : i \in Int
    BY <1>1, <1>2
  <2> QED
    BY <2>1 DEF FileNames
<1>4. \A i \in 1..Len(line) : line[i] \in Strings
  BY ElementOfSeq
<1>5. \A i \in 1..Len(line) : StrAt(i) = line[i] /\ line[i] # ""
  <2>1. "" \notin Strings
    BY DEF Strings, Symbols
  <2>2. \A i \in 1..Len(line) : ~(i > Len(line))
    BY <1>1
  <2> QED
    BY <1>4, <2>1, <2>2 DEF StrAt
<1>6. \A i \in Int : i > Len(line) => StrAt(i) = ""
  BY <1>1 DEF StrAt
<1> QED
  BY <1>1, <1>2, <1>3, <1>4, <1>5, <1>6

\* What the line says depends on nothing else.
LEMMA SameLine ==
    ASSUME UNCHANGED <<sh, line>>
    PROVE  UNCHANGED <<Operators, Inputs, Outputs, FileNames, Background, Arguments,
                       WellFormed>>
<1>1. Operators' = Operators
  BY DEF Operators, Row
<1>2. Inputs' = Inputs
  BY <1>1 DEF Inputs
<1>3. Outputs' = Outputs /\ FileNames' = FileNames
  BY <1>1, <1>2 DEF Outputs, FileNames
<1>4. Background' = Background
  BY <1>3 DEF Background, StrAt
<1>5. Arguments' = Arguments
  BY <1>1, <1>3, <1>4 DEF Arguments
<1>6. WellFormed' = WellFormed
  BY <1>2, <1>3 DEF WellFormed, AtMostOne
<1> QED
  BY <1>1, <1>2, <1>3, <1>4, <1>5, <1>6

\* A round of parse starts at a string that no operator takes for its file name.
LEMMA AtString ==
    ASSUME ParseInv, Parsing
    PROVE  /\ line \in Seq(Strings) /\ Len(line) \in Nat
           /\ c \in 1..Len(line) /\ StrAt(c) = line[c] /\ aflag = 0
           /\ c \notin FileNames
           /\ trailing_ampersand <=> sh = 2 /\ line[c] = "&" /\ c = Len(line)
           /\ place = IF trailing_ampersand THEN Len(line) + 1 ELSE c
           /\ StrAt(place) = IF trailing_ampersand THEN "" ELSE line[c]
           /\ c \in Operators <=> line[c] \in Symbols
           /\ c \in Operators => c + 1 \in FileNames /\ c + 1 \notin Operators
<1>1. line \in Seq(Strings) /\ c \in Nat /\ c \in Int /\ aflag \in {0, 1}
  BY DEF ParseInv, ParseTypeOK
<1>2. ppc = "parse" /\ StrAt(c) # ""
  BY DEF Parsing
<1>3. /\ c \in 1..(Len(line) + 1) /\ c - 1 \notin Operators
      /\ narg = Len(line) - Spent - aflag /\ Len(argc) = c - 1 - Spent
      /\ aflag = 1 => c = Len(line) + 1
  BY <1>2, Zenon DEF ParseInv, ArgumentsSeen
<1>4. Len(line) \in Nat
  BY <1>1, LineFacts
<1>5. c \in 1..Len(line) /\ aflag = 0
  <2>1. ~(c > Len(line))
    BY <1>1, <1>2, LineFacts, Zenon
  <2> QED
    BY <1>1, <1>3, <1>4, <2>1
<1>6. StrAt(c) = line[c]
  BY <1>1, <1>5, LineFacts, Zenon
<1>7. c \notin FileNames
  BY <1>1, <1>3, LineFacts, Zenon
<1>8. trailing_ampersand <=> sh = 2 /\ line[c] = "&" /\ c = Len(line)
  <2>1. Len(argc) + 1 = narg <=> c = Len(line)
    <3>1. Spent \in Nat
      BY DEF Spent
    <3> QED
      BY <1>1, <1>3, <1>4, <1>5, <3>1
  <2> QED
    BY <1>6, <2>1, Zenon DEF trailing_ampersand
<1>9. place = IF trailing_ampersand THEN Len(line) + 1 ELSE c
  <2>1. find_next(c) = c + 1
    BY <1>4, <1>5 DEF find_next
  <2> QED
    BY <1>8, <2>1, Zenon DEF place
<1>10. StrAt(place) = IF trailing_ampersand THEN "" ELSE line[c]
  <2>1. Len(line) + 1 \in Int /\ Len(line) + 1 > Len(line)
    BY <1>4
  <2>2. StrAt(Len(line) + 1) = ""
    BY <1>1, <2>1, LineFacts, Zenon
  <2> QED
    BY <1>6, <1>9, <2>2, Zenon
<1>11. c \in Operators <=> line[c] \in Symbols
  BY <1>1, <1>3, <1>5, OpRule, Zenon
<1>12. c \in Operators => c + 1 \in FileNames /\ c + 1 \notin Operators
  <2>1. c + 1 \in Int /\ (c + 1) - 1 = c
    BY <1>1
  <2>2. c + 1 \in FileNames <=> (c + 1) - 1 \in Operators
    BY <1>1, <2>1, LineFacts, Zenon
  <2>3. c + 1 \in Operators => c + 1 \in 1..Len(line)
    BY <1>1, LineFacts, Zenon
  <2>4. c + 1 \in 1..Len(line) /\ c + 1 \in Operators => (c + 1) - 1 \notin Operators
    BY <1>1, OpRule, Zenon
  <2> QED
    BY <2>1, <2>2, <2>3, <2>4, Zenon
<1> QED
  BY <1>1, <1>4, <1>5, <1>6, <1>7, <1>8, <1>9, <1>10, <1>11, <1>12, Zenon

\* One string further the operators passed are one more, if it is one.
LEMMA OneFurther ==
    ASSUME line \in Seq(Strings), NEW k \in 1..Len(line), NEW S
    PROVE  /\ k \in S => S \cap (1..k) = (S \cap (1..(k - 1))) \cup {k}
           /\ k \notin S => S \cap (1..k) = S \cap (1..(k - 1))
<1>1. 1..k = (1..(k - 1)) \cup {k}
  OBVIOUS
<1> QED
  BY <1>1

------------------------------------------------------------------------------
(* Parsing *)

LEMMA StartKeeps ==
    ASSUME ParseInv, parse_start
    PROVE  ParseInv'
<1>1. /\ line' \in Seq(Strings) /\ Len(line') \in Nat
  <2>1. PICK n \in 0..MaxTokens : line' \in [1..n -> Strings]
    BY DEF parse_start, Lines
  <2>2. n \in Nat
    BY TokensBound
  <2>3. line' \in Seq(Strings)
    BY <2>1, <2>2, SeqDef
  <2> QED
    BY <2>3, LenProperties
<1>2. /\ narg' = Len(line') /\ c' = 1 /\ argc' = <<>>
      /\ iflag' = 0 /\ oflag' = 0 /\ aflag' = 0 /\ iname' = 0 /\ oname' = 0
      /\ ppc' = (IF line' = <<>> THEN "rejected" ELSE "parse") /\ sh' = sh
  BY DEF parse_start
<1>3. ParseTypeOK'
  BY <1>1, <1>2, EmptySeq DEF ParseInv, ParseTypeOK
<1>4. Passed(iflag, iname)' = {} /\ Passed(oflag, oname)' = {} /\ Spent' = 0
  BY <1>2 DEF Passed, Spent
<1>5. /\ \A i \in Operators' : i \in DOMAIN line'
      /\ DOMAIN line' = 1..Len(line') /\ (line' # <<>> => Len(line') # 0)
  BY <1>1, EmptySeq, LenProperties DEF Operators
<1>6. FlagsSeen'
  BY <1>2, <1>4 DEF FlagsSeen, FlagOfOutput
<1>7. ArgumentsSeen'
  <2>1. 0 \notin Operators'
    BY <1>5
  <2>2. Len(argc') = 0
    BY <1>2
  <2>3. line' # <<>> => ~(c' = Len(line') + 1) /\ c' \in 1..(Len(line') + 1)
    BY <1>1, <1>2, <1>5
  <2>4. ppc' \in {"parse", "parsed"} => line' # <<>>
    BY <1>2
  <2>5. c' - 1 = 0 /\ 1..(c' - 1) = {} /\ 1..(Len(argc') - aflag') = {}
    BY <1>2, <2>2
  <2>6. /\ {argc'[i] : i \in 1..(Len(argc') - aflag')} = Arguments' \cap (1..(c' - 1))
        /\ \A i, j \in 1..(Len(argc') - aflag') : i < j => argc'[i] < argc'[j]
    BY <2>5
  <2>7. narg' = Len(line') - Spent' - aflag' /\ Len(argc') = c' - 1 - Spent' /\ aflag' # 1
        /\ aflag' <= Len(argc')
    BY <1>1, <1>2, <1>4, <2>2
  <2>8. c' - 1 \notin Operators'
    BY <2>1, <2>5
  <2> HIDE DEF Arguments, Operators, Background, Spent
  <2> QED
    BY <2>3, <2>4, <2>6, <2>7, <2>8 DEF ArgumentsSeen
<1>8. ppc' = "rejected" => ~WellFormed'
  BY <1>2 DEF WellFormed
<1> QED
  BY <1>2, <1>3, <1>6, <1>7, <1>8 DEF ParseInv

\* What the invariant says at the start of a round.
LEMMA RoundFacts ==
    ASSUME ParseInv, Parsing
    PROVE  /\ argc \in Seq(Nat) /\ Len(argc) \in Nat /\ Spent \in Nat
           /\ narg = Len(line) - Spent /\ Len(argc) = c - 1 - Spent
           /\ {argc[i] : i \in 1..Len(argc)} = Arguments \cap (1..(c - 1))
           /\ \A i, j \in 1..Len(argc) : i < j => argc[i] < argc[j]
           /\ Operators \cap (1..(c - 1)) = Passed(iflag, iname) \cup Passed(oflag, oname)
           /\ c = Len(line) => (Background <=> trailing_ampersand)
           /\ c \in Arguments <=> line[c] \notin Symbols /\ ~trailing_ampersand
<1>1. /\ line \in Seq(Strings) /\ Len(line) \in Nat /\ c \in 1..Len(line) /\ aflag = 0
      /\ c \notin FileNames /\ (c \in Operators <=> line[c] \in Symbols)
      /\ trailing_ampersand <=> sh = 2 /\ line[c] = "&" /\ c = Len(line)
  BY AtString, Zenon
<1>2. argc \in Seq(Nat) /\ Len(argc) \in Nat
  BY LenProperties DEF ParseInv, ParseTypeOK
<1>3. Spent \in Nat
  BY DEF Spent
<1>4. ppc \in {"parse", "parsed"}
  BY DEF Parsing
<1>5. /\ narg = Len(line) - Spent - aflag /\ Len(argc) = c - 1 - Spent
      /\ {argc[i] : i \in 1..(Len(argc) - aflag)} = Arguments \cap (1..(c - 1))
      /\ \A i, j \in 1..(Len(argc) - aflag) : i < j => argc[i] < argc[j]
  BY <1>4, Zenon DEF ParseInv, ArgumentsSeen
<1>6. Len(argc) - aflag = Len(argc) /\ Len(line) - Spent - aflag = Len(line) - Spent
  BY <1>1, <1>2, <1>3
<1>7. Operators \cap (1..(c - 1)) = Passed(iflag, iname) \cup Passed(oflag, oname)
  BY <1>4, Zenon DEF ParseInv, FlagsSeen
<1>8. c = Len(line) => (Background <=> trailing_ampersand)
  <2>1. StrAt(c) = line[c]
    BY AtString, Zenon
  <2> QED
    BY <1>1, <2>1, Zenon DEF Background
<1>9. c \in Arguments <=> line[c] \notin Symbols /\ ~trailing_ampersand
  <2>1. c \in DOMAIN line
    BY <1>1, LineFacts, Zenon
  <2>2. c \in (IF Background THEN {Len(line)} ELSE {}) <=> trailing_ampersand
    BY <1>1, <1>8, Zenon
  <2> QED
    BY <1>1, <2>1, <2>2, Zenon DEF Arguments
<1> QED
  BY <1>2, <1>3, <1>5, <1>6, <1>7, <1>8, <1>9, Zenon

\* An argument, or the & at the end.
LEMMA ArgumentKeeps ==
    ASSUME ParseInv, parse_argument
    PROVE  ParseInv'
<1>1. Parsing /\ ppc = "parse" /\ ppc' = "parse" /\ UNCHANGED <<sh, line>>
  BY DEF parse_argument, Parsing, Ampersand
<1>2. line \in Seq(Strings) /\ Len(line) \in Nat /\ c \in 1..Len(line) /\ aflag = 0
  BY <1>1, AtString, Zenon
<1>3. argc \in Seq(Nat) /\ Len(argc) \in Nat /\ Spent \in Nat
  BY <1>1, RoundFacts, Zenon
<1>4. narg = Len(line) - Spent /\ Len(argc) = c - 1 - Spent
  BY <1>1, RoundFacts, Zenon
<1>5. /\ {argc[i] : i \in 1..Len(argc)} = Arguments \cap (1..(c - 1))
      /\ \A i, j \in 1..Len(argc) : i < j => argc[i] < argc[j]
  BY <1>1, RoundFacts, Zenon
<1>6. line[c] \notin Symbols /\ c \notin Operators
  <2>1. /\ StrAt(place) = IF trailing_ampersand THEN "" ELSE line[c]
        /\ trailing_ampersand => line[c] = "&"
        /\ c \in Operators <=> line[c] \in Symbols
    BY <1>1, AtString, Zenon
  <2>2. "&" \notin Symbols
    BY DEF Symbols
  <2>3. StrAt(place) \notin Symbols
    BY DEF parse_argument
  <2> QED
    BY <2>1, <2>2, <2>3, Zenon
<1> DEFINE amp == IF trailing_ampersand THEN 1 ELSE 0
<1>7. amp \in {0, 1} /\ (amp = 1 => c = Len(line)) /\ place = c + amp
  <2>1. /\ place = IF trailing_ampersand THEN Len(line) + 1 ELSE c
        /\ trailing_ampersand => c = Len(line)
    BY <1>1, AtString, Zenon
  <2>2. CASE trailing_ampersand
    <3>1. amp = 1 /\ place = Len(line) + 1 /\ c = Len(line)
      BY <2>1, <2>2, Zenon
    <3> QED
      BY <3>1
  <2>3. CASE ~trailing_ampersand
    <3>1. amp = 0 /\ place = c
      BY <2>1, <2>3, Zenon
    <3> QED
      BY <1>2, <3>1
  <2> QED
    BY <2>2, <2>3
<1>8. /\ amp = 1 <=> Background /\ c = Len(line)
      /\ c \in Arguments <=> amp = 0
  <2>1. /\ c = Len(line) => (Background <=> trailing_ampersand)
        /\ c \in Arguments <=> line[c] \notin Symbols /\ ~trailing_ampersand
    BY <1>1, RoundFacts, Zenon
  <2>2. (amp = 1 <=> trailing_ampersand) /\ (amp = 0 <=> ~trailing_ampersand)
    BY SMT
  <2> QED
    BY <1>6, <1>7, <2>1, <2>2, Zenon
<1>9. argc' = Append(argc, place) /\ UNCHANGED <<iflag, oflag, iname, oname>>
  BY DEF parse_argument
<1>10. aflag' = amp /\ narg' = narg - amp
  <2>1. /\ aflag' = IF trailing_ampersand THEN aflag + 1 ELSE aflag
        /\ narg' = narg - 0 - amp
    BY Zenon DEF parse_argument, Ampersand, Takes
  <2>2. aflag' = amp
    <3>1. aflag + 1 = 1
      BY <1>2
    <3> QED
      BY <1>2, <2>1, <3>1, Zenon
  <2>3. narg - 0 = narg
    BY <1>2, <1>3, <1>4
  <2> QED
    BY <2>1, <2>2, <2>3, Zenon
<1>11. c' = c + 1 /\ place \in Nat
  <2>1. c' = IF place > Len(line) THEN place ELSE place + 1
    BY Zenon DEF parse_argument, find_next
  <2> HIDE DEF amp
  <2> QED
    BY <1>2, <1>7, <2>1
<1> HIDE DEF amp
<1>12. UNCHANGED <<Operators, Inputs, Outputs, FileNames, Background, Arguments>>
  BY <1>1, SameLine, Zenon
<1>13. Spent' = Spent
  BY <1>9 DEF Spent
<1>14. Operators \cap (1..c) = Operators \cap (1..(c - 1)) /\ c' - 1 = c
  <2>1. c' - 1 = c
    BY <1>2, <1>11
  <2> QED
    BY <1>2, <1>6, <2>1, OneFurther, Zenon
<1>15. ParseTypeOK'
  <2>1. argc' \in Seq(Nat)
    BY <1>3, <1>9, <1>11, AppendProperties
  <2>2. narg' \in Int /\ aflag' \in {0, 1} /\ c' \in Nat
    BY <1>2, <1>3, <1>4, <1>7, <1>10, <1>11
  <2> QED
    BY <1>1, <1>9, <2>1, <2>2, Zenon DEF ParseInv, ParseTypeOK
<1>16. FlagsSeen'
  <2>1. FlagsSeen /\ iname \in Nat /\ oname \in Nat
    BY DEF ParseInv, ParseTypeOK
  <2>2. \A n \in Nat : n < c => n < c'
    BY <1>2, <1>11
  <2>3. UNCHANGED <<Passed(iflag, iname), Passed(oflag, oname)>>
    BY <1>9 DEF Passed
  <2>4. /\ Operators \cap (1..(c - 1)) = Passed(iflag, iname) \cup Passed(oflag, oname)
    BY <1>1, RoundFacts, Zenon
  <2>5. Operators' \cap (1..(c' - 1)) = (Passed(iflag, iname) \cup Passed(oflag, oname))'
    BY <1>12, <1>14, <2>3, <2>4, Zenon
  <2>6. ppc \in {"parse", "parsed"}
    BY <1>1
  <2>7. /\ iflag # 0 => iname \in DOMAIN line /\ iname < c'
        /\ oflag # 0 => oname \in DOMAIN line /\ oname < c'
        /\ oflag # 0 /\ sh = 2 /\ line[oname - 1] = ">>" => line[oname] \notin Symbols
    BY <2>1, <2>2, <2>6, Zenon DEF FlagsSeen
  <2>8. /\ iflag # 0 => iname - 1 \in Inputs
        /\ oflag # 0 => oname - 1 \in Outputs
        /\ iflag = 0 => iname = 0
        /\ oflag = 0 => oname = 0
    BY <2>1, Zenon DEF FlagsSeen
  <2>9. FlagOfOutput'
    <3>1. FlagOfOutput
      BY <2>1 DEF FlagsSeen
    <3> QED
      BY <1>1, <1>9, <3>1 DEF FlagOfOutput
  <2> QED
    BY <1>1, <1>9, <1>12, <2>5, <2>7, <2>8, <2>9, Zenon DEF FlagsSeen
<1>17. /\ Len(argc') = Len(argc) + 1 /\ argc'[Len(argc) + 1] = place
       /\ \A i \in 1..Len(argc) : argc'[i] = argc[i]
  BY <1>3, <1>9, <1>11, AppendProperties
<1>18. ArgumentsSeen'
  <2> DEFINE n == Len(argc') - aflag'
  <2>1. /\ {argc'[i] : i \in 1..n} = Arguments \cap (1..c)
        /\ \A i, j \in 1..n : i < j => argc'[i] < argc'[j]
    <3>1. CASE amp = 1
      <4>1. n = Len(argc)
        BY <1>3, <1>10, <1>17, <3>1
      <4>2. c \notin Arguments
        BY <1>8, <3>1
      <4>3. Arguments \cap (1..c) = Arguments \cap (1..(c - 1))
        BY <1>2, <4>2, OneFurther, Zenon
      <4> HIDE DEF n
      <4> QED
        BY <1>5, <1>17, <4>1, <4>3
    <3>2. CASE amp = 0
      <4>1. n = Len(argc) + 1 /\ place = c
        BY <1>2, <1>3, <1>7, <1>10, <1>17, <3>2
      <4>2. Arguments \cap (1..c) = (Arguments \cap (1..(c - 1))) \cup {c}
        BY <1>2, <1>8, <3>2, OneFurther, Zenon
      <4>3. 1..n = (1..Len(argc)) \cup {Len(argc) + 1}
        BY <1>3, <4>1
      <4>4. \A i \in 1..Len(argc) : argc[i] \in 1..(c - 1)
        BY <1>5
      <4>5. {argc'[i] : i \in 1..n} = {argc[i] : i \in 1..Len(argc)} \cup {c}
        BY <1>17, <4>1, <4>3
      <4> HIDE DEF n
      <4>6. ASSUME NEW i \in 1..n, NEW j \in 1..n, i < j
            PROVE  argc'[i] < argc'[j]
        <5>1. i \in 1..Len(argc) /\ (j \in 1..Len(argc) \/ j = Len(argc) + 1)
          BY <1>3, <4>1, <4>6
        <5>2. argc'[i] = argc[i] /\ argc[i] \in 1..(c - 1)
          BY <1>17, <4>4, <5>1
        <5>3. CASE j \in 1..Len(argc)
          BY <1>5, <1>17, <4>6, <5>1, <5>2, <5>3
        <5>4. CASE j = Len(argc) + 1
          <6>1. argc'[j] = c
            BY <1>17, <4>1, <5>4
          <6> QED
            BY <1>2, <5>2, <6>1
        <5> QED
          BY <5>1, <5>3, <5>4
      <4> QED
        BY <1>5, <4>2, <4>5, <4>6
    <3> QED
      BY <1>7, <3>1, <3>2
  <2>2. line' # <<>> /\ c' \in 1..(Len(line') + 1) /\ c' - 1 \notin Operators'
    <3>1. line # <<>>
      BY <1>1 DEF ParseInv, ArgumentsSeen
    <3>2. c' \in 1..(Len(line) + 1)
      BY <1>2, <1>11
    <3> QED
      BY <1>1, <1>6, <1>12, <1>14, <3>1, <3>2, Zenon
  <2>3. narg' = Len(line') - Spent' - aflag' /\ Len(argc') = c' - 1 - Spent'
    <3>1. Len(line') = Len(line)
      BY <1>1
    <3> QED
      BY <1>2, <1>3, <1>4, <1>7, <1>10, <1>11, <1>13, <1>17, <3>1
  <2>4. c' = Len(line') + 1 <=> c = Len(line)
    <3>1. Len(line') = Len(line)
      BY <1>1
    <3> QED
      BY <1>2, <1>11, <3>1
  <2>5. aflag' <= Len(argc')
    BY <1>3, <1>7, <1>10, <1>17
  <2>6. aflag' = 1 <=> Background' /\ c' = Len(line') + 1
    BY <1>8, <1>10, <1>12, <2>4, Zenon
  <2>7. {argc'[i] : i \in 1..n} = Arguments' \cap (1..(c' - 1))
    BY <1>12, <1>14, <2>1, Zenon
  <2> QED
    BY <2>1, <2>2, <2>3, <2>5, <2>6, <2>7, Zenon DEF ArgumentsSeen
<1> QED
  BY <1>1, <1>15, <1>16, <1>18 DEF ParseInv

\* A symbol: the string after it is its file name, and no argument.
LEMMA AtOperator ==
    ASSUME ParseInv, Parsing, StrAt(place) \in Symbols
    PROVE  /\ c \in 1..Len(line) /\ Len(line) \in Nat /\ place = c /\ StrAt(place) = line[c]
           /\ ~trailing_ampersand /\ find_next(place) = c + 1
           /\ c \in Operators /\ c + 1 \in FileNames
           /\ c + 1 \notin Operators /\ line[c] \in Symbols
           /\ StrAt(c + 1) = "" <=> c + 1 > Len(line)
           /\ c + 1 <= Len(line) =>
                /\ StrAt(c + 1) = line[c + 1] /\ find_next(c + 1) = c + 2
                /\ c + 1 \in DOMAIN line
<1>1. line \in Seq(Strings) /\ Len(line) \in Nat /\ c \in 1..Len(line)
  BY AtString, Zenon
<1>2. ~trailing_ampersand
  <2>1. "" \notin Symbols
    BY DEF Symbols
  <2> QED
    BY AtString, <2>1, Zenon
<1>3. place = c /\ StrAt(place) = line[c]
  BY <1>2, AtString, Zenon
<1>4. c \in Operators /\ c + 1 \in FileNames /\ c + 1 \notin Operators
  BY <1>3, AtString, Zenon
<1>5. find_next(place) = c + 1
  <2>1. ~(c > Len(line))
    BY <1>1
  <2> QED
    BY <1>3, <2>1, Zenon DEF find_next
<1>6. c + 1 \in Int /\ (c + 1 \in 1..Len(line) <=> ~(c + 1 > Len(line)))
  BY <1>1
<1>7. StrAt(c + 1) = "" <=> c + 1 > Len(line)
  BY <1>1, <1>6, LineFacts, Zenon
<1>8. c + 1 <= Len(line) => StrAt(c + 1) = line[c + 1] /\ c + 1 \in DOMAIN line
  <2>1. c + 1 <= Len(line) => c + 1 \in 1..Len(line)
    BY <1>1
  <2> QED
    BY <1>1, <2>1, LineFacts, Zenon
<1>9. c + 1 <= Len(line) => find_next(c + 1) = c + 2
  <2>1. (c + 1 <= Len(line) => ~(c + 1 > Len(line))) /\ (c + 1) + 1 = c + 2
    BY <1>1
  <2> QED
    BY <2>1, Zenon DEF find_next
<1> QED
  BY <1>1, <1>2, <1>3, <1>4, <1>5, <1>7, <1>8, <1>9, Zenon

\* A redirection and its file name leave the arguments as they are.
LEMMA RedirectionKeeps ==
    ASSUME ParseInv, Parsing, StrAt(place) \in Symbols, c + 1 <= Len(line), c' = c + 2,
           UNCHANGED <<sh, line, argc>>, aflag' = aflag, narg' = narg - 2,
           Spent' = Spent + 2
    PROVE  /\ ArgumentsSeen' /\ c' \in Nat /\ narg' \in Int
           /\ Operators \cap (1..(c' - 1)) = (Operators \cap (1..(c - 1))) \cup {c}
<1>1. line \in Seq(Strings) /\ Len(line) \in Nat /\ c \in 1..Len(line) /\ aflag = 0
  BY AtString, Zenon
<1>2. argc \in Seq(Nat) /\ Len(argc) \in Nat /\ Spent \in Nat
  BY RoundFacts, Zenon
<1>3. narg = Len(line) - Spent /\ Len(argc) = c - 1 - Spent
  BY RoundFacts, Zenon
<1>4. /\ {argc[i] : i \in 1..Len(argc)} = Arguments \cap (1..(c - 1))
      /\ \A i, j \in 1..Len(argc) : i < j => argc[i] < argc[j]
  BY RoundFacts, Zenon
<1>5. c \in Operators /\ c + 1 \in FileNames /\ c + 1 \notin Operators
  BY AtOperator, Zenon
<1>6. c + 1 \in 1..Len(line) /\ (c + 1) - 1 = c /\ c' - 1 = c + 1 /\ c' \in Nat
  BY <1>1
<1>7. Operators \cap (1..(c' - 1)) = (Operators \cap (1..(c - 1))) \cup {c}
  <2>1. Operators \cap (1..c) = (Operators \cap (1..(c - 1))) \cup {c}
    BY <1>1, <1>5, OneFurther, Zenon
  <2>2. Operators \cap (1..(c + 1)) = Operators \cap (1..((c + 1) - 1))
    BY <1>1, <1>5, <1>6, OneFurther, Zenon
  <2> QED
    BY <1>6, <2>1, <2>2, Zenon
<1>8. Arguments \cap (1..(c' - 1)) = Arguments \cap (1..(c - 1))
  <2>1. c \notin Arguments /\ c + 1 \notin Arguments
    BY <1>5, Zenon DEF Arguments
  <2>2. Arguments \cap (1..c) = Arguments \cap (1..(c - 1))
    BY <1>1, <2>1, OneFurther, Zenon
  <2>3. Arguments \cap (1..(c + 1)) = Arguments \cap (1..((c + 1) - 1))
    BY <1>1, <1>6, <2>1, OneFurther, Zenon
  <2> QED
    BY <1>6, <2>2, <2>3, Zenon
<1>9. UNCHANGED <<Operators, Inputs, Outputs, FileNames, Background, Arguments>>
  BY SameLine, Zenon
<1>10. ArgumentsSeen'
  <2>1. ~(Background /\ c' = Len(line) + 1) /\ aflag' # 1
    <3>1. c' = Len(line) + 1 => Len(line) = c + 1
      BY <1>1
    <3> QED
      BY <1>1, <1>5, <3>1 DEF Background
  <2>2. line # <<>>
    BY DEF Parsing, ParseInv, ArgumentsSeen
  <2>3. c' \in 1..(Len(line) + 1) /\ c' - 1 \notin Operators
    BY <1>1, <1>5, <1>6
  <2>4. narg' = Len(line) - Spent' - aflag' /\ Len(argc) = c' - 1 - Spent'
    BY <1>1, <1>2, <1>3
  <2>5. Len(argc) - aflag' = Len(argc) /\ aflag' <= Len(argc)
    BY <1>1, <1>2
  <2>6. /\ {argc[i] : i \in 1..(Len(argc) - aflag')} = Arguments \cap (1..(c' - 1))
        /\ \A i, j \in 1..(Len(argc) - aflag') : i < j => argc[i] < argc[j]
    BY <1>4, <1>8, <2>5, Zenon
  <2> QED
    BY <1>9, <2>1, <2>2, <2>3, <2>4, <2>5, <2>6, Zenon DEF ArgumentsSeen
<1>11. narg' \in Int
  BY <1>1, <1>2, <1>3
<1> QED
  BY <1>6, <1>7, <1>10, <1>11

LEMMA OutputKeeps ==
    ASSUME ParseInv, parse_output
    PROVE  ParseInv'
<1>1. Parsing /\ ppc = "parse" /\ UNCHANGED <<sh, line, argc, iflag, iname>>
  BY DEF parse_output, Parsing, Ampersand
<1>2. StrAt(place) \in {">", ">>"} /\ StrAt(place) \in Symbols
  BY DEF parse_output, Symbols
<1>3. /\ c \in 1..Len(line) /\ Len(line) \in Nat /\ place = c /\ StrAt(place) = line[c]
      /\ ~trailing_ampersand /\ find_next(place) = c + 1
      /\ c \in Operators /\ c + 1 \in FileNames /\ line[c] \in Symbols
  BY <1>1, <1>2, AtOperator, Zenon
<1>4. c \in Outputs
  <2>1. line[c] # "<"
    BY <1>2, <1>3
  <2> QED
    BY <1>3, <2>1 DEF Outputs, Inputs
<1>5. UNCHANGED <<Operators, Inputs, Outputs, FileNames, Background, Arguments, WellFormed>>
  BY <1>1, SameLine, Zenon
<1>6. aflag' = aflag
  BY <1>3, Zenon DEF parse_output, Ampersand
<1>7. narg \in Int /\ iname \in Nat /\ oname \in Nat /\ aflag \in {0, 1} /\ c \in Nat
  BY DEF ParseInv, ParseTypeOK
<1>8. \A n : Takes(n) => narg' = narg - n - 0
  BY <1>3, Zenon DEF Takes
<1>9. /\ iflag # 0 => iname - 1 \in Inputs
      /\ oflag # 0 => oname - 1 \in Outputs
      /\ iflag = 0 => iname = 0
      /\ oflag = 0 => oname = 0
      /\ FlagOfOutput
  BY Zenon DEF ParseInv, FlagsSeen
<1>10. /\ iflag # 0 => iname \in DOMAIN line /\ iname < c
       /\ oflag # 0 => oname \in DOMAIN line /\ oname < c
       /\ Operators \cap (1..(c - 1)) = Passed(iflag, iname) \cup Passed(oflag, oname)
  BY <1>1 DEF ParseInv, FlagsSeen
<1>11. CASE oflag # 0
  <2>1. /\ ppc' = "rejected" /\ Takes(0) /\ UNCHANGED <<c, oflag, oname>>
    BY <1>11 DEF parse_output
  <2>2. narg' \in Int
    BY <1>7, <1>8, <2>1
  <2>3. ParseTypeOK'
    BY <1>1, <1>6, <2>1, <2>2, Zenon DEF ParseInv, ParseTypeOK
  <2>4. FlagsSeen'
    <3>1. line' = line /\ FlagOfOutput'
      BY <1>1, <1>9, <2>1, Zenon DEF FlagOfOutput
    <3> QED
      BY <1>1, <1>5, <1>9, <2>1, <3>1 DEF FlagsSeen
  <2>5. ~WellFormed
    <3>1. oname - 1 # c
      BY <1>7, <1>10, <1>11
    <3> QED
      BY <1>4, <1>9, <1>11, <3>1, Zenon DEF WellFormed, AtMostOne
  <2> QED
    BY <1>5, <2>1, <2>3, <2>4, <2>5 DEF ParseInv, ArgumentsSeen
<1>12. CASE oflag = 0
  <2>1. /\ oflag' = (IF StrAt(place) = ">>" THEN 2 ELSE 1) /\ Takes(2)
        /\ oname' = c + 1 /\ c' = find_next(c + 1)
        /\ ppc' = IF refused(StrAt(place), StrAt(c + 1)) THEN "rejected" ELSE "parse"
    BY <1>3, <1>12, Zenon DEF parse_output, output_flag
  <2>2. narg' \in Int /\ narg' = narg - 2
    BY <1>7, <1>8, <2>1
  <2>3. oflag' \in {1, 2} /\ oflag' # 0 /\ oname' \in Nat /\ oname' - 1 = c
    BY <1>7, <2>1
  <2>4. c' \in Nat
    <3>1. c' = c + 1 \/ c' = (c + 1) + 1
      BY <2>1, Zenon DEF find_next
    <3> QED
      BY <1>7, <3>1
  <2>5. ParseTypeOK'
    <3>1. oflag' \in {0, 1, 2}
      BY <2>3
    <3> QED
      BY <1>1, <1>6, <2>2, <2>3, <2>4, <3>1, Zenon DEF ParseInv, ParseTypeOK
  <2>6. /\ iflag' # 0 => iname' - 1 \in Inputs'
        /\ oflag' # 0 => oname' - 1 \in Outputs'
        /\ iflag' = 0 => iname' = 0
        /\ oflag' = 0 => oname' = 0
        /\ FlagOfOutput'
    <3>1. line'[oname' - 1] = StrAt(place)
      BY <1>1, <1>3, <2>3, Zenon
    <3>2. FlagOfOutput'
      BY <2>1, <3>1, Zenon DEF FlagOfOutput
    <3> QED
      BY <1>1, <1>4, <1>5, <1>9, <2>3, <3>2, Zenon
  <2>7. CASE refused(line[c], StrAt(c + 1))
    <3>1. ppc' = "rejected"
      BY <1>3, <2>1, <2>7, Zenon
    <3>2. FlagsSeen' /\ ArgumentsSeen'
      BY <2>6, <3>1 DEF FlagsSeen, ArgumentsSeen
    <3>3. CASE StrAt(c + 1) = ""
      <4>1. c + 1 > Len(line)
        BY <1>1, <1>2, <3>3, AtOperator, Zenon
      <4>2. c + 1 \notin 1..Len(line)
        BY <1>3, <4>1
      <4>3. DOMAIN line = 1..Len(line)
        BY <1>1, AtString, LineFacts, Zenon
      <4> QED
        BY <1>3, <1>5, <2>5, <3>1, <3>2, <4>2, <4>3 DEF ParseInv, WellFormed
    <3>4. CASE StrAt(c + 1) # ""
      <4>1. sh = 2 /\ line[c] = ">>" /\ StrAt(c + 1) \in Symbols
        BY <2>7, <3>4, Zenon DEF refused
      <4>2. ~(c + 1 > Len(line))
        BY <1>1, <1>2, <3>4, AtOperator, Zenon
      <4>3. c + 1 <= Len(line)
        BY <1>3, <4>2
      <4>4. line[c + 1] \in Symbols
        BY <1>1, <1>2, <4>1, <4>3, AtOperator, Zenon
      <4>5. ~WellFormed
        BY <1>4, <4>1, <4>4, Zenon DEF WellFormed
      <4> QED
        BY <1>5, <2>5, <3>1, <3>2, <4>5 DEF ParseInv
    <3> QED
      BY <3>3, <3>4
  <2>8. CASE ~refused(line[c], StrAt(c + 1))
    <3>1. ppc' = "parse" /\ StrAt(c + 1) # ""
      BY <1>3, <2>1, <2>8, Zenon DEF refused
    <3>2. ~(c + 1 > Len(line))
      BY <1>1, <1>2, <3>1, AtOperator, Zenon
    <3>3. c + 1 <= Len(line)
      BY <1>3, <3>2
    <3>4. /\ StrAt(c + 1) = line[c + 1] /\ find_next(c + 1) = c + 2
          /\ c + 1 \in DOMAIN line
      BY <1>1, <1>2, <3>3, AtOperator, Zenon
    <3>5. c' = c + 2
      BY <2>1, <3>4, Zenon
    <3>6. Spent' = Spent + 2
      <4>1. oflag = 0 /\ oflag' # 0 /\ iflag' = iflag
        BY <1>1, <1>12, <2>3
      <4> QED
        BY <4>1 DEF Spent
    <3>7. /\ ArgumentsSeen'
          /\ Operators \cap (1..(c' - 1)) = (Operators \cap (1..(c - 1))) \cup {c}
      BY <1>1, <1>2, <1>6, <2>2, <3>3, <3>5, <3>6, RedirectionKeeps, Zenon
    <3>8. FlagsSeen'
      <4>1. Passed(oflag, oname) = {}
        BY <1>12, Zenon DEF Passed
      <4>2. Passed(oflag, oname)' = {c}
        BY <2>3, Zenon DEF Passed
      <4>3. Passed(iflag, iname)' = Passed(iflag, iname)
        BY <1>1, Zenon DEF Passed
      <4>4. Operators' \cap (1..(c' - 1)) = (Passed(iflag, iname) \cup Passed(oflag, oname))'
        BY <1>5, <1>10, <3>7, <4>1, <4>2, <4>3
      <4>5. iflag # 0 => iname \in DOMAIN line /\ iname < c'
        BY <1>7, <1>10, <3>5
      <4>6. oname' < c'
        BY <1>7, <2>1, <3>5
      <4>7. sh = 2 /\ line[c] = ">>" => line[c + 1] \notin Symbols
        BY <2>8, <3>4, Zenon DEF refused
      <4> QED
        BY <1>1, <2>1, <2>3, <2>6, <3>4, <4>4, <4>5, <4>6, <4>7, Zenon DEF FlagsSeen
    <3> QED
      BY <2>5, <3>1, <3>7, <3>8 DEF ParseInv
  <2> QED
    BY <2>7, <2>8
<1> QED
  BY <1>11, <1>12

LEMMA InputKeeps ==
    ASSUME ParseInv, parse_input
    PROVE  ParseInv'
<1>1. Parsing /\ ppc = "parse" /\ UNCHANGED <<sh, line, argc, oflag, oname>>
  BY DEF parse_input, Parsing, Ampersand
<1>2. StrAt(place) = "<" /\ StrAt(place) \in Symbols
  BY DEF parse_input, Symbols
<1>3. /\ c \in 1..Len(line) /\ Len(line) \in Nat /\ place = c /\ StrAt(place) = line[c]
      /\ ~trailing_ampersand /\ find_next(place) = c + 1
      /\ c \in Operators /\ c + 1 \in FileNames /\ line[c] \in Symbols
  BY <1>1, <1>2, AtOperator, Zenon
<1>4. c \in Inputs
  <2>1. line[c] = "<"
    BY <1>2, <1>3
  <2> QED
    BY <1>3, <2>1 DEF Inputs
<1>5. UNCHANGED <<Operators, Inputs, Outputs, FileNames, Background, Arguments, WellFormed>>
  BY <1>1, SameLine, Zenon
<1>6. aflag' = aflag
  BY <1>3, Zenon DEF parse_input, Ampersand
<1>7. narg \in Int /\ iname \in Nat /\ oname \in Nat /\ aflag \in {0, 1} /\ c \in Nat
  BY DEF ParseInv, ParseTypeOK
<1>8. \A n : Takes(n) => narg' = narg - n - 0
  BY <1>3, Zenon DEF Takes
<1>9. /\ iflag # 0 => iname - 1 \in Inputs
      /\ oflag # 0 => oname - 1 \in Outputs
      /\ iflag = 0 => iname = 0
      /\ oflag = 0 => oname = 0
      /\ FlagOfOutput
  BY Zenon DEF ParseInv, FlagsSeen
<1>10. /\ iflag # 0 => iname \in DOMAIN line /\ iname < c
       /\ oflag # 0 => oname \in DOMAIN line /\ oname < c
       /\ oflag # 0 /\ sh = 2 /\ line[oname - 1] = ">>" => line[oname] \notin Symbols
       /\ Operators \cap (1..(c - 1)) = Passed(iflag, iname) \cup Passed(oflag, oname)
  BY <1>1 DEF ParseInv, FlagsSeen
<1>11. CASE iflag # 0
  <2>1. /\ ppc' = "rejected" /\ Takes(0) /\ UNCHANGED <<c, iflag, iname>>
    BY <1>11 DEF parse_input
  <2>2. narg' \in Int
    BY <1>7, <1>8, <2>1
  <2>3. ParseTypeOK'
    BY <1>1, <1>6, <2>1, <2>2, Zenon DEF ParseInv, ParseTypeOK
  <2>4. FlagsSeen'
    <3>1. line' = line /\ FlagOfOutput'
      BY <1>1, <1>9, <2>1, Zenon DEF FlagOfOutput
    <3> QED
      BY <1>1, <1>5, <1>9, <2>1, <3>1 DEF FlagsSeen
  <2>5. ~WellFormed
    <3>1. iname - 1 # c
      BY <1>7, <1>10, <1>11
    <3> QED
      BY <1>4, <1>9, <1>11, <3>1, Zenon DEF WellFormed, AtMostOne
  <2> QED
    BY <1>5, <2>1, <2>3, <2>4, <2>5 DEF ParseInv, ArgumentsSeen
<1>12. CASE iflag = 0
  <2>1. /\ iflag' = 3 /\ Takes(2)
        /\ iname' = c + 1 /\ c' = find_next(c + 1)
        /\ ppc' = IF refused("<", StrAt(c + 1)) THEN "rejected" ELSE "parse"
    BY <1>3, <1>12, Zenon DEF parse_input
  <2>2. narg' \in Int /\ narg' = narg - 2
    BY <1>7, <1>8, <2>1
  <2>3. iflag' \in {0, 3} /\ iflag' # 0 /\ iname' \in Nat /\ iname' - 1 = c
    BY <1>7, <2>1
  <2>4. c' \in Nat
    <3>1. c' = c + 1 \/ c' = (c + 1) + 1
      BY <2>1, Zenon DEF find_next
    <3> QED
      BY <1>7, <3>1
  <2>5. ParseTypeOK'
    BY <1>1, <1>6, <2>2, <2>3, <2>4, Zenon DEF ParseInv, ParseTypeOK
  <2>6. /\ iflag' # 0 => iname' - 1 \in Inputs'
        /\ oflag' # 0 => oname' - 1 \in Outputs'
        /\ iflag' = 0 => iname' = 0
        /\ oflag' = 0 => oname' = 0
        /\ FlagOfOutput'
    <3>1. FlagOfOutput'
      BY <1>1, <1>9, Zenon DEF FlagOfOutput
    <3> QED
      BY <1>1, <1>4, <1>5, <1>9, <2>3, <3>1, Zenon
  <2>7. CASE refused("<", StrAt(c + 1))
    <3>1. ppc' = "rejected"
      BY <1>3, <2>1, <2>7, Zenon
    <3>2. FlagsSeen' /\ ArgumentsSeen'
      BY <2>6, <3>1 DEF FlagsSeen, ArgumentsSeen
    <3>3. StrAt(c + 1) = ""
      <4>1. "<" # ">>"
        OBVIOUS
      <4> QED
        BY <2>7, <4>1, Zenon DEF refused
    <3>4. c + 1 > Len(line)
      BY <1>1, <1>2, <3>3, AtOperator, Zenon
    <3>5. c + 1 \notin 1..Len(line)
      BY <1>3, <3>4
    <3>6. DOMAIN line = 1..Len(line)
      BY <1>1, AtString, LineFacts, Zenon
    <3> QED
      BY <1>3, <1>5, <2>5, <3>1, <3>2, <3>5, <3>6 DEF ParseInv, WellFormed
  <2>8. CASE ~refused("<", StrAt(c + 1))
    <3>1. ppc' = "parse" /\ StrAt(c + 1) # ""
      BY <1>3, <2>1, <2>8, Zenon DEF refused
    <3>2. ~(c + 1 > Len(line))
      BY <1>1, <1>2, <3>1, AtOperator, Zenon
    <3>3. c + 1 <= Len(line)
      BY <1>3, <3>2
    <3>4. /\ StrAt(c + 1) = line[c + 1] /\ find_next(c + 1) = c + 2
          /\ c + 1 \in DOMAIN line
      BY <1>1, <1>2, <3>3, AtOperator, Zenon
    <3>5. c' = c + 2
      BY <2>1, <3>4, Zenon
    <3>6. Spent' = Spent + 2
      <4>1. iflag = 0 /\ iflag' # 0 /\ oflag' = oflag
        BY <1>1, <1>12, <2>3
      <4> QED
        BY <4>1 DEF Spent
    <3>7. /\ ArgumentsSeen'
          /\ Operators \cap (1..(c' - 1)) = (Operators \cap (1..(c - 1))) \cup {c}
      BY <1>1, <1>2, <1>6, <2>2, <3>3, <3>5, <3>6, RedirectionKeeps, Zenon
    <3>8. FlagsSeen'
      <4>1. Passed(iflag, iname) = {}
        BY <1>12, Zenon DEF Passed
      <4>2. Passed(iflag, iname)' = {c}
        BY <2>3, Zenon DEF Passed
      <4>3. Passed(oflag, oname)' = Passed(oflag, oname)
        BY <1>1, Zenon DEF Passed
      <4>4. Operators' \cap (1..(c' - 1)) = (Passed(iflag, iname) \cup Passed(oflag, oname))'
        BY <1>5, <1>10, <3>7, <4>1, <4>2, <4>3
      <4>5. oflag # 0 => oname \in DOMAIN line /\ oname < c'
        BY <1>7, <1>10, <3>5
      <4>6. iname' < c'
        BY <1>7, <2>1, <3>5
      <4> QED
        BY <1>1, <1>10, <2>1, <2>3, <2>6, <3>4, <4>4, <4>5, <4>6, Zenon DEF FlagsSeen
    <3> QED
      BY <2>5, <3>1, <3>7, <3>8 DEF ParseInv
  <2> QED
    BY <2>7, <2>8
<1> QED
  BY <1>11, <1>12

LEMMA EndKeeps ==
    ASSUME ParseInv, parse_end
    PROVE  ParseInv'
<1>1. /\ ppc = "parse" /\ StrAt(c) = "" /\ ppc' = "parsed"
      /\ UNCHANGED <<sh, line, c, argc, narg, iflag, oflag, aflag, iname, oname>>
  BY DEF parse_end
<1>2. UNCHANGED <<Operators, Inputs, Outputs, FileNames, Background, Arguments, WellFormed>>
  BY <1>1, SameLine, Zenon
<1>3. ParseTypeOK'
  BY <1>1, Zenon DEF ParseInv, ParseTypeOK
<1>4. ppc \in {"parse", "parsed"} /\ ppc' \in {"parse", "parsed"}
  BY <1>1
<1>5. UNCHANGED <<Spent, Passed(iflag, iname), Passed(oflag, oname)>>
  BY <1>1, Zenon DEF Spent, Passed
<1>6. FlagsSeen'
  BY <1>1, <1>2, <1>4, <1>5, Zenon DEF ParseInv, FlagsSeen, FlagOfOutput
<1>7. ArgumentsSeen'
  BY <1>1, <1>2, <1>4, <1>5, Zenon DEF ParseInv, ArgumentsSeen
<1>8. c' = Len(line') + 1
  <2>1. line \in Seq(Strings) /\ c \in 1..(Len(line) + 1)
    BY <1>4, Zenon DEF ParseInv, ParseTypeOK, ArgumentsSeen
  <2>2. c \notin 1..Len(line)
    BY <1>1, <2>1, LineFacts, Zenon
  <2>3. Len(line) \in Nat
    BY <2>1, LineFacts, Zenon
  <2>4. c = Len(line) + 1
    BY <2>1, <2>2, <2>3
  <2> QED
    BY <1>1, <2>4, Zenon
<1> QED
  BY <1>1, <1>3, <1>6, <1>7, <1>8 DEF ParseInv

\* The steps of repl that leave the parsed line alone.
LEMMA LineKept ==
    ASSUME ParseInv, sh' \in {1, 2}, ppc' \notin {"parse", "parsed", "rejected"},
           UNCHANGED <<line, c, argc, narg, iflag, oflag, aflag, iname, oname>>
    PROVE  ParseInv'
<1>1. ParseTypeOK'
  BY Zenon DEF ParseInv, ParseTypeOK
<1>2. Inputs' = Inputs /\ Outputs' = Outputs
  <2>1. Operators' = Operators
    BY DEF Operators, Row
  <2> QED
    BY <2>1 DEF Inputs, Outputs
<1>3. FlagsSeen'
  BY <1>2 DEF ParseInv, FlagsSeen, FlagOfOutput
<1> QED
  BY <1>1, <1>3 DEF ParseInv, ArgumentsSeen

LEMMA AgainKeeps ==
    ASSUME ParseInv, repl_again
    PROVE  ParseInv'
<1>1. /\ ppc' = "read" /\ line' = <<>> /\ c' = 0 /\ argc' = <<>> /\ narg' = 0
      /\ iflag' = 0 /\ oflag' = 0 /\ aflag' = 0 /\ iname' = 0 /\ oname' = 0 /\ sh' = sh
  BY DEF repl_again
<1>2. ParseTypeOK'
  BY <1>1, EmptySeq DEF ParseInv, ParseTypeOK
<1> QED
  BY <1>1, <1>2 DEF ParseInv, FlagsSeen, FlagOfOutput, ArgumentsSeen

LEMMA ParserStep ==
    ASSUME ParseInv, [SimpleShellNext]_<<parser, descriptors>>
    PROVE  ParseInv'
<1> DEFINE Keeps == /\ sh' \in {1, 2} /\ ppc' \notin {"parse", "parsed", "rejected"}
                    /\ UNCHANGED <<line, c, argc, narg, iflag, oflag, aflag, iname, oname>>
<1>1. sh \in {1, 2}
  BY DEF ParseInv, ParseTypeOK
<1>2. Keeps => ParseInv'
  BY LineKept, Zenon
<1>3. CASE main_repl
  BY <1>2, <1>3 DEF main_repl
<1>4. CASE ParseNext
  BY <1>4, StartKeeps, OutputKeeps, InputKeeps, ArgumentKeeps, EndKeeps, Zenon DEF ParseNext
<1>5. CASE repl_again
  BY <1>5, AgainKeeps
<1>6. CASE redir_input
  BY <1>1, <1>2, <1>6 DEF redir_input, GoTo
<1>7. CASE redir_output
  BY <1>1, <1>2, <1>7 DEF redir_output, GoTo
<1>8. CASE run_command \/ repl_eof \/ return_or_exit
  BY <1>1, <1>2, <1>8 DEF run_command, repl_eof, return_or_exit, GoTo
<1>9. CASE restore_output
  BY <1>1, <1>2, <1>9 DEF restore_output, GoTo
<1>10. CASE restore_input
  BY <1>1, <1>2, <1>10 DEF restore_input, GoTo
<1>11. CASE UNCHANGED <<parser, descriptors>>
  <2>1. /\ ppc' = ppc
        /\ UNCHANGED <<sh, line, c, argc, narg, iflag, oflag, aflag, iname, oname>>
    BY <1>11 DEF parser
  <2>2. UNCHANGED <<Operators, Inputs, Outputs, FileNames, Background, Arguments, WellFormed>>
    BY <2>1, SameLine, Zenon
  <2>3. UNCHANGED <<Spent, Passed(iflag, iname), Passed(oflag, oname)>>
    BY <2>1, Zenon DEF Spent, Passed
  <2>4. ParseTypeOK' /\ FlagsSeen'
    BY <2>1, <2>2, <2>3, Zenon DEF ParseInv, ParseTypeOK, FlagsSeen, FlagOfOutput
  <2>5. ArgumentsSeen'
    BY <2>1, <2>2, <2>3, Zenon DEF ParseInv, ArgumentsSeen
  <2> QED
    BY <2>1, <2>2, <2>4, <2>5, Zenon DEF ParseInv
<1> QED
  BY <1>3, <1>4, <1>5, <1>6, <1>7, <1>8, <1>9, <1>10, <1>11, Zenon DEF SimpleShellNext

------------------------------------------------------------------------------
(* Descriptors *)

LEMMA StartingFdsAre ==
    /\ DOMAIN StartingFds = 0..6
    /\ StartingFds[0] = "terminal_in" /\ StartingFds[3] = "terminal_in"
    /\ StartingFds[1] = "terminal_out" /\ StartingFds[4] = "terminal_out"
    /\ StartingFds[2] = "terminal_err"
    /\ StartingFds[5] = "free" /\ StartingFds[6] = "free"
BY DEF StartingFds

\* With one descriptor to spare for each file, open finds 5, or 6 when 5 is taken.
LEMMA OpensNext ==
    ASSUME DescriptorsInv, ofd = STDOUT_FILENO, NEW std \in {0, 1}, NEW what,
           Opened(std, what)
    PROVE  LET n == IF ifd = STDIN_FILENO THEN 5 ELSE 6 IN
           /\ fd' = [fd EXCEPT ![n] = what, ![std] = what]
           /\ served' = served \cup {what}
           /\ std = 0 => ifd' = n /\ ofd' = ofd
           /\ std = 1 => ofd' = n /\ ifd' = ifd
<1> DEFINE n == IF ifd = STDIN_FILENO THEN 5 ELSE 6
           Low(m) == fd[m] = "free" /\ \A k \in 0..(m - 1) : fd[k] # "free"
           tempfd == CHOOSE m \in DOMAIN fd : Low(m)
<1>1. fd = Redirected /\ DOMAIN fd = 0..6 /\ ofd = 1 /\ (ifd = 0 \/ ifd = 5)
  BY DEF DescriptorsInv, Redirected, STDOUT_FILENO
<1>2. \A m \in 0..6 : fd[m] = IF ifd # 0 /\ (m = 0 \/ m = ifd) THEN "input_file"
                             ELSE StartingFds[m]
  BY <1>1 DEF Redirected, STDIN_FILENO, STDOUT_FILENO
<1>3. /\ fd[0] # "free" /\ fd[1] # "free" /\ fd[2] # "free" /\ fd[3] # "free"
      /\ fd[4] # "free" /\ fd[6] = "free"
      /\ fd[5] = "free" <=> ifd = 0
  <2>1. /\ \A m \in 0..6 : m # 0 /\ m # 5 => fd[m] = StartingFds[m]
        /\ ifd = 0 => \A m \in 0..6 : fd[m] = StartingFds[m]
        /\ ifd = 5 => \A m \in 0..6 : m = 0 \/ m = 5 => fd[m] = "input_file"
    BY <1>1, <1>2
  <2>2. /\ \A m \in {0, 1, 2, 3, 4, 5, 6} : m \in 0..6
        /\ \A m \in {1, 2, 3, 4, 6} : m # 0 /\ m # 5
    OBVIOUS
  <2>3. /\ "terminal_in" # "free" /\ "terminal_out" # "free" /\ "terminal_err" # "free"
        /\ "input_file" # "free"
    OBVIOUS
  <2>4. ~(ifd = 0 /\ ifd = 5)
    OBVIOUS
  <2> QED
    BY <1>1, <2>1, <2>2, <2>3, <2>4, StartingFdsAre, Zenon
<1>4. n \in 0..6 /\ Low(n)
  <2>1. CASE ifd = 0
    <3>1. n = 5 /\ fd[5] = "free"
      BY <1>3, <2>1 DEF STDIN_FILENO
    <3>2. \A k \in 0..4 : fd[k] # "free"
      BY <1>3
    <3> QED
      BY <3>1, <3>2
  <2>2. CASE ifd = 5
    <3>1. n = 6 /\ fd[6] = "free"
      BY <1>3, <2>2 DEF STDIN_FILENO
    <3>2. \A k \in 0..5 : fd[k] # "free"
      BY <1>3, <2>2
    <3> QED
      BY <3>1, <3>2
  <2> QED
    BY <1>1, <2>1, <2>2
<1>5. \A m \in 0..6 : Low(m) => m = n
  <2>1. \A m \in 0..6 : m = n \/ m \in 0..(n - 1) \/ n \in 0..(m - 1)
    BY <1>4
  <2> HIDE DEF n
  <2> QED
    BY <1>4, <2>1
<1> HIDE DEF n, Low
<1>6. tempfd = n
  BY <1>1, <1>4, <1>5
<1>7. /\ fd' = [fd EXCEPT ![tempfd] = what, ![std] = what]
      /\ served' = served \cup {what}
      /\ IF std = 0 THEN ifd' = tempfd /\ UNCHANGED ofd
         ELSE ofd' = tempfd /\ UNCHANGED ifd
  BY Zenon DEF Opened, Low, STDIN_FILENO
<1> HIDE DEF tempfd
<1>8. /\ fd' = [fd EXCEPT ![n] = what, ![std] = what]
      /\ served' = served \cup {what}
      /\ std = 0 => ifd' = n /\ ofd' = ofd
      /\ std = 1 => ofd' = n /\ ifd' = ifd
  BY <1>6, <1>7
<1> QED
  BY <1>8 DEF n

\* Each step leaves the descriptors as ifd and ofd say.
LEMMA DescriptorsStep ==
    ASSUME DescriptorsInv, [SimpleShellNext]_<<parser, descriptors>>
    PROVE  DescriptorsInv'
<1> USE DEF STDIN_FILENO, STDOUT_FILENO
<1> DEFINE Early == {"none", "read", "parse", "parsed", "rejected"}
<1>1. /\ fd = Redirected
      /\ \/ ifd = 0 /\ ofd = 1
         \/ ifd = 5 /\ ofd = 1
         \/ ifd = 0 /\ ofd = 5
         \/ ifd = 5 /\ ofd = 6
      /\ served \subseteq {"input_file", "output_file"}
  BY DEF DescriptorsInv
<1>2. /\ ppc \in Early \/ ppc = "restored" => ifd = 0 /\ ofd = 1
      /\ ppc \in {"input_done", "output_restored"} => ofd = 1
      /\ ppc \in Early => served = {}
      /\ ppc \in {"input_done", "run"} =>
           /\ "input_file" \in served <=> ifd # 0
           /\ "output_file" \in served <=> ofd # 1
           /\ ifd # 0 => iflag # 0
           /\ ofd # 1 => oflag # 0
  BY DEF DescriptorsInv
<1>3. \A m \in 0..6 :
        Redirected[m] = IF ifd # 0 /\ (m = 0 \/ m = ifd) THEN "input_file"
                        ELSE IF ofd # 1 /\ (m = 1 \/ m = ofd) THEN "output_file"
                        ELSE StartingFds[m]
  BY DEF Redirected
<1>4. /\ DOMAIN fd = 0..6 /\ fd = [m \in 0..6 |-> fd[m]]
  BY <1>1 DEF Redirected
<1>5. ASSUME UNCHANGED descriptors
      PROVE  UNCHANGED <<fd, ifd, ofd, served>> /\ Redirected' = Redirected
  BY <1>5 DEF descriptors, Redirected
<1>6. CASE main_repl
  BY <1>1, <1>2, <1>5, <1>6 DEF main_repl, DescriptorsInv
<1>7. CASE ParseNext /\ UNCHANGED descriptors
  <2>1. ppc \in Early /\ ppc' \in Early
    BY <1>7 DEF ParseNext, parse_start, parse_output, parse_input, parse_argument, parse_end,
                Parsing
  <2> QED
    BY <1>1, <1>2, <1>5, <1>7, <2>1 DEF DescriptorsInv
<1>8. CASE repl_again
  <2>1. ifd = 0 /\ ofd = 1 /\ ifd' = 0 /\ ofd' = 1 /\ served' = {} /\ ppc' = "read" /\ fd' = fd
    BY <1>2, <1>8 DEF repl_again
  <2>2. Redirected' = Redirected
    BY <2>1 DEF Redirected
  <2> QED
    BY <1>1, <2>1, <2>2 DEF DescriptorsInv
<1>9. CASE redir_input
  <2>1. ppc = "parsed" /\ ppc' = "input_done" /\ iflag' = iflag /\ oflag' = oflag
    BY <1>9 DEF redir_input, GoTo
  <2>2. CASE UNCHANGED descriptors
    BY <1>1, <1>2, <1>5, <2>1, <2>2 DEF DescriptorsInv
  <2>3. CASE iflag # 0 /\ Opened(0, "input_file")
    <3>1. /\ fd' = [fd EXCEPT ![5] = "input_file", ![0] = "input_file"]
          /\ served' = {"input_file"} /\ ifd' = 5 /\ ofd' = 1
      <4>1. ifd = 0 /\ ofd = 1 /\ served = {}
        BY <1>2, <2>1
      <4>2. /\ fd' = [fd EXCEPT ![5] = "input_file", ![0] = "input_file"]
            /\ served' = served \cup {"input_file"}
            /\ ifd' = 5 /\ ofd' = ofd
        BY <2>3, <4>1, OpensNext
      <4> QED
        BY <4>1, <4>2
    <3>2. fd' = Redirected'
      <4>1. ifd = 0 /\ ofd = 1
        BY <1>2, <2>1
      <4>2. \A m \in 0..6 : fd[m] = StartingFds[m]
        BY <1>1, <1>3, <4>1
      <4>3. fd' = [m \in 0..6 |-> IF m = 0 \/ m = 5 THEN "input_file" ELSE StartingFds[m]]
        BY <1>4, <3>1, <4>2
      <4>4. Redirected' = [m \in 0..6 |-> IF m = 0 \/ m = 5 THEN "input_file"
                                          ELSE StartingFds[m]]
        BY <3>1 DEF Redirected
      <4> QED
        BY <4>3, <4>4
    <3> QED
      BY <2>1, <2>3, <3>1, <3>2 DEF DescriptorsInv
  <2> QED
    BY <1>9, <2>2, <2>3 DEF redir_input, redir
<1>10. CASE redir_output
  <2>1. ppc = "input_done" /\ ppc' = "run" /\ iflag' = iflag /\ oflag' = oflag
    BY <1>10 DEF redir_output, GoTo
  <2>2. CASE UNCHANGED descriptors
    BY <1>1, <1>2, <1>5, <2>1, <2>2 DEF DescriptorsInv
  <2>3. CASE oflag # 0 /\ Opened(1, "output_file")
    <3> DEFINE n == IF ifd = 0 THEN 5 ELSE 6
    <3>1. ofd = 1 /\ (ifd = 0 \/ ifd = 5)
      BY <1>1, <1>2, <2>1
    <3>2. /\ fd' = [fd EXCEPT ![n] = "output_file", ![1] = "output_file"]
          /\ served' = served \cup {"output_file"} /\ ofd' = n /\ ifd' = ifd
      BY <2>3, <3>1, OpensNext
    <3>3. (ifd = 0 => n = 5) /\ (ifd = 5 => n = 6) /\ n \in {5, 6} /\ n # ifd
      BY <3>1
    <3> HIDE DEF n
    <3>4. fd' = Redirected'
      <4>1. \A m \in 0..6 : fd[m] = IF ifd # 0 /\ (m = 0 \/ m = ifd) THEN "input_file"
                                   ELSE StartingFds[m]
        BY <1>1, <1>3, <3>1
      <4>2. fd' = [m \in 0..6 |-> IF m = 1 \/ m = n THEN "output_file" ELSE fd[m]]
        BY <1>4, <3>2, <3>3
      <4>3. Redirected' = [m \in 0..6 |-> IF ifd # 0 /\ (m = 0 \/ m = ifd) THEN "input_file"
                                          ELSE IF m = 1 \/ m = n THEN "output_file"
                                          ELSE StartingFds[m]]
        BY <3>2, <3>3 DEF Redirected
      <4>4. ASSUME NEW m \in 0..6
            PROVE  (IF m = 1 \/ m = n THEN "output_file" ELSE fd[m])
                      = IF ifd # 0 /\ (m = 0 \/ m = ifd) THEN "input_file"
                        ELSE IF m = 1 \/ m = n THEN "output_file"
                        ELSE StartingFds[m]
        <5>1. m = 1 \/ m = n => ~(ifd # 0 /\ (m = 0 \/ m = ifd))
          BY <3>1, <3>3
        <5> QED
          BY <4>1, <5>1, Zenon
      <4> QED
        BY <4>2, <4>3, <4>4
    <3>5. /\ "input_file" \in served <=> ifd # 0
          /\ ifd # 0 => iflag # 0
      BY <1>2, <2>1
    <3>6. ("input_file" \in served' <=> ifd' # 0) /\ "output_file" \in served'
      BY <3>2, <3>5
    <3>7. served' \subseteq {"input_file", "output_file"} /\ ofd' # 1 /\ ifd' = ifd
      BY <1>1, <3>2, <3>3
    <3>8. <<ifd', ofd'>> \in {<<0, 1>>, <<5, 1>>, <<0, 5>>, <<5, 6>>}
      BY <3>1, <3>2, <3>3
    <3> QED
      BY <2>1, <2>3, <3>4, <3>5, <3>6, <3>7, <3>8 DEF DescriptorsInv
  <2> QED
    BY <1>10, <2>2, <2>3 DEF redir_output, redir
<1>11. CASE run_command \/ repl_eof \/ return_or_exit
  <2>1. UNCHANGED descriptors /\ ppc' \in {"ran", "done"}
    BY <1>11 DEF run_command, repl_eof, return_or_exit, GoTo
  <2> QED
    BY <1>1, <1>5, <2>1 DEF DescriptorsInv
<1>12. CASE restore_output
  <2>1. /\ ppc' = "output_restored" /\ ofd' = 1 /\ ifd' = ifd /\ served' = served
        /\ fd' = IF ofd # 1 THEN [fd EXCEPT ![1] = fd[4], ![ofd] = "free"] ELSE fd
    BY <1>12 DEF restore_output, GoTo, put_back, stdout
  <2>2. Redirected' = [m \in 0..6 |-> IF ifd # 0 /\ (m = 0 \/ m = ifd) THEN "input_file"
                                      ELSE StartingFds[m]]
    BY <2>1 DEF Redirected
  <2>3. fd' = Redirected'
    <3>1. CASE ofd = 1
      BY <1>1, <1>3, <1>4, <2>1, <2>2, <3>1
    <3>2. CASE ofd # 1
      <4>1. ofd \in {5, 6} /\ (ifd = 0 \/ (ifd = 5 /\ ofd = 6))
        BY <1>1, <3>2
      <4>2. fd[4] = "terminal_out"
        BY <1>1, <1>3, <4>1, StartingFdsAre
      <4>3. fd' = [m \in 0..6 |-> IF m = ofd THEN "free"
                                  ELSE IF m = 1 THEN "terminal_out" ELSE fd[m]]
        BY <1>4, <2>1, <3>2, <4>1, <4>2
      <4>4. ASSUME NEW m \in 0..6
            PROVE  (IF m = ofd THEN "free" ELSE IF m = 1 THEN "terminal_out" ELSE fd[m])
                     = IF ifd # 0 /\ (m = 0 \/ m = ifd) THEN "input_file" ELSE StartingFds[m]
        <5>1. CASE m = ofd
          <6>1. StartingFds[m] = "free" /\ m # 0 /\ m # ifd
            BY <4>1, <5>1, StartingFdsAre
          <6> QED
            BY <5>1, <6>1
        <5>2. CASE m = 1
          <6>1. StartingFds[m] = "terminal_out" /\ m # 0 /\ m # ifd /\ m # ofd
            BY <4>1, <5>2, StartingFdsAre
          <6> QED
            BY <5>2, <6>1
        <5>3. CASE m # ofd /\ m # 1
          BY <1>1, <1>3, <5>3
        <5> QED
          BY <5>1, <5>2, <5>3
      <4> QED
        BY <2>2, <4>3, <4>4
    <3> QED
      BY <3>1, <3>2
  <2>4. <<ifd', ofd'>> \in {<<0, 1>>, <<5, 1>>, <<0, 5>>, <<5, 6>>}
    BY <1>1, <2>1
  <2> QED
    BY <1>1, <2>1, <2>3, <2>4 DEF DescriptorsInv
<1>13. CASE restore_input
  <2>1. /\ ppc' = "restored" /\ ofd' = ofd /\ ifd' = 0 /\ served' = served /\ ofd = 1
        /\ fd' = IF ifd # 0 THEN [fd EXCEPT ![0] = fd[3], ![ifd] = "free"] ELSE fd
    BY <1>2, <1>13 DEF restore_input, GoTo, put_back, stdin
  <2>2. Redirected' = [m \in 0..6 |-> StartingFds[m]]
    BY <2>1 DEF Redirected
  <2>3. fd' = Redirected'
    <3>1. CASE ifd = 0
      BY <1>1, <1>3, <1>4, <2>1, <2>2, <3>1
    <3>2. CASE ifd # 0
      <4>1. ifd = 5
        BY <1>1, <3>2
      <4>2. fd[3] = "terminal_in"
        BY <1>1, <1>3, <2>1, <4>1, StartingFdsAre
      <4>3. fd' = [m \in 0..6 |-> IF m = 5 THEN "free"
                                  ELSE IF m = 0 THEN "terminal_in" ELSE fd[m]]
        BY <1>4, <2>1, <3>2, <4>1, <4>2
      <4>4. ASSUME NEW m \in 0..6
            PROVE  (IF m = 5 THEN "free" ELSE IF m = 0 THEN "terminal_in" ELSE fd[m])
                     = StartingFds[m]
        BY <1>1, <1>3, <2>1, <4>1, StartingFdsAre
      <4> QED
        BY <2>2, <4>3, <4>4
    <3> QED
      BY <3>1, <3>2
  <2>4. <<ifd', ofd'>> \in {<<0, 1>>, <<5, 1>>, <<0, 5>>, <<5, 6>>}
    BY <1>1, <2>1
  <2> QED
    BY <1>1, <2>1, <2>3, <2>4 DEF DescriptorsInv
<1>14. CASE UNCHANGED <<parser, descriptors>>
  <2>1. UNCHANGED descriptors /\ UNCHANGED <<ppc, iflag, oflag>>
    BY <1>14 DEF parser
  <2> QED
    BY <1>1, <1>2, <1>5, <2>1 DEF DescriptorsInv
<1> QED
  BY <1>6, <1>7, <1>8, <1>9, <1>10, <1>11, <1>12, <1>13, <1>14, Zenon DEF SimpleShellNext

------------------------------------------------------------------------------
(* The theorems *)

\* Whatever lines are typed, into either shell, parse's flags, names and places
\* account for the strings passed, and the descriptors for the files open.
THEOREM SimpleShellInvariance == SimpleShellSpec => []SimpleShellInv
<1>1. SimpleShellInit => SimpleShellInv
  <2> SUFFICES ASSUME SimpleShellInit
               PROVE  ParseInv /\ DescriptorsInv
    BY DEF SimpleShellInv
  <2>1. /\ sh = 1 /\ ppc = "none" /\ line = <<>> /\ c = 0 /\ argc = <<>> /\ narg = 0
        /\ iflag = 0 /\ oflag = 0 /\ aflag = 0 /\ iname = 0 /\ oname = 0
    BY DEF SimpleShellInit, ParserInit
  <2>2. ParseTypeOK
    BY <2>1, EmptySeq DEF ParseTypeOK
  <2>3. FlagsSeen /\ ArgumentsSeen
    BY <2>1 DEF FlagsSeen, FlagOfOutput, ArgumentsSeen
  <2>4. fd = StartingFds /\ ifd = 0 /\ ofd = 1 /\ served = {}
    BY DEF SimpleShellInit, STDIN_FILENO, STDOUT_FILENO
  <2>5. Redirected = StartingFds
    <3>1. StartingFds = [m \in 0..6 |-> StartingFds[m]]
      BY DEF StartingFds
    <3>2. Redirected = [m \in 0..6 |-> StartingFds[m]]
      BY <2>4 DEF Redirected, STDIN_FILENO, STDOUT_FILENO
    <3> QED
      BY <3>1, <3>2
  <2>6. DescriptorsInv
    BY <2>1, <2>4, <2>5 DEF DescriptorsInv, STDIN_FILENO, STDOUT_FILENO
  <2> QED
    BY <2>1, <2>2, <2>3, <2>6 DEF ParseInv
<1>2. SimpleShellInv /\ [SimpleShellNext]_<<parser, descriptors>> => SimpleShellInv'
  BY ParserStep, DescriptorsStep DEF SimpleShellInv
<1> QED
  BY <1>1, <1>2, PTL DEF SimpleShellSpec

\* A line is accepted exactly when it is well formed, and then narg, argc, the
\* file names and the flags are what it says (parse in both shells).
THEOREM ParseIsExact == SimpleShellSpec => []ParseExact
<1>1. ASSUME ParseInv
      PROVE  ParseExact
  <2>1. ASSUME ppc = "parsed"
        PROVE  /\ WellFormed
               /\ narg \in 0..Len(argc) /\ Arguments = {argc[i] : i \in 1..narg}
               /\ \A i, j \in 1..narg : i < j => argc[i] < argc[j]
               /\ aflag = IF Background THEN 1 ELSE 0
               /\ iflag = IF Inputs = {} THEN 0 ELSE 3
               /\ Outputs = {} => oflag = 0
               /\ \A i \in Outputs : oflag = IF line[i] = ">>" THEN 2 ELSE 1
               /\ {i \in {iname} : i # 0} = {i + 1 : i \in Inputs}
               /\ {i \in {oname} : i # 0} = {i + 1 : i \in Outputs}
    <3>1. line \in Seq(Strings) /\ argc \in Seq(Nat) /\ aflag \in {0, 1}
      BY <1>1 DEF ParseInv, ParseTypeOK
    <3>2. iname \in Nat /\ oname \in Nat /\ Len(argc) \in Nat /\ Len(line) \in Nat
      BY <1>1, <3>1, LenProperties DEF ParseInv, ParseTypeOK
    <3>3. c = Len(line) + 1 /\ ppc \in {"parse", "parsed"}
      BY <1>1, <2>1 DEF ParseInv
    <3>4. /\ line # <<>> /\ narg = Len(line) - Spent - aflag /\ Len(argc) = c - 1 - Spent
          /\ aflag <= Len(argc)
          /\ aflag = 1 => Background
          /\ Background => aflag = 1
          /\ {argc[i] : i \in 1..(Len(argc) - aflag)} = Arguments \cap (1..(c - 1))
          /\ \A i, j \in 1..(Len(argc) - aflag) : i < j => argc[i] < argc[j]
      BY <1>1, <3>3, Zenon DEF ParseInv, ArgumentsSeen
    <3>5. c - 1 = Len(line) /\ Spent \in Nat
      BY <3>2, <3>3 DEF Spent
    <3>6. narg = Len(argc) - aflag
      BY <3>1, <3>2, <3>4, <3>5
    <3>7. /\ iflag # 0 => iname - 1 \in Inputs
          /\ oflag # 0 => oname - 1 \in Outputs
          /\ iflag = 0 => iname = 0
          /\ oflag = 0 => oname = 0
          /\ Operators \cap (1..(c - 1)) = Passed(iflag, iname) \cup Passed(oflag, oname)
          /\ iflag # 0 => iname \in DOMAIN line
          /\ oflag # 0 => oname \in DOMAIN line
          /\ oflag # 0 /\ sh = 2 /\ line[oname - 1] = ">>" => line[oname] \notin Symbols
          /\ FlagOfOutput
      BY <1>1, <3>3, Zenon DEF ParseInv, FlagsSeen
    <3>8. Operators \subseteq 1..Len(line) /\ DOMAIN line = 1..Len(line)
      BY <3>1, LineFacts, Zenon
    <3>9. Operators = Passed(iflag, iname) \cup Passed(oflag, oname)
      BY <3>5, <3>7, <3>8
    <3>10. Inputs \cap Outputs = {} /\ Inputs \cup Outputs = Operators
      BY DEF Inputs, Outputs
    <3>11. Inputs = Passed(iflag, iname) /\ Outputs = Passed(oflag, oname)
      <4>1. Passed(iflag, iname) \subseteq Inputs /\ Passed(oflag, oname) \subseteq Outputs
        BY <3>7 DEF Passed
      <4> QED
        BY <3>9, <3>10, <4>1
    <3>12. /\ {i \in {iname} : i # 0} = {i + 1 : i \in Inputs}
           /\ {i \in {oname} : i # 0} = {i + 1 : i \in Outputs}
      <4>1. iflag # 0 => iname # 0 /\ (iname - 1) + 1 = iname
        BY <3>2, <3>7, <3>8
      <4>2. oflag # 0 => oname # 0 /\ (oname - 1) + 1 = oname
        BY <3>2, <3>7, <3>8
      <4> QED
        BY <3>7, <3>11, <4>1, <4>2 DEF Passed
    <3>13. Arguments = {argc[i] : i \in 1..narg}
      <4>1. Arguments \subseteq 1..Len(line)
        BY <3>8 DEF Arguments
      <4> QED
        BY <3>4, <3>5, <3>6, <4>1
    <3>14. narg \in 0..Len(argc)
      BY <3>1, <3>2, <3>4, <3>6
    <3>15. WellFormed
      <4>1. AtMostOne(Inputs) /\ AtMostOne(Outputs)
        BY <3>11 DEF AtMostOne, Passed
      <4>2. \A i \in Operators : i + 1 \in DOMAIN line
        BY <3>2, <3>7, <3>8, <3>9 DEF Passed
      <4>3. FileNames \subseteq DOMAIN line
        BY <4>2 DEF FileNames
      <4>4. sh = 2 => \A i \in Outputs : line[i] = ">>" => line[i + 1] \notin Symbols
        <5>1. oflag # 0 => (oname - 1) + 1 = oname
          BY <3>2, <3>7, <3>8
        <5> QED
          BY <3>7, <3>11, <5>1, Zenon DEF Passed
      <4> QED
        BY <3>4, <4>1, <4>3, <4>4, Zenon DEF WellFormed
    <3>16. aflag = IF Background THEN 1 ELSE 0
      BY <3>1, <3>4
    <3>17. iflag = IF Inputs = {} THEN 0 ELSE 3
      <4>1. iflag \in {0, 3}
        BY <1>1 DEF ParseInv, ParseTypeOK
      <4> QED
        BY <3>11, <4>1 DEF Passed
    <3>18. /\ Outputs = {} => oflag = 0
           /\ \A i \in Outputs : oflag = IF line[i] = ">>" THEN 2 ELSE 1
      BY <3>7, <3>11, Zenon DEF Passed, FlagOfOutput
    <3> QED
      BY <3>4, <3>6, <3>12, <3>13, <3>14, <3>15, <3>16, <3>17, <3>18, Zenon
  <2>2. ppc = "rejected" => ~WellFormed
    BY <1>1 DEF ParseInv
  <2> QED
    BY <2>1, <2>2, Zenon DEF ParseExact
<1>2. SimpleShellInv => ParseExact
  BY <1>1 DEF SimpleShellInv
<1> QED
  BY <1>2, SimpleShellInvariance, PTL

\* The command runs with the redirections whose file could be opened, and every
\* prompt finds the shell's own descriptors and no other (redir and repl).
THEOREM DescriptorsAreRestored == SimpleShellSpec => []DescriptorsRestored
<1>1. ASSUME ParseInv, DescriptorsInv
      PROVE  DescriptorsRestored
  <2> USE DEF STDIN_FILENO, STDOUT_FILENO
  <2>1. fd = Redirected /\ (ifd = 0 \/ ifd = 5) /\ (ofd = 1 \/ ofd = 5 \/ ofd = 6)
    BY <1>1 DEF DescriptorsInv
  <2>2. ASSUME ppc = "read"
        PROVE  fd = StartingFds
    <3>1. ifd = 0 /\ ofd = 1
      BY <1>1, <2>2 DEF DescriptorsInv
    <3>2. StartingFds = [m \in 0..6 |-> StartingFds[m]]
      BY DEF StartingFds
    <3>3. Redirected = [m \in 0..6 |-> StartingFds[m]]
      BY <3>1 DEF Redirected
    <3> QED
      BY <2>1, <3>2, <3>3
  <2>3. ASSUME ppc = "run"
        PROVE  /\ fd[0] = IF "input_file" \in served THEN "input_file" ELSE "terminal_in"
               /\ fd[1] = IF "output_file" \in served THEN "output_file" ELSE "terminal_out"
               /\ served \subseteq {w \in {"input_file", "output_file"} :
                                      IF w = "input_file" THEN Inputs # {} ELSE Outputs # {}}
    <3>1. /\ "input_file" \in served <=> ifd # 0
          /\ "output_file" \in served <=> ofd # 1
          /\ ifd # 0 => iflag # 0
          /\ ofd # 1 => oflag # 0
          /\ served \subseteq {"input_file", "output_file"}
      BY <1>1, <2>3 DEF DescriptorsInv
    <3>2. fd[0] = IF ifd # 0 THEN "input_file" ELSE "terminal_in"
      <4>1. fd[0] = IF ifd # 0 THEN "input_file" ELSE StartingFds[0]
        BY <2>1 DEF Redirected
      <4> QED
        BY <4>1, StartingFdsAre
    <3>3. fd[1] = IF ofd # 1 THEN "output_file" ELSE "terminal_out"
      <4>1. fd[1] = IF ofd # 1 THEN "output_file" ELSE StartingFds[1]
        BY <2>1 DEF Redirected
      <4> QED
        BY <4>1, StartingFdsAre
    <3>4. (iflag # 0 => Inputs # {}) /\ (oflag # 0 => Outputs # {})
      BY <1>1 DEF ParseInv, FlagsSeen
    <3> QED
      BY <3>1, <3>2, <3>3, <3>4
  <2> QED
    BY <2>2, <2>3 DEF DescriptorsRestored
<1>2. SimpleShellInv => DescriptorsRestored
  BY <1>1 DEF SimpleShellInv
<1> QED
  BY <1>2, SimpleShellInvariance, PTL
==============================================================================
