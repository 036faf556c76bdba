------------------------------ MODULE StringLib ------------------------------
(***************************************************************************)
(* The string functions of src/stringsperf/strings/strings.c.  Memory is a *)
(* function from addresses to characters, 0 the null character; a pointer  *)
(* is an address, NULL is -1.  A second argument that is only searched     *)
(* (accept, reject, delim) is the set of its characters; needle and s2 are *)
(* sequences.  strtok keeps rem from call to call and writes into the      *)
(* string, so it is an action; the others are operators.                   *)
(***************************************************************************)
EXTENDS Integers, Sequences

CONSTANTS
    Chars,       \* characters of the strings, all positive
    MaxLength,   \* bound: the length of a string
    MaxCalls     \* bound: calls of strtok

ASSUME StringsBound == MaxLength \in Nat /\ MaxCalls \in Nat /\ Chars \subseteq 1..127

VARIABLES
    mem,       \* the array passed to strtok and to the other functions
    needle,    \* the second argument of strncmp and strstr
    rem,       \* the static variable of strtok
    calls,     \* history: of each call of strtok, its delimiters and its result
    original   \* history: the string before the first call

strings == <<mem, needle, rem, calls, original>>

NULL == -1
Words(n) == UNION {[1..k -> Chars] : k \in 0..n}
CString(w) == [i \in 0..Len(w) |-> IF i = Len(w) THEN 0 ELSE w[i + 1]]
CharAt(w, i) == IF i > Len(w) THEN 0 ELSE w[i]

\* The last address of the array.
End == Len(original)

------------------------------------------------------------------------------
(* Each loop is a function of its counter, which stops at the null at the latest *)

strlen(s) ==
    LET length[i \in 0..(End - s)] == IF mem[s + i] = 0 THEN i ELSE length[i + 1]
    IN length[0]

strspn(s, accept) ==
    LET span[i \in 0..(End - s)] ==
          IF mem[s + i] = 0 \/ mem[s + i] \notin accept THEN i ELSE span[i + 1]
    IN span[0]

strcspn(s, reject) ==
    LET span[i \in 0..(End - s)] ==
          IF mem[s + i] = 0 \/ mem[s + i] \in reject THEN i ELSE span[i + 1]
    IN span[0]

\* i characters have been found equal; s2 may end first, and then differs.
strncmp(s1, s2, n) ==
    LET compare[i \in 0..(End - s1)] ==
          IF i = n THEN 0
          ELSE IF mem[s1 + i] = 0 \/ mem[s1 + i] # CharAt(s2, i + 1)
               THEN mem[s1 + i] - CharAt(s2, i + 1)
               ELSE compare[i + 1]
    IN compare[0]

\* An empty needle is not found.
strstr(haystack, s2) ==
    LET from[i \in 0..(End - haystack)] ==
          IF mem[haystack + i] = 0 THEN NULL
          ELSE IF strncmp(haystack + i, s2, Len(s2)) = 0 THEN haystack + i
               ELSE from[i + 1]
    IN IF Len(s2) = 0 THEN NULL ELSE from[0]

\* Mutation: the rest starts with the delimiter that was overwritten.
rest_at_null(end) == IF mem[end] # 0 THEN end ELSE NULL

\* Mutation: the next call begins with the string again.
rest_again(end) == IF mem[end] # 0 THEN 0 ELSE NULL

\* Where the next call goes on: after the delimiter, or nowhere.
rest_after(end) == IF mem[end] # 0 THEN end + 1 ELSE NULL

\* strtok(str, delim), where str is an address or NULL.
strtok(str, delim) ==
    IF str = NULL /\ rem = NULL
    THEN /\ calls' = Append(calls, [delim |-> delim, start |-> NULL, end |-> NULL])
         /\ UNCHANGED <<mem, rem>>
    ELSE LET begin == IF str # NULL THEN str ELSE rem
             start == begin + strspn(begin, delim)
             end == start + strcspn(start, delim)
         IN IF end = start
            THEN /\ rem' = end
                 /\ calls' = Append(calls, [delim |-> delim, start |-> NULL, end |-> NULL])
                 /\ UNCHANGED mem
            ELSE /\ rem' = rest_after(end)
                 /\ mem' = [mem EXCEPT ![end] = 0]
                 /\ calls' = Append(calls, [delim |-> delim, start |-> start, end |-> end])

StringsInit ==
    /\ mem = <<>> /\ needle = <<>> /\ rem = NULL /\ calls = <<>> /\ original = <<>>

\* A program has a string and a word to compare with it.
strings_given ==
    /\ mem = <<>>
    /\ original' \in Words(MaxLength) /\ needle' \in Words(MaxLength - 1)
    /\ mem' = CString(original')
    /\ UNCHANGED <<rem, calls>>

\* It takes the string to pieces; the delimiters may differ from call to call.
strtok_first ==
    /\ mem # <<>> /\ calls = <<>> /\ needle = <<>>
    /\ \E delim \in SUBSET Chars : strtok(0, delim)
    /\ UNCHANGED <<needle, original>>

strtok_again ==
    /\ calls # <<>> /\ Len(calls) < MaxCalls
    /\ \E delim \in SUBSET Chars : strtok(NULL, delim)
    /\ UNCHANGED <<needle, original>>

StringsNext == strings_given \/ strtok_first \/ strtok_again

StringsSpec == StringsInit /\ [][StringsNext]_strings

StringsEnded == mem # <<>> /\ (needle # <<>> \/ Len(calls) = MaxCalls)

------------------------------------------------------------------------------
(* What the functions promise *)

\* The first n characters of s, or all of them.
Prefix(s, n) == SubSeq(s, 1, IF n < Len(s) THEN n ELSE Len(s))

\* Lexicographic order, a word before its continuations.
Before(u, v) ==
    \E k \in 1..Len(v) :
       /\ Len(u) >= k - 1 /\ SubSeq(u, 1, k - 1) = SubSeq(v, 1, k - 1)
       /\ CharAt(u, k) < v[k]

Occurs(i) ==
    i \in 0..(End - Len(needle)) /\ SubSeq(original, i + 1, i + Len(needle)) = needle

\* The address of the first occurrence, or NULL.
Found(address) ==
    IF \E i \in 0..End : Occurs(i)
    THEN Occurs(address) /\ \A i \in 0..(address - 1) : ~Occurs(i)
    ELSE address = NULL

Compared ==
    /\ strlen(0) = Len(original)
    /\ \A n \in 0..(MaxLength + 1) :
         LET u == Prefix(original, n)
             v == Prefix(needle, n)
         IN /\ strncmp(0, needle, n) < 0 <=> Before(u, v)
            /\ strncmp(0, needle, n) > 0 <=> Before(v, u)
    /\ needle # <<>> => Found(strstr(0, needle))

\* The characters of the string from address a up to address b.
Between(a, b) == {original[i + 1] : i \in a..(b - 1)}

\* Where call k started to look: after the delimiter that ended the last token
\* found before it, or at the end when a call found nothing.
LookedFrom(k) ==
    LET from[j \in 1..k] ==
          IF j = 1 THEN 0
          ELSE IF calls[j - 1].start = NULL \/ calls[j - 1].end = End THEN End
          ELSE calls[j - 1].end + 1
    IN from[k]

Tokenized ==
    \A k \in DOMAIN calls :
       LET call == calls[k] IN
       IF call.start = NULL
       THEN /\ Between(LookedFrom(k), End) \subseteq call.delim
            /\ k < Len(calls) => calls[k + 1].start = NULL
       ELSE /\ LookedFrom(k) <= call.start /\ call.start < call.end /\ call.end <= End
            /\ Between(LookedFrom(k), call.start) \subseteq call.delim
            /\ Between(call.start, call.end) \cap call.delim = {}
            /\ call.end = End \/ original[call.end + 1] \in call.delim
            \* the token can still be read where the call said
            /\ \A i \in call.start..(call.end - 1) : mem[i] = original[i + 1]
            /\ mem[call.end] = 0

\* strncmp orders the first n characters as a dictionary does and strstr finds
\* the first occurrence of a needle that is not empty, also at the end of the
\* string (an empty one it answers with NULL, where the C library gives the
\* start); successive calls of strtok, whatever their delimiters, return all the
\* tokens of the string in order, each once, then NULL for good, and what an
\* earlier call returned stays readable ("This function must save its state
\* between calls").
StringsCorrect ==
    mem # <<>> => (calls = <<>> => Compared) /\ Tokenized
==============================================================================
