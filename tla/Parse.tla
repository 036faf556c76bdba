-------------------------------- MODULE Parse --------------------------------
(***************************************************************************)
(* The parsers of the two shells, src/shell_1/sh.c and                     *)
(* src/shell_2/parse.c.  White space has been turned into null characters, *)
(* so a line is a sequence of strings; of a string only matters which      *)
(* symbol it is, if any.  The second shell also knows & at the end of a    *)
(* line, and rejects a symbol for a file name after >>.                    *)
(*                                                                         *)
(* External assumption: the bytes of the buffer after the line are null.   *)
(***************************************************************************)
EXTENDS Integers, Sequences

CONSTANT MaxTokens   \* bound: strings of a line

ASSUME TokensBound == MaxTokens \in Nat

Symbols == {">", ">>", "<"}
Strings == Symbols \cup {"&", "word"}
Lines == UNION {[1..n -> Strings] : n \in 0..MaxTokens}

VARIABLES
    sh,      \* which shell: 1 or 2
    ppc,     \* "none", "read", "parse", "parsed", "rejected" or a step of repl
    line,    \* the strings of the line
    c,       \* the string looked at; Len(line) + 1 is the null after the last
    argc,    \* the places saved so far; its length is index
    narg, iflag, oflag, aflag,
    iname, oname    \* the places of the file names, 0 if none

parser == <<sh, ppc, line, c, argc, narg, iflag, oflag, aflag, iname, oname>>

ParserInit ==
    /\ sh = 1 /\ ppc = "none" /\ line = <<>> /\ c = 0 /\ argc = <<>> /\ narg = 0
    /\ iflag = 0 /\ oflag = 0 /\ aflag = 0 /\ iname = 0 /\ oname = 0

StrAt(i) == IF i > Len(line) THEN "" ELSE line[i]
find_next(i) == IF i > Len(line) THEN i ELSE i + 1

\* A line arrives; the flags and narg are those repl passes in, and narg counts
\* the strings.
parse_start ==
    /\ ppc = "read"
    /\ line' \in Lines
    /\ narg' = Len(line') /\ c' = 1 /\ argc' = <<>>
    /\ iflag' = 0 /\ oflag' = 0 /\ aflag' = 0 /\ iname' = 0 /\ oname' = 0
    /\ ppc' = IF line' = <<>> THEN "rejected" ELSE "parse"
    /\ UNCHANGED sh

\* Mutation: any & is taken for the one at the end.
any_ampersand == sh = 2 /\ StrAt(c) = "&"

trailing_ampersand == sh = 2 /\ StrAt(c) = "&" /\ Len(argc) + 1 = narg

\* The string the round works on: after an & it is the next one.
place == IF trailing_ampersand THEN find_next(c) ELSE c

\* A file name that the checks for redirection symbols refuse: those after > and
\* <, and in the first shell all of them, ask for all three symbols at once.
refused(symbol, name) ==
    name = "" \/ (sh = 2 /\ symbol = ">>" /\ name \in Symbols)

Parsing == ppc = "parse" /\ StrAt(c) # ""
Ampersand ==
    /\ aflag' = IF trailing_ampersand THEN aflag + 1 ELSE aflag
    /\ UNCHANGED <<sh, line>>
\* narg after the & and after n strings that are not arguments.
Takes(n) == narg' = narg - n - (IF trailing_ampersand THEN 1 ELSE 0)

\* Mutation: >> truncates like >.
truncates(symbol) == 1

\* The flag that tells redir to truncate the file or to append to it.
output_flag(symbol) == IF symbol = ">>" THEN 2 ELSE 1

parse_output ==
    /\ Parsing /\ StrAt(place) \in {">", ">>"}
    /\ IF oflag # 0
       THEN /\ ppc' = "rejected"
            /\ Takes(0)
            /\ UNCHANGED <<c, oflag, oname>>
       ELSE LET file == find_next(place) IN
            /\ oflag' = output_flag(StrAt(place))
            /\ Takes(2)
            /\ oname' = file
            /\ c' = find_next(file)
            /\ ppc' = IF refused(StrAt(place), StrAt(file)) THEN "rejected" ELSE "parse"
    /\ Ampersand
    /\ UNCHANGED <<argc, iflag, iname>>

parse_input ==
    /\ Parsing /\ StrAt(place) = "<"
    /\ IF iflag # 0
       THEN /\ ppc' = "rejected"
            /\ Takes(0)
            /\ UNCHANGED <<c, iflag, iname>>
       ELSE LET file == find_next(place) IN
            /\ iflag' = 3
            /\ Takes(2)
            /\ iname' = file
            /\ c' = find_next(file)
            /\ ppc' = IF refused("<", StrAt(file)) THEN "rejected" ELSE "parse"
    /\ Ampersand
    /\ UNCHANGED <<argc, oflag, oname>>

\* Any other string, the empty one after a trailing & included, is saved.
parse_argument ==
    /\ Parsing /\ StrAt(place) \notin Symbols
    /\ argc' = Append(argc, place)
    /\ Takes(0)
    /\ c' = find_next(place)
    /\ Ampersand
    /\ UNCHANGED <<ppc, iflag, oflag, iname, oname>>

parse_end ==
    /\ ppc = "parse" /\ StrAt(c) = ""
    /\ ppc' = "parsed"
    /\ UNCHANGED <<sh, line, c, argc, narg, iflag, oflag, aflag, iname, oname>>

ParseNext == parse_start \/ parse_output \/ parse_input \/ parse_argument \/ parse_end

------------------------------------------------------------------------------
(* The same, said of the whole line *)

\* A symbol is an operator unless the operator before it takes it for a name: of
\* the symbols in a row the first is one, the third and so on.
Row(j, i) == \A k \in j..i : line[k] \in Symbols
Operators ==
    {i \in DOMAIN line : \E j \in 1..i : /\ Row(j, i) /\ (i - j) % 2 = 0
                                         /\ j > 1 => line[j - 1] \notin Symbols}
Inputs == {i \in Operators : line[i] = "<"}
Outputs == Operators \ Inputs
FileNames == {i + 1 : i \in Operators}
Background == sh = 2 /\ StrAt(Len(line)) = "&" /\ Len(line) \notin FileNames
Arguments ==
    (DOMAIN line) \ (Operators \cup FileNames
                       \cup (IF Background THEN {Len(line)} ELSE {}))
AtMostOne(S) == \A i, j \in S : i = j
WellFormed ==
    /\ line # <<>>
    /\ AtMostOne(Inputs) /\ AtMostOne(Outputs)
    /\ FileNames \subseteq DOMAIN line
    /\ sh = 2 => \A i \in Outputs : line[i] = ">>" => line[i + 1] \notin Symbols

\* "narg: the number of arguments in the parsed string", "argc: a list of the
\* arguments index in str": parse accepts a line exactly when each redirection
\* has a name of its own and occurs once, and what it hands to repl is what the
\* line says, however narg and index were corrected on the way: the arguments in
\* order, the files, whether the output file is truncated (1) or appended to (2),
\* and whether to wait.
ParseExact ==
    /\ ppc = "parsed" =>
         /\ WellFormed
         /\ narg \in 0..Len(argc) /\ Arguments = {argc[i] : i \in 1..narg}
         /\ \A i, j \in 1..narg : i < j => argc[i] < argc[j]
         /\ aflag = IF Background THEN 1 ELSE 0
         /\ iflag = IF Inputs = {} THEN 0 ELSE 3
         /\ Outputs = {} => oflag = 0
         /\ \A i \in Outputs : oflag = IF line[i] = ">>" THEN 2 ELSE 1
         /\ {i \in {iname} : i # 0} = {i + 1 : i \in Inputs}
         /\ {i \in {oname} : i # 0} = {i + 1 : i \in Outputs}
    /\ ppc = "rejected" => ~WellFormed

------------------------------------------------------------------------------
(* The inductive invariant behind ParseExact *)

ParseTypeOK ==
    /\ sh \in {1, 2} /\ line \in Seq(Strings) /\ argc \in Seq(Nat)
    /\ c \in Nat /\ narg \in Int /\ aflag \in {0, 1}
    /\ iflag \in {0, 3} /\ oflag \in {0, 1, 2} /\ iname \in Nat /\ oname \in Nat

\* The operators that parse has passed are the ones its flags and names stand for.
Passed(flag, name) == IF flag = 0 THEN {} ELSE {name - 1}
FlagOfOutput == oflag # 0 => oflag = IF line[oname - 1] = ">>" THEN 2 ELSE 1
FlagsSeen ==
    /\ iflag # 0 => iname - 1 \in Inputs
    /\ oflag # 0 => oname - 1 \in Outputs
    /\ FlagOfOutput
    /\ iflag = 0 => iname = 0
    /\ oflag = 0 => oname = 0
    /\ ppc \in {"parse", "parsed"} =>
         /\ Operators \cap (1..(c - 1)) = Passed(iflag, iname) \cup Passed(oflag, oname)
         /\ iflag # 0 => iname \in DOMAIN line /\ iname < c
         /\ oflag # 0 => oname \in DOMAIN line /\ oname < c
         /\ oflag # 0 /\ sh = 2 /\ line[oname - 1] = ">>" => line[oname] \notin Symbols

\* Two strings of the line are spent on each redirection, one on the trailing &,
\* and the others are saved in their order; the round of the & saves one place
\* too many, which narg does not count.
Spent == (IF iflag = 0 THEN 0 ELSE 2) + (IF oflag = 0 THEN 0 ELSE 2)
ArgumentsSeen ==
    ppc \in {"parse", "parsed"} =>
      /\ line # <<>> /\ c \in 1..(Len(line) + 1) /\ c - 1 \notin Operators
      /\ narg = Len(line) - Spent - aflag
      /\ Len(argc) = c - 1 - Spent /\ aflag <= Len(argc)
      /\ aflag = 1 => Background /\ c = Len(line) + 1
      /\ Background /\ c = Len(line) + 1 => aflag = 1
      /\ {argc[i] : i \in 1..(Len(argc) - aflag)} = Arguments \cap (1..(c - 1))
      /\ \A i, j \in 1..(Len(argc) - aflag) : i < j => argc[i] < argc[j]

\* The loop invariant of parse.
ParseInv ==
    /\ ParseTypeOK /\ FlagsSeen /\ ArgumentsSeen
    /\ ppc = "parsed" => c = Len(line) + 1
    /\ ppc = "rejected" => ~WellFormed
==============================================================================
