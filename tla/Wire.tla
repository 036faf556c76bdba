-------------------------------- MODULE Wire ---------------------------------
(***************************************************************************)
(* The client program of src/database/client.c on its connection with a    *)
(* client thread of the server (comm_serve of comm.c and the loop around   *)
(* it in server.c).  Both ends read with fgets, into buffers of different  *)
(* sizes.  A text is a sequence of units, each some characters of a line,  *)
(* its newline, or the EOF character; a unit knows the line it belongs to. *)
(***************************************************************************)
EXTENDS Integers, Sequences

CONSTANTS
    LineLengths,   \* units of the script's lines, newlines not counted
    MaxLines,      \* bound: lines of the script
    QBUF,          \* units that fit the client's buffer: BUFSIZE
    CBUF           \* units that fit the server's: BUFLEN

ASSUME WireBounds ==
    /\ LineLengths \subseteq Nat /\ MaxLines \in Nat
    /\ QBUF \in Nat \ {0} /\ CBUF \in Nat \ {0} /\ CBUF <= QBUF

VARIABLES
    wpc,        \* "none", "script", "response", "terminated" or "disconnected"
    infile,     \* what the client has not read of its script
    qbuf,       \* the client's buffer
    upstream,   \* sent by the client, not yet read by the server
    spc,        \* the server's thread: "serve", "read", "interpret" or "ended"
    response,   \* the server's buffer: the line it answers, 0 when empty
    downstream, \* responses sent, not yet read by the client
    \* history: pieces the client has sent, and the line that the last response
    \* it printed was for
    sent, printed

wire == <<wpc, infile, qbuf, upstream, spc, response, downstream, sent, printed>>

WireInit ==
    /\ wpc = "none" /\ infile = <<>> /\ qbuf = <<>> /\ upstream = <<>>
    /\ spc = "serve" /\ response = 0 /\ downstream = <<>>
    /\ sent = <<>> /\ printed = 0

Unit(k, char) == [line |-> k, char |-> char]
LineText(k, n) == [i \in 1..(n + 1) |-> Unit(k, IF i > n THEN "newline" ELSE "text")]
Script(lengths) ==
    LET text[k \in 0..Len(lengths)] ==
          IF k = 0 THEN <<>> ELSE text[k - 1] \o LineText(k, lengths[k])
    IN text[Len(lengths)]

\* What fgets takes: up to the newline, to the end of the buffer, or to the end
\* of a stream that the other side has closed.  0 units: it has to wait.
Taken(stream, capacity, closed) ==
    LET ends == {k \in DOMAIN stream : stream[k].char = "newline" \/ k = capacity
                                         \/ (closed /\ k = Len(stream))}
    IN IF ends = {} THEN 0 ELSE CHOOSE k \in ends : \A j \in ends : k <= j
Drop(stream, n) == SubSeq(stream, n + 1, Len(stream))

Closed == wpc \in {"terminated", "disconnected"}
ServerWaits == spc = "read" /\ ~Closed /\ Taken(upstream, CBUF, FALSE) = 0

------------------------------------------------------------------------------
(* client.c *)

\* The last line of a script may lack its newline.
create_occurence ==
    /\ wpc = "none"
    /\ \E lengths \in UNION {[1..n -> LineLengths] : n \in 0..MaxLines} :
         \/ infile' = Script(lengths)
         \/ /\ lengths # <<>> /\ lengths[Len(lengths)] > 0
            /\ infile' = SubSeq(Script(lengths), 1, Len(Script(lengths)) - 1)
    /\ wpc' = "script"
    /\ UNCHANGED <<qbuf, upstream, spc, response, downstream, sent, printed>>

send_command ==
    /\ wpc = "script" /\ infile # <<>>
    /\ qbuf' = SubSeq(infile, 1, Taken(infile, QBUF, TRUE))
    /\ infile' = Drop(infile, Taken(infile, QBUF, TRUE))
    /\ upstream' = upstream \o qbuf'
    /\ sent' = Append(sent, qbuf')
    /\ wpc' = "response"
    /\ UNCHANGED <<spc, response, downstream, printed>>

\* fputs fails once the server has closed the connection.
send_fails ==
    /\ wpc = "script" /\ infile # <<>> /\ spc = "ended"
    /\ wpc' = "disconnected"
    /\ UNCHANGED <<infile, qbuf, upstream, spc, response, downstream, sent, printed>>

\* No more commands: EOF overwrites the first character of the last one.
send_eof ==
    /\ wpc = "script" /\ infile = <<>>
    /\ upstream' = upstream \o (IF qbuf = <<>> THEN <<Unit(0, "EOF")>>
                                ELSE <<Unit(0, "EOF")>> \o Tail(qbuf))
    /\ wpc' = "terminated"
    /\ UNCHANGED <<infile, qbuf, spc, response, downstream, sent, printed>>

receive_response ==
    /\ wpc = "response" /\ downstream # <<>>
    /\ printed' = Head(downstream)
    /\ downstream' = Tail(downstream)
    /\ wpc' = "script"
    /\ UNCHANGED <<infile, qbuf, upstream, spc, response, sent>>

\* A connection closed with commands unread may lose responses.
connection_terminated ==
    /\ wpc = "response" /\ spc = "ended"
    /\ downstream = <<>> \/ upstream # <<>>
    /\ wpc' = "disconnected"
    /\ UNCHANGED <<infile, qbuf, upstream, spc, response, downstream, sent, printed>>

------------------------------------------------------------------------------
(* The server's thread *)

\* Mutation: the response is sent on the first call too.
reply_always ==
    /\ wpc # "none" /\ spc = "serve"
    /\ downstream' = IF Closed THEN downstream ELSE Append(downstream, response)
    /\ spc' = "read"
    /\ UNCHANGED <<wpc, infile, qbuf, upstream, response, sent, printed>>

\* comm_serve: the response to the last command goes out, unless it is empty; it
\* may fail when the client is gone.
comm_serve_reply ==
    /\ wpc # "none" /\ spc = "serve"
    /\ downstream' = IF response = 0 \/ Closed THEN downstream
                     ELSE Append(downstream, response)
    /\ spc' \in {"read"} \cup (IF response # 0 /\ Closed THEN {"ended"} ELSE {})
    /\ UNCHANGED <<wpc, infile, qbuf, upstream, response, sent, printed>>

\* ... then the next command comes in.  Its first character may be EOF.
comm_serve_read ==
    LET n == Taken(upstream, CBUF, Closed) IN
    /\ spc = "read" /\ n > 0
    /\ upstream' = Drop(upstream, n)
    /\ IF Head(upstream).char = "EOF"
       THEN spc' = "ended" /\ UNCHANGED response
       ELSE spc' = "interpret" /\ response' = Head(upstream).line
    /\ UNCHANGED <<wpc, infile, qbuf, downstream, sent, printed>>

comm_serve_disconnected ==
    /\ spc = "read" /\ upstream = <<>> /\ Closed
    /\ spc' = "ended"
    /\ UNCHANGED <<wpc, infile, qbuf, upstream, response, downstream, sent, printed>>

\* interpret_command always writes a response.
interpreted ==
    /\ spc = "interpret"
    /\ spc' = "serve"
    /\ UNCHANGED <<wpc, infile, qbuf, upstream, response, downstream, sent, printed>>

\* SIGINT: the thread is cancelled where it waits or after its command.
server_cancelled ==
    /\ ServerWaits \/ spc = "serve"
    /\ wpc # "none"
    /\ spc' = "ended"
    /\ UNCHANGED <<wpc, infile, qbuf, upstream, response, downstream, sent, printed>>

WireNext ==
    \/ create_occurence \/ send_command \/ send_fails \/ send_eof
    \/ receive_response \/ connection_terminated
    \/ comm_serve_reply \/ comm_serve_read \/ comm_serve_disconnected
    \/ interpreted \/ server_cancelled

WireSpec == WireInit /\ [][WireNext]_wire

------------------------------------------------------------------------------
Last(s) == s[Len(s)]

\* The client waits for a response, the server for the rest of the command.
Hung == wpc = "response" /\ downstream = <<>> /\ ServerWaits

WireEnded == (Closed /\ spc = "ended") \/ Hung

Short(piece) == Len(piece) <= CBUF /\ Last(piece).char = "newline"

\* One response for each command: as long as every line fits the server's buffer,
\* the client prints after each line the response to that line, and when it
\* reads the next line nothing is under way.  Client and server wait for each
\* other only over a last line without newline.
WireInStep ==
    /\ wpc = "script" /\ sent # <<>> /\ (\A i \in DOMAIN sent : Short(sent[i])) =>
         printed = Last(sent)[1].line /\ upstream = <<>> /\ downstream = <<>>
    /\ Hung => infile = <<>> /\ Last(Last(sent)).char # "newline"

------------------------------------------------------------------------------
(* The inductive invariant behind WireInStep *)

ScriptUnit == [line : Nat \ {0}, char : {"text", "newline"}]

WireTypeOK ==
    /\ wpc \in {"none", "script", "response", "terminated", "disconnected"}
    /\ spc \in {"serve", "read", "interpret", "ended"}
    /\ infile \in Seq(ScriptUnit) /\ qbuf \in Seq(ScriptUnit)
    /\ upstream \in Seq(ScriptUnit \cup {Unit(0, "EOF")})
    /\ response \in Nat /\ downstream \in Seq(Nat) /\ printed \in Nat
    /\ sent \in Seq(Seq(ScriptUnit))

\* The client's buffer holds the last piece sent: a line or its rest, with no
\* newline but at its end, or as much as fits, or the end of the script.
LastPiece ==
    /\ qbuf = <<>> <=> sent = <<>>
    /\ sent # <<>> =>
         /\ qbuf = Last(sent)
         /\ \A i \in 1..(Len(qbuf) - 1) : qbuf[i].char # "newline"
         /\ infile = <<>> \/ Last(qbuf).char = "newline" \/ Len(qbuf) = QBUF

\* As long as the server owes no response, it has read nothing since the last
\* piece was sent.
Owes == \/ spc = "interpret" \/ (spc = "serve" /\ response # 0)
        \/ downstream # <<>>
UnreadPiece ==
    /\ wpc # "terminated" => upstream \in Seq(ScriptUnit)
    /\ wpc = "none" => sent = <<>>
    /\ wpc = "response" =>
         /\ sent # <<>>
         /\ ~Owes /\ spc # "ended" =>
              Len(upstream) >= Len(qbuf) /\ Last(upstream) = Last(qbuf)
    /\ spc = "interpret" => response # 0

\* With lines that fit the server's buffer the last piece, or its response, is in
\* one place.
Asked == qbuf[1].line
OneUnderWay ==
    /\ sent = <<>> =>
         /\ upstream \in {<<>>, <<Unit(0, "EOF")>>}
         /\ downstream = <<>> /\ response = 0
    /\ sent # <<>> /\ (\A i \in DOMAIN sent : Short(sent[i])) =>
         /\ wpc = "script" =>
              /\ printed = Asked /\ upstream = <<>> /\ downstream = <<>>
              /\ spc \in {"read", "ended"}
         /\ wpc = "response" =>
              \/ /\ upstream = qbuf /\ downstream = <<>>
                 /\ spc \in {"read", "ended"} \/ (spc = "serve" /\ response = 0)
              \/ /\ upstream = <<>> /\ downstream = <<>> /\ response = Asked
                 /\ spc \in {"interpret", "serve", "ended"}
              \/ /\ upstream = <<>> /\ downstream = <<Asked>>
                 /\ spc \in {"read", "ended"}

\* All of it: what client and server hold and what is on its way between them fit
\* together after every fgets, fprintf and fputs of either.
WireInv == WireTypeOK /\ LastPiece /\ UnreadPiece /\ OneUnderWay
==============================================================================
