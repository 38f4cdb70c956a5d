----------------------------- MODULE ByteStream -----------------------------
(***************************************************************************)
(* What the robust I/O package promises on one connection: every call is a *)
(* single step that takes the next bytes of the client's stream, or adds   *)
(* one whole buffer to the answer, however the kernel cuts both up.        *)
(***************************************************************************)
EXTENDS Integers, Sequences, SequencesExt, FiniteSetsExt

CONSTANTS
    Bytes,      \* what the client sends
    Newline,    \* the byte that ends a line
    LineSizes,  \* the sizes of buffers lines are read into, their last 0 included
    BlockSizes, \* the numbers of bytes asked for at once
    Messages    \* the buffers that are written

VARIABLES
    in,     \* what the client has sent
    closed, \* the client sends no more
    taken,  \* how many bytes of it the caller was given
    usrbuf, \* the string in the buffer of the caller of rio_readlineb
    block,  \* the bytes the last rio_readnb or rio_readn gave
    ret,    \* what the last call returned
    out,    \* what the server has written
    alive   \* no wrapper has ended the process

vars == <<in, closed, taken, usrbuf, block, ret, out, alive>>

Init ==
    /\ in = << >> /\ closed = FALSE /\ taken = 0
    /\ usrbuf = << >> /\ block = << >> /\ ret = 0
    /\ out = << >> /\ alive = TRUE

Rest == SubSeq(in, taken + 1, Len(in))

\* The length of the first line of s, its newline included, or of s without one.
LineLength(s) == IF Contains(s, Newline) THEN SelectInSeq(s, LAMBDA b : b = Newline)
                 ELSE Len(s)

Send(b) == /\ ~closed /\ in' = Append(in, b)
           /\ UNCHANGED <<closed, taken, usrbuf, block, ret, out, alive>>

Close == /\ ~closed /\ closed' = TRUE
         /\ UNCHANGED <<in, taken, usrbuf, block, ret, out, alive>>

\* A line that does not end in a newline, because the buffer or the stream ended,
\* is counted with the 0 behind it; at the end of the stream the buffer is left alone.
Line(maxlen) ==
    LET k == Min({LineLength(Rest), maxlen - 1})
        line == SubSeq(Rest, 1, k)
    IN  /\ alive
        /\ k = maxlen - 1 \/ Contains(line, Newline) \/ closed
        /\ taken' = taken + k
        /\ usrbuf' = IF k = 0 /\ maxlen > 1 THEN usrbuf ELSE line
        /\ ret' = CASE Contains(line, Newline) -> k
                    [] k = 0 /\ maxlen > 1     -> 0
                    [] OTHER                   -> k + 1
        /\ UNCHANGED <<in, closed, block, out, alive>>

Block(n) ==
    LET k == Min({Len(Rest), n})
    IN  /\ alive
        /\ k = n \/ closed
        /\ taken' = taken + k /\ block' = SubSeq(Rest, 1, k) /\ ret' = k
        /\ UNCHANGED <<in, closed, usrbuf, out, alive>>

Write(message) ==
    /\ alive
    /\ out' = out \o message /\ ret' = Len(message)
    /\ UNCHANGED <<in, closed, taken, usrbuf, block, alive>>

\* A call fails and its wrapper ends the process; nothing more is given to anybody,
\* but a part of the message may be on its way.
Fail ==
    /\ alive /\ alive' = FALSE
    /\ ret' = -1
    /\ \/ out' = out
       \/ \E message \in Messages : \E k \in 1..(Len(message) - 1) :
             out' = out \o SubSeq(message, 1, k)
    /\ UNCHANGED <<in, closed, taken, usrbuf, block>>

Next ==
    \/ \E b \in Bytes : Send(b)
    \/ Close
    \/ \E m \in LineSizes : Line(m)
    \/ \E n \in BlockSizes : Block(n)
    \/ \E message \in Messages : Write(message)
    \/ Fail

Spec == Init /\ [][Next]_vars
=============================================================================
