-------------------------------- MODULE Rio --------------------------------
(***************************************************************************)
(* HW3Wet/segel.c, the robust I/O package, on one connection.              *)
(*                                                                         *)
(* The kernel cuts the streams into pieces of any size, interrupts calls   *)
(* with EINTR and may fail them; the client sends and closes when it likes.*)
(* A thread makes any sequence of calls.  A descriptor is read either      *)
(* through a rio_t or directly, never both ways.                           *)
(*                                                                         *)
(* A failed call ends the process: its wrapper calls unix_error, which     *)
(* calls exit.                                                             *)
(***************************************************************************)
EXTENDS Integers, Sequences, SequencesExt, FiniteSetsExt

CONSTANTS
    Bytes, Newline, LineSizes, BlockSizes, Messages,
    Unset,       \* what an uninitialized byte of the buffer holds
    RIO_BUFSIZE,
    MaxIn,       \* bound on the bytes the client sends
    MaxOut       \* bound on the bytes the server writes

ASSUME SizesAssumption ==
    /\ RIO_BUFSIZE \in Nat \ {0} /\ MaxIn \in Nat /\ MaxOut \in Nat
    /\ LineSizes \subseteq Nat \ {0} /\ BlockSizes \subseteq Nat
ASSUME BytesAssumption == Newline \in Bytes /\ Unset \notin Bytes /\ Messages \subseteq Seq(Bytes)

VARIABLES
    in, closed, \* the client's side
    kpos,       \* how many bytes of "in" the kernel has given to read
    buffered,   \* the descriptor is read through the rio_t
    rio_cnt, rio_bufptr, rio_buf, \* the rio_t; rio_bufptr is an index into rio_buf
    op,         \* the call under way: none, line, readnb, readn or writen
    size,       \* its maxlen or n
    data,       \* bytes it has read so far; of writen the buffer
    nleft,      \* bytes of the buffer that writen has still to write
    taken, usrbuf, block, ret, \* bytes consumed and results, by the calls that returned
    out,        \* what the kernel has accepted from the server
    alive

client == <<in, closed>>
rio == <<rio_cnt, rio_bufptr, rio_buf>>
results == <<taken, usrbuf, block, ret, alive>>
vars == <<in, closed, kpos, buffered, rio_cnt, rio_bufptr, rio_buf, op, size, data,
          nleft, taken, usrbuf, block, ret, out, alive>>

\* rio_readinitb: empties the buffer, without writing to it.
rio_readinitb ==
    rio_cnt = 0 /\ rio_bufptr = 1 /\ rio_buf = [i \in 1..RIO_BUFSIZE |-> Unset]

Init ==
    /\ in = << >> /\ closed = FALSE /\ kpos = 0
    /\ buffered \in BOOLEAN
    /\ rio_readinitb
    /\ op = "none" /\ size = 0 /\ data = << >> /\ nleft = 0
    /\ taken = 0 /\ usrbuf = << >> /\ block = << >> /\ ret = 0
    /\ out = << >> /\ alive = TRUE

(***************************************************************************)
(* The client.                                                             *)
(***************************************************************************)
Send(b) ==
    /\ ~closed /\ Len(in) < MaxIn
    /\ in' = Append(in, b)
    /\ UNCHANGED <<closed, kpos, buffered, rio, op, size, data, nleft, results, out>>

Close ==
    /\ ~closed /\ closed' = TRUE
    /\ UNCHANGED <<in, kpos, buffered, rio, op, size, data, nleft, results, out>>

(***************************************************************************)
(* Calls and returns.                                                      *)
(***************************************************************************)
Call(o, n, buf) ==
    /\ alive /\ op = "none"
    /\ op' = o /\ size' = n /\ data' = buf /\ nleft' = Len(buf)
    /\ UNCHANGED <<client, kpos, buffered, rio, results, out>>

CallLine(maxlen) == buffered /\ Call("line", maxlen, << >>)
CallReadnb(n) == buffered /\ Call("readnb", n, << >>)
CallReadn(n) == ~buffered /\ Call("readn", n, << >>)
CallWriten(message) == Len(out) + Len(message) <= MaxOut /\ Call("writen", Len(message), message)

\* The call is over; its locals mean nothing from here on.
Done == op' = "none" /\ size' = 0 /\ data' = << >> /\ nleft' = 0

\* rio_readlineb ends: k bytes are consumed, the buffer holds line, n is returned.
ReturnLine(k, line, n) ==
    /\ taken' = taken + k /\ usrbuf' = line /\ ret' = n
    /\ Done /\ UNCHANGED <<block, alive>>

ReturnBlock(bytes) ==
    /\ taken' = taken + Len(bytes) /\ block' = bytes /\ ret' = Len(bytes)
    /\ Done /\ UNCHANGED <<usrbuf, alive>>

\* Rio_readlineb, Rio_readnb, Rio_readn and Rio_writen: an error ends the process.
unix_error == alive' = FALSE /\ ret' = -1 /\ Done /\ UNCHANGED <<taken, usrbuf, block>>

Continue == UNCHANGED <<op, size, results>>

(***************************************************************************)
(* rio_read, the refilling of the buffer.  It is called by rio_readlineb   *)
(* and rio_readnb while they want more bytes.                              *)
(***************************************************************************)
Wants == \/ op = "line" /\ Len(data) + 1 < size
         \/ op = "readnb" /\ Len(data) < size

Refilling == Wants /\ rio_cnt <= 0

\* Fault: the position in the buffer is not reset.
FillWithoutReset(k) ==
    /\ rio_cnt' = k /\ UNCHANGED rio_bufptr
    /\ rio_buf' = [i \in 1..RIO_BUFSIZE |-> IF i <= k THEN in[kpos + i] ELSE rio_buf[i]]

\* read gave k bytes, which replace the first ones of the buffer.
Fill(k) ==
    /\ rio_cnt' = k /\ rio_bufptr' = 1
    /\ rio_buf' = [i \in 1..RIO_BUFSIZE |-> IF i <= k THEN in[kpos + i] ELSE rio_buf[i]]

ReadSome ==
    /\ Refilling
    /\ \E k \in 1..Min({RIO_BUFSIZE, Len(in) - kpos}) : Fill(k) /\ kpos' = kpos + k
    /\ Continue /\ UNCHANGED <<client, buffered, data, nleft, out>>

\* EINTR: the count is negative and the loop goes on.
ReadInterrupted ==
    /\ Refilling
    /\ rio_cnt' = -1
    /\ Continue /\ UNCHANGED <<client, kpos, buffered, rio_bufptr, rio_buf, data, nleft, out>>

ReadFails ==
    /\ Refilling
    /\ rio_cnt' = -1 /\ unix_error
    /\ UNCHANGED <<client, kpos, buffered, rio_bufptr, rio_buf, out>>

\* Fault: the end of the stream is not told from an interrupted read.
ReadAgain == Continue /\ UNCHANGED <<data, nleft>>

\* rio_read returned 0.  rio_readlineb leaves the buffer alone if it had read nothing,
\* else its n also counts the byte that did not come.
EndOfStream ==
    IF op = "line"
    THEN ReturnLine(Len(data), IF data = << >> THEN usrbuf ELSE data,
                               IF data = << >> THEN 0 ELSE Len(data) + 1)
    ELSE ReturnBlock(data)

ReadEnds ==
    /\ Refilling /\ closed /\ kpos = Len(in)
    /\ rio_cnt' = 0 /\ EndOfStream
    /\ UNCHANGED <<client, kpos, buffered, rio_bufptr, rio_buf, out>>

(***************************************************************************)
(* rio_read, the copying, and the loops around it.                         *)
(***************************************************************************)
Copying == Wants /\ rio_cnt > 0

Consume(k) == rio_bufptr' = rio_bufptr + k /\ rio_cnt' = rio_cnt - k /\ UNCHANGED rio_buf

\* One byte for rio_readlineb, which returns if it is a newline; n is then the number
\* of bytes.
CopyByte ==
    /\ Copying /\ op = "line"
    /\ LET line == Append(data, rio_buf[rio_bufptr])
       IN  IF rio_buf[rio_bufptr] = Newline
           THEN ReturnLine(Len(line), line, Len(line))
           ELSE data' = line /\ Continue /\ UNCHANGED nleft
    /\ Consume(1)
    /\ UNCHANGED <<client, kpos, buffered, out>>

\* The smaller of what is wanted and what is there.
CopyCount(k) == Min({k, rio_cnt})

CopyBlock ==
    /\ Copying /\ op = "readnb"
    /\ LET k == CopyCount(size - Len(data))
       IN  /\ data' = data \o SubSeq(rio_buf, rio_bufptr, rio_bufptr + k - 1)
           /\ Consume(k)
    /\ Continue /\ UNCHANGED <<client, kpos, buffered, nleft, out>>

\* The loops end because the buffer is full: rio_readlineb's n is then maxlen.
FillsBuffer ==
    /\ op \in {"line", "readnb"} /\ ~Wants
    /\ IF op = "line" THEN ReturnLine(Len(data), data, size) ELSE ReturnBlock(data)
    /\ UNCHANGED <<client, kpos, buffered, rio, out>>

(***************************************************************************)
(* rio_readn, without a buffer.  EINTR makes it call read again.           *)
(***************************************************************************)
ReadDirectly ==
    /\ op = "readn" /\ Len(data) < size
    /\ \E k \in 1..Min({size - Len(data), Len(in) - kpos}) :
          /\ data' = data \o SubSeq(in, kpos + 1, kpos + k)
          /\ kpos' = kpos + k
    /\ Continue /\ UNCHANGED <<client, buffered, rio, nleft, out>>

ReturnDirectly ==
    /\ op = "readn"
    /\ Len(data) = size \/ (closed /\ kpos = Len(in))
    /\ ReturnBlock(data)
    /\ UNCHANGED <<client, kpos, buffered, rio, out>>

ReadDirectlyFails ==
    /\ op = "readn" /\ Len(data) < size
    /\ unix_error
    /\ UNCHANGED <<client, kpos, buffered, rio, out>>

(***************************************************************************)
(* rio_writen.  An interrupted write has written nothing and is repeated.  *)
(***************************************************************************)
\* Fault: every piece is taken from the front of the buffer.
PieceFromStart(k) == SubSeq(data, 1, k)

\* The next k bytes of the buffer.
Piece(k) == SubSeq(data, Len(data) - nleft + 1, Len(data) - nleft + k)

WriteSome ==
    /\ op = "writen"
    /\ \E k \in 1..nleft : out' = out \o Piece(k) /\ nleft' = nleft - k
    /\ Continue /\ UNCHANGED <<client, kpos, buffered, rio, data>>

ReturnWritten ==
    /\ op = "writen" /\ nleft = 0
    /\ ret' = size /\ Done
    /\ UNCHANGED <<client, kpos, buffered, rio, taken, usrbuf, block, out, alive>>

WriteFails ==
    /\ op = "writen" /\ nleft > 0
    /\ unix_error
    /\ UNCHANGED <<client, kpos, buffered, rio, out>>

(***************************************************************************)
(* The specification.                                                      *)
(***************************************************************************)
Calls ==
    \/ \E m \in LineSizes : CallLine(m)
    \/ \E n \in BlockSizes : CallReadnb(n) \/ CallReadn(n)
    \/ \E message \in Messages : CallWriten(message)

\* What goes on in a call, and cannot fail.
Progress ==
    \/ ReadSome \/ ReadEnds \/ CopyByte \/ CopyBlock \/ FillsBuffer
    \/ ReadDirectly \/ ReturnDirectly
    \/ WriteSome \/ ReturnWritten

Next ==
    \/ \E b \in Bytes : Send(b)
    \/ Close
    \/ Calls
    \/ Progress
    \/ ReadInterrupted \/ ReadFails \/ ReadDirectlyFails \/ WriteFails

Spec == Init /\ [][Next]_vars

\* A thread inside a call is scheduled, and signals do not interrupt it for ever.  The
\* client owes nothing.
FairSpec == Spec /\ WF_vars(Progress)

(***************************************************************************)
(* Properties.                                                             *)
(***************************************************************************)
\* How many bytes of the stream have been copied out of the rio_t, or out of the kernel.
Consumed == taken + (IF op = "writen" THEN 0 ELSE Len(data))

\* The unread part of the internal buffer is exactly the next bytes of the stream, up to
\* the last one read handed over (rio_read, rio_readlineb, rio_readnb): no refill, short
\* or interrupted, and no mixture of calls skips, repeats or invents a byte, and rio_cnt
\* and rio_bufptr stay inside rio_buf.
BufferHoldsNext ==
    /\ rio_cnt \in -1..RIO_BUFSIZE
    /\ rio_cnt > 0 => rio_bufptr \in 1..RIO_BUFSIZE /\ rio_bufptr + rio_cnt - 1 <= RIO_BUFSIZE
    /\ alive => Consumed + (IF rio_cnt > 0 THEN rio_cnt ELSE 0) = kpos
    /\ alive => \A i \in 1..rio_cnt : rio_buf[rio_bufptr + i - 1] = in[Consumed + i]
    /\ op \in {"line", "readnb", "readn"} =>
          \A i \in 1..Len(data) : data[i] = in[taken + i]

\* The package implements the byte stream: whatever the kernel does, each call returns
\* the next line or block of the client's stream with the count rio_readlineb computes
\* for it, and the bytes written are the messages, whole and in order.
Stream == INSTANCE ByteStream WITH
    out <- IF op = "writen" THEN SubSeq(out, 1, Len(out) - (Len(data) - nleft)) ELSE out
ImplementsStream == Stream!Spec

\* Every reading call returns once the client has closed, however its stream was cut
\* (rio_readlineb, rio_readnb, rio_readn): none waits for bytes it already has.
ReadsReturn == closed /\ op \in {"line", "readnb", "readn"} ~> op = "none"
=============================================================================
