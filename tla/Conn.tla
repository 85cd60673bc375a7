--------------------------------- MODULE Conn ---------------------------------
(***************************************************************************)
(* One connection, as conn::handle of src/conn.rs serves it on a worker:   *)
(* set the timeouts, read one selector line, resolve it, write the answer. *)
(* The client sends, reads, closes or disappears when it likes, and time   *)
(* passes while the worker is blocked in a read or a write of the socket.  *)
(*                                                                         *)
(* A byte is "x", "nl" (the newline) or "bad" (it breaks the UTF-8).  What *)
(* the selector resolves to is an answer of any size of Answers, or an I/O *)
(* error: selector parsing and the file system are not modelled here.  The *)
(* time the worker computes or reads files is taken to be 0.               *)
(***************************************************************************)
EXTENDS Naturals, Sequences

CONSTANTS
    MaxSelector,   \* MAX_SELECTOR_BYTES: 1024 in the code
    BufCap,        \* capacity of the BufReader: 8192
    Chunk,         \* CHUNK_SIZE: 65536
    ReadTimeout,   \* in ticks: 5 s
    WriteTimeout,  \* in ticks: --write-timeout, 30 s
    Answers,       \* sizes of the files and listings
    MaxAnswer,     \* the largest of them
    NotFoundSize,  \* size of the "document not found" body
    Window,        \* what the socket's send buffer holds
    MaxBytes       \* bound: bytes the client sends

ASSUME SelectorAssumption == MaxSelector \in Nat /\ BufCap \in Nat \ {0}
ASSUME TimeoutAssumption  == ReadTimeout \in Nat \ {0} /\ WriteTimeout \in Nat \ {0}
ASSUME AnswerAssumption   ==
    /\ MaxAnswer \in Nat /\ Answers \subseteq 0 .. MaxAnswer
    /\ NotFoundSize \in 0 .. MaxAnswer
    /\ Chunk \in Nat \ {0} /\ Window \in Nat \ {0}

Bytes == {"x", "nl", "bad"}

VARIABLES
    pc,       \* where the worker is in handle; "ok" and "err" when it returned
    line,     \* read_selector's buf
    rbuf,     \* bytes the BufReader holds
    answer,   \* size of the response
    left,     \* what remains to be read of the file
    chunk,    \* what the current write_all has still to write
    copied,   \* the current write call has put something in the send buffer
    reads, writes,  \* socket calls that have returned with success
    wait,     \* ticks since the current call blocked
    age,      \* ticks since handle began
    inq,      \* received and not read: the socket's receive buffer
    total,    \* all the client has sent, in order
    eof,      \* the client has shut its sending side
    gone,     \* the client has reset the connection
    outq,     \* written and not yet received by the client
    got,      \* received by the client
    lost      \* written and thrown away by a reset at the close

readVars   == <<line, rbuf, reads>>
writeVars  == <<answer, left, chunk, copied, writes>>
timeVars   == <<wait, age>>
clientVars == <<inq, total, eof, gone>>
outVars    == <<outq, got, lost>>
vars       == <<pc, readVars, writeVars, timeVars, clientVars, outVars>>

Init ==
    /\ pc = "start"
    /\ line = <<>> /\ rbuf = <<>> /\ reads = 0
    /\ answer = 0 /\ left = 0 /\ chunk = 0 /\ copied = FALSE /\ writes = 0
    /\ wait = 0 /\ age = 0
    /\ inq = <<>> /\ total = <<>> /\ eof = FALSE /\ gone = FALSE
    /\ outq = 0 /\ got = 0 /\ lost = 0

Returned == pc \in {"ok", "err"}
Least(a, b) == IF a < b THEN a ELSE b
-------------------------------------------------------------------------------
(* set_nodelay, set_read_timeout, set_write_timeout; each may fail.         *)
Start ==
    /\ pc = "start"
    /\ pc' \in {"read", "err"}
    /\ UNCHANGED <<readVars, writeVars, timeVars, clientVars, outVars>>

(* read_selector: an empty BufReader reads what has arrived, up to BufCap.  *)
ReadSocket ==
    /\ pc = "read" /\ rbuf = <<>> /\ inq # <<>>
    /\ LET n == Least(Len(inq), BufCap) IN
        /\ rbuf' = SubSeq(inq, 1, n)
        /\ inq' = SubSeq(inq, n + 1, Len(inq))
    /\ reads' = reads + 1
    /\ wait' = 0
    /\ UNCHANGED <<pc, line, writeVars, age, total, eof, gone, outVars>>

EndOfInputWhenEmpty ==
    /\ pc = "read" /\ rbuf = <<>> /\ inq = <<>>
    /\ reads' = reads + 1
    /\ wait' = 0
    /\ pc' = "resolve"
    /\ UNCHANGED <<line, rbuf, writeVars, age, clientVars, outVars>>

\* A read of 0 bytes ends the line like a newline does.
EndOfInput ==
    /\ pc = "read" /\ rbuf = <<>> /\ inq = <<>> /\ eof
    /\ reads' = reads + 1
    /\ wait' = 0
    /\ pc' = "resolve"
    /\ UNCHANGED <<line, rbuf, writeVars, age, clientVars, outVars>>

TakeByteUnbounded ==
    /\ pc = "read" /\ rbuf # <<>>
    /\ Head(rbuf) # "nl"
    /\ line' = Append(line, Head(rbuf))
    /\ rbuf' = Tail(rbuf)
    /\ UNCHANGED <<pc, reads, writeVars, timeVars, clientVars, outVars>>

\* The check against the bound comes after the newline and before the push.
TakeByte ==
    /\ pc = "read" /\ rbuf # <<>>
    /\ Head(rbuf) # "nl" /\ Len(line) <= MaxSelector
    /\ line' = Append(line, Head(rbuf))
    /\ rbuf' = Tail(rbuf)
    /\ UNCHANGED <<pc, reads, writeVars, timeVars, clientVars, outVars>>

EndLine ==
    /\ pc = "read" /\ rbuf # <<>>
    /\ Head(rbuf) = "nl"
    /\ rbuf' = Tail(rbuf)
    /\ pc' = "resolve"
    /\ UNCHANGED <<line, reads, writeVars, timeVars, clientVars, outVars>>

TooLongOffByOne ==
    /\ pc = "read" /\ rbuf # <<>>
    /\ Len(line) >= MaxSelector
    /\ pc' = "refuse"
    /\ UNCHANGED <<readVars, writeVars, timeVars, clientVars, outVars>>

TooLong ==
    /\ pc = "read" /\ rbuf # <<>>
    /\ Head(rbuf) # "nl" /\ Len(line) > MaxSelector
    /\ pc' = "refuse"
    /\ UNCHANGED <<readVars, writeVars, timeVars, clientVars, outVars>>

ReadTimeoutRetries ==
    /\ pc = "read" /\ rbuf = <<>> /\ inq = <<>> /\ ~eof
    /\ wait = ReadTimeout
    /\ wait' = 0
    /\ UNCHANGED <<pc, readVars, writeVars, age, clientVars, outVars>>

\* The read timeout bounds one call of read; its error ends handle.
ReadTimesOut ==
    /\ pc = "read" /\ rbuf = <<>> /\ inq = <<>> /\ ~eof
    /\ wait = ReadTimeout
    /\ pc' = "err"
    /\ UNCHANGED <<readVars, writeVars, timeVars, clientVars, outVars>>
-------------------------------------------------------------------------------
(* resolve and write_response.                                              *)

\* Bytes are written by one write_all; a file is read chunk by chunk.
Respond(size, fromFile) ==
    /\ answer' = size
    /\ left' = IF fromFile THEN size ELSE 0
    /\ chunk' = IF fromFile THEN 0 ELSE size
    /\ pc' = "write"
    /\ UNCHANGED <<copied, writes, readVars, timeVars, clientVars, outVars>>

\* Oversized, not UTF-8, or rejected later on: the body is the same.
NotFound ==
    /\ pc \in {"refuse", "resolve"}
    /\ Respond(NotFoundSize, FALSE)

Resolve ==
    /\ pc = "resolve"
    /\ \A i \in 1 .. Len(line) : line[i] # "bad"
    /\ \E size \in Answers, fromFile \in BOOLEAN : Respond(size, fromFile)

\* An I/O fault while resolving, or while reading the file.
FileFault ==
    /\ pc = "resolve" \/ (pc = "write" /\ chunk = 0 /\ left > 0)
    /\ pc' = "err"
    /\ UNCHANGED <<readVars, writeVars, timeVars, clientVars, outVars>>

NextChunk ==
    /\ pc = "write" /\ chunk = 0 /\ left > 0 /\ ~copied
    /\ chunk' = Least(Chunk, left)
    /\ left' = left - Least(Chunk, left)
    /\ UNCHANGED <<pc, answer, copied, writes, readVars, timeVars, clientVars, outVars>>

\* A write call puts what fits into the send buffer ...
Copy ==
    /\ pc = "write" /\ chunk > 0 /\ outq < Window
    /\ LET n == Least(chunk, Window - outq) IN
        /\ outq' = outq + n
        /\ chunk' = chunk - n
    /\ copied' = TRUE
    /\ UNCHANGED <<pc, answer, left, writes, readVars, timeVars, clientVars, got, lost>>

ShortWriteIsWhole ==
    /\ pc = "write" /\ copied
    /\ writes' = writes + 1
    /\ wait' = 0 /\ copied' = FALSE /\ chunk' = 0
    /\ UNCHANGED <<pc, answer, left, readVars, age, clientVars, outVars>>

\* ... and returns at any time after that; write_all calls it again.
WriteReturns ==
    /\ pc = "write" /\ copied
    /\ writes' = writes + 1
    /\ wait' = 0 /\ copied' = FALSE
    /\ UNCHANGED <<pc, answer, left, chunk, readVars, age, clientVars, outVars>>

WriteNeverTimesOut == FALSE

\* The write timeout bounds one call of write that could put nothing.
WriteTimesOut ==
    /\ pc = "write" /\ chunk > 0 /\ outq = Window /\ ~copied
    /\ wait = WriteTimeout
    /\ pc' = "err"
    /\ UNCHANGED <<readVars, writeVars, timeVars, clientVars, outVars>>

Done ==
    /\ pc = "write" /\ chunk = 0 /\ left = 0 /\ ~copied
    /\ pc' = "ok"
    /\ UNCHANGED <<readVars, writeVars, timeVars, clientVars, outVars>>

\* The client has reset the connection: the next read or write fails.
SocketFault ==
    /\ gone /\ pc \in {"read", "write"}
    /\ pc' = "err"
    /\ UNCHANGED <<readVars, writeVars, timeVars, clientVars, outVars>>
-------------------------------------------------------------------------------
(* The clock runs while the worker is blocked in a call that may still wait. *)
BlockedInRead  == pc = "read" /\ rbuf = <<>> /\ inq = <<>> /\ ~eof /\ ~gone
BlockedInWrite == pc = "write" /\ chunk > 0 /\ outq = Window /\ ~gone

Tick ==
    /\ \/ BlockedInRead /\ wait < ReadTimeout
       \/ BlockedInWrite /\ wait < WriteTimeout
    /\ wait' = wait + 1
    /\ age' = age + 1
    /\ UNCHANGED <<pc, readVars, writeVars, clientVars, outVars>>

(* The client, and the kernels in between.                                  *)
Send(b) ==
    /\ ~eof /\ ~gone /\ Len(total) < MaxBytes
    /\ inq' = Append(inq, b)
    /\ total' = Append(total, b)
    /\ UNCHANGED <<pc, readVars, writeVars, timeVars, eof, gone, outVars>>

CloseWrite ==
    /\ ~eof /\ ~gone
    /\ eof' = TRUE
    /\ UNCHANGED <<pc, readVars, writeVars, timeVars, inq, total, gone, outVars>>

Receive ==
    /\ outq > 0 /\ ~gone
    /\ outq' = outq - 1
    /\ got' = got + 1
    /\ UNCHANGED <<pc, readVars, writeVars, timeVars, clientVars, lost>>

Vanish ==
    /\ ~gone
    /\ gone' = TRUE
    /\ UNCHANGED <<pc, readVars, writeVars, timeVars, inq, total, eof, outVars>>

\* handle closes the stream as it returns.  TCP answers bytes nobody will read
\* with a reset, which throws away what the client has not received yet.
CloseResets ==
    /\ Returned /\ inq # <<>> /\ outq > 0 /\ ~gone
    /\ lost' = lost + outq
    /\ outq' = 0
    /\ UNCHANGED <<pc, readVars, writeVars, timeVars, clientVars, got>>
-------------------------------------------------------------------------------
Worker ==
    \/ Start \/ ReadSocket \/ EndOfInput \/ TakeByte \/ EndLine \/ TooLong
    \/ ReadTimesOut \/ NotFound \/ Resolve \/ FileFault \/ NextChunk \/ Copy
    \/ WriteReturns \/ WriteTimesOut \/ Done \/ SocketFault

Client == (\E b \in Bytes : Send(b)) \/ CloseWrite \/ Receive \/ Vanish \/ CloseResets

Next == Worker \/ Tick \/ Client

Spec == Init /\ [][Next]_vars

(* The worker runs and time passes; nothing is expected of the client.      *)
FairSpec == Spec /\ WF_vars(Worker) /\ WF_vars(Tick)
-------------------------------------------------------------------------------
(* Every variable holds a value of its kind, and the buffered selector is   *)
(* one byte longer than MAX_SELECTOR_BYTES at most.                         *)
TypeOK ==
    /\ pc \in {"start", "read", "resolve", "refuse", "write", "ok", "err"}
    /\ line \in Seq(Bytes) /\ Len(line) <= MaxSelector + 1
    /\ rbuf \in Seq(Bytes) /\ inq \in Seq(Bytes) /\ total \in Seq(Bytes)
    /\ answer \in 0 .. MaxAnswer /\ left \in 0 .. MaxAnswer /\ chunk \in 0 .. MaxAnswer
    /\ copied \in BOOLEAN /\ eof \in BOOLEAN /\ gone \in BOOLEAN
    /\ outq \in 0 .. Window
    /\ reads \in Nat /\ writes \in Nat /\ wait \in Nat /\ age \in Nat
    /\ got \in Nat /\ lost \in Nat

(* However the bytes arrive, the selector that is resolved is the client's  *)
(* first line, whole and with nothing of what follows, and a line is        *)
(* refused only for the byte past the 1025th.                               *)
OneLine ==
    /\ \A i \in 1 .. Len(line) : line[i] = total[i] /\ line[i] # "nl"
    /\ pc = "resolve" =>
          IF Len(line) < Len(total) THEN total[Len(line) + 1] = "nl" ELSE eof
    /\ pc = "refuse" =>
          /\ Len(line) = MaxSelector + 1
          /\ Len(line) < Len(total) /\ total[Len(line) + 1] # "nl"

(* Whatever is written is accounted for, and handle returns Ok only when    *)
(* the whole answer has been written: a short write is continued.           *)
AnswerComplete ==
    /\ got + outq + lost + chunk + left = answer
    /\ pc = "ok" => chunk = 0 /\ left = 0

(* What bounds the time one connection holds its worker: a read timeout for *)
(* each byte of the line and one more, a write timeout for each byte of the *)
(* answer (SECURITY.md: "a slow-writing client cannot hold a worker         *)
(* indefinitely").                                                          *)
HoldWithin ==
    age <= (MaxSelector + 2) * ReadTimeout + MaxAnswer * WriteTimeout

(* handle returns, whatever the client does: this is what the fairness of   *)
(* Finish in Server stands on.                                              *)
Returns == <>Returned

(* "per-connection timeouts bound a single client to ~35 s of worker-hold": *)
(* one read timeout and one write timeout.                                  *)
HoldBound == age <= ReadTimeout + WriteTimeout
===============================================================================
