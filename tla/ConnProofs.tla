------------------------------ MODULE ConnProofs ------------------------------
(***************************************************************************)
(* Proofs about Conn for any selector bound, timeouts, answers and buffer  *)
(* sizes, and any number of bytes the client sends.                        *)
(*                                                                         *)
(* The hold time is a budget: every call that returns with success has     *)
(* moved at least one byte and waited one timeout at most, so age never    *)
(* exceeds reads * ReadTimeout + writes * WriteTimeout + wait (AgeBudget). *)
(* ReadBudget bounds the reads by the length of the line, WriteBudget the  *)
(* writes by the size of the answer.                                       *)
(*                                                                         *)
(* The line is a matter of order: what the client sent is the line so far, *)
(* then the bytes of the reader, then those of the socket (LineInv).       *)
(***************************************************************************)
EXTENDS Conn, SequenceTheorems, TLAPS

USE SelectorAssumption, TimeoutAssumption, AnswerAssumption

LEMMA TimesMonotone ==
    ASSUME NEW a \in Nat, NEW b \in Nat, NEW c \in Nat, a <= b
    PROVE  a * c <= b * c /\ a * c \in Nat
OBVIOUS

LEMMA TimesFacts ==
    ASSUME NEW a \in Nat, NEW b \in Nat, NEW c \in Nat, NEW d \in Nat
    PROVE  /\ (a + 1) * c = a * c + c /\ (b + 1) * d = b * d + d
           /\ a * c \in Nat /\ b * d \in Nat
OBVIOUS

\* Reading splits the receive buffer in two queues of bytes.
LEMMA SplitType ==
    ASSUME NEW S, NEW q \in Seq(S), NEW n \in 0 .. Len(q)
    PROVE  SubSeq(q, 1, n) \in Seq(S) /\ SubSeq(q, n + 1, Len(q)) \in Seq(S)
<1>1. Len(q) \in Nat /\ \A j \in 1 .. Len(q) : q[j] \in S
  BY LenProperties
<1> QED BY <1>1, SubSeqProperties

-------------------------------------------------------------------------------
LEMMA InitTypeOK == Init => TypeOK
<1>1. <<>> \in Seq(Bytes) /\ Len(<<>>) = 0
  BY EmptySeq
<1>2. 0 \in 0 .. MaxAnswer /\ 0 \in 0 .. Window /\ 0 <= MaxSelector + 1
  OBVIOUS
<1>3. ASSUME Init PROVE TypeOK
  <2>1. Len(line) <= MaxSelector + 1
    BY <1>1, <1>2, <1>3 DEF Init
  <2> QED BY <1>1, <1>2, <1>3, <2>1 DEF Init, TypeOK
<1> QED BY <1>3

LEMMA TypeOKStep ==
    ASSUME TypeOK, [Next]_vars
    PROVE  TypeOK'
<1> USE DEF TypeOK, readVars, writeVars, timeVars, clientVars, outVars
<1>1. CASE Start
  BY <1>1 DEF Start
<1>2. CASE ReadSocket
  <2>1. Len(inq) \in Nat
    BY LenProperties
  <2>2. Least(Len(inq), BufCap) \in 0 .. Len(inq)
    BY <2>1 DEF Least
  <2>3. rbuf' \in Seq(Bytes) /\ inq' \in Seq(Bytes)
    BY <1>2, <2>2, SplitType DEF ReadSocket
  <2> QED BY <1>2, <2>3 DEF ReadSocket
<1>3. CASE EndOfInput
  BY <1>3 DEF EndOfInput
<1>4. CASE TakeByte
  BY <1>4, HeadTailProperties, AppendProperties, LenProperties DEF TakeByte
<1>5. CASE EndLine
  BY <1>5, HeadTailProperties DEF EndLine
<1>6. CASE TooLong
  BY <1>6 DEF TooLong
<1>7. CASE ReadTimesOut
  BY <1>7 DEF ReadTimesOut
<1>8. CASE NotFound
  BY <1>8 DEF NotFound, Respond
<1>9. CASE Resolve
  BY <1>9 DEF Resolve, Respond
<1>10. CASE FileFault
  BY <1>10 DEF FileFault
<1>11. CASE NextChunk
  <2>1. Least(Chunk, left) \in 0 .. left
    BY DEF Least
  <2>2. chunk' \in 0 .. MaxAnswer /\ left' \in 0 .. MaxAnswer
    BY <1>11, <2>1 DEF NextChunk
  <2> QED BY <1>11, <2>2 DEF NextChunk
<1>12. CASE Copy
  <2>1. Least(chunk, Window - outq) \in 0 .. chunk
        /\ Least(chunk, Window - outq) <= Window - outq
    BY <1>12 DEF Copy, Least
  <2>2. chunk' \in 0 .. MaxAnswer /\ outq' \in 0 .. Window
    BY <1>12, <2>1 DEF Copy
  <2> QED BY <1>12, <2>2 DEF Copy
<1>13. CASE WriteReturns
  <2>1. writes' \in Nat /\ wait' \in Nat
    BY <1>13 DEF WriteReturns
  <2> QED BY <1>13, <2>1 DEF WriteReturns
<1>14. CASE WriteTimesOut
  BY <1>14 DEF WriteTimesOut
<1>15. CASE Done
  BY <1>15 DEF Done
<1>16. CASE SocketFault
  BY <1>16 DEF SocketFault
<1>17. CASE Tick
  BY <1>17 DEF Tick, BlockedInRead, BlockedInWrite
<1>18. ASSUME NEW b \in Bytes, Send(b) PROVE TypeOK'
  BY <1>18, AppendProperties DEF Send
<1>19. CASE CloseWrite
  BY <1>19 DEF CloseWrite
<1>20. CASE Receive
  BY <1>20 DEF Receive
<1>21. CASE Vanish
  BY <1>21 DEF Vanish
<1>22. CASE CloseResets
  BY <1>22 DEF CloseResets, Returned
<1>23. CASE UNCHANGED vars
  BY <1>23 DEF vars
<1> QED
  BY <1>1, <1>2, <1>3, <1>4, <1>5, <1>6, <1>7, <1>8, <1>9, <1>10, <1>11,
     <1>12, <1>13, <1>14, <1>15, <1>16, <1>17, <1>18, <1>19, <1>20,
     <1>21, <1>22, <1>23
  DEF Next, Worker, Client
-------------------------------------------------------------------------------
(* While the line is read no more calls have returned than it has bytes,    *)
(* and one more if the BufReader still holds some; then the count stands.   *)
ReadBudget ==
    /\ reads <= MaxSelector + 2
    /\ pc = "start" => reads = 0 /\ rbuf = <<>> /\ line = <<>>
    /\ pc = "read" => /\ reads <= Len(line) + 1
                      /\ rbuf = <<>> => reads <= Len(line)

(* Every write that has returned, and the one that has copied something,    *)
(* stand for at least one byte of the answer that is no longer in hand.     *)
WriteBudget ==
    /\ writes + (IF copied THEN 1 ELSE 0) + chunk + left <= answer
    /\ pc \in {"start", "read", "resolve", "refuse"} =>
          writes = 0 /\ ~copied /\ chunk = 0 /\ left = 0

(* The time gone by is covered by the calls that have returned and the one  *)
(* that waits.                                                              *)
AgeBudget ==
    ~Returned => age <= reads * ReadTimeout + writes * WriteTimeout + wait

(* No call waits past its timeout, and a worker that is not in a call has   *)
(* not waited in one.                                                       *)
WaitBudget ==
    /\ pc = "read" => wait <= ReadTimeout
    /\ pc = "write" => wait <= WriteTimeout
    /\ pc \in {"start", "resolve", "refuse"} => wait = 0
    /\ pc = "read" /\ rbuf # <<>> => wait = 0
    /\ pc = "write" /\ chunk = 0 /\ ~copied => wait = 0

LEMMA ReadBudgetStep ==
    ASSUME TypeOK, ReadBudget, [Next]_vars
    PROVE  ReadBudget'
<1> USE DEF TypeOK, ReadBudget, readVars, writeVars, timeVars, clientVars, outVars
<1>1. CASE Start
  BY <1>1 DEF Start
<1>2. CASE ReadSocket
  <2>1. Len(inq) \in Nat \ {0} /\ Len(line) \in Nat
    BY <1>2, LenProperties, EmptySeq DEF ReadSocket
  <2>2. Least(Len(inq), BufCap) \in 1 .. Len(inq)
    BY <2>1 DEF Least
  <2>3. rbuf' # <<>>
    <3>1. \A j \in 1 .. Least(Len(inq), BufCap) : inq[j] \in Bytes
      BY <2>2, LenProperties
    <3>2. Len(rbuf') = Least(Len(inq), BufCap)
      BY <1>2, <2>2, <3>1, SubSeqProperties DEF ReadSocket
    <3> QED BY <2>2, <3>2, EmptySeq
  <2> QED BY <1>2, <2>1, <2>3 DEF ReadSocket
<1>3. CASE EndOfInput
  BY <1>3, LenProperties DEF EndOfInput
<1>4. CASE TakeByte
  BY <1>4, AppendProperties, HeadTailProperties, LenProperties DEF TakeByte
<1>5. CASE EndLine
  BY <1>5 DEF EndLine
<1>6. CASE TooLong
  BY <1>6 DEF TooLong
<1>7. CASE ReadTimesOut
  BY <1>7 DEF ReadTimesOut
<1>8. CASE NotFound
  BY <1>8 DEF NotFound, Respond
<1>9. CASE Resolve
  BY <1>9 DEF Resolve, Respond
<1>10. CASE FileFault
  BY <1>10 DEF FileFault
<1>11. CASE NextChunk
  BY <1>11 DEF NextChunk
<1>12. CASE Copy
  BY <1>12 DEF Copy
<1>13. CASE WriteReturns
  BY <1>13 DEF WriteReturns
<1>14. CASE WriteTimesOut
  BY <1>14 DEF WriteTimesOut
<1>15. CASE Done
  BY <1>15 DEF Done
<1>16. CASE SocketFault
  BY <1>16 DEF SocketFault
<1>17. CASE Tick
  BY <1>17 DEF Tick
<1>18. ASSUME NEW b \in Bytes, Send(b) PROVE ReadBudget'
  BY <1>18 DEF Send
<1>19. CASE CloseWrite
  BY <1>19 DEF CloseWrite
<1>20. CASE Receive
  BY <1>20 DEF Receive
<1>21. CASE Vanish
  BY <1>21 DEF Vanish
<1>22. CASE CloseResets
  BY <1>22 DEF CloseResets
<1>23. CASE UNCHANGED vars
  BY <1>23 DEF vars
<1> QED
  BY <1>1, <1>2, <1>3, <1>4, <1>5, <1>6, <1>7, <1>8, <1>9, <1>10, <1>11,
     <1>12, <1>13, <1>14, <1>15, <1>16, <1>17, <1>18, <1>19, <1>20,
     <1>21, <1>22, <1>23
  DEF Next, Worker, Client

LEMMA WriteBudgetStep ==
    ASSUME TypeOK, WriteBudget, [Next]_vars
    PROVE  WriteBudget'
<1> USE DEF TypeOK, WriteBudget, readVars, writeVars, timeVars, clientVars, outVars
<1>1. CASE Start
  BY <1>1 DEF Start
<1>2. CASE ReadSocket
  BY <1>2 DEF ReadSocket
<1>3. CASE EndOfInput
  BY <1>3 DEF EndOfInput
<1>4. CASE TakeByte
  BY <1>4 DEF TakeByte
<1>5. CASE EndLine
  BY <1>5 DEF EndLine
<1>6. CASE TooLong
  BY <1>6 DEF TooLong
<1>7. CASE ReadTimesOut
  BY <1>7 DEF ReadTimesOut
<1>8. CASE NotFound
  BY <1>8 DEF NotFound, Respond
<1>9. CASE Resolve
  BY <1>9 DEF Resolve, Respond
<1>10. CASE FileFault
  BY <1>10 DEF FileFault
<1>11. CASE NextChunk
  <2>1. Least(Chunk, left) \in 0 .. left
    BY DEF Least
  <2> QED BY <1>11, <2>1 DEF NextChunk
<1>12. CASE Copy
  <2>1. Least(chunk, Window - outq) \in 1 .. chunk
    BY <1>12 DEF Copy, Least
  <2> QED BY <1>12, <2>1 DEF Copy
<1>13. CASE WriteReturns
  BY <1>13 DEF WriteReturns
<1>14. CASE WriteTimesOut
  BY <1>14 DEF WriteTimesOut
<1>15. CASE Done
  BY <1>15 DEF Done
<1>16. CASE SocketFault
  BY <1>16 DEF SocketFault
<1>17. CASE Tick
  BY <1>17 DEF Tick
<1>18. ASSUME NEW b \in Bytes, Send(b) PROVE WriteBudget'
  BY <1>18 DEF Send
<1>19. CASE CloseWrite
  BY <1>19 DEF CloseWrite
<1>20. CASE Receive
  BY <1>20 DEF Receive
<1>21. CASE Vanish
  BY <1>21 DEF Vanish
<1>22. CASE CloseResets
  BY <1>22 DEF CloseResets
<1>23. CASE UNCHANGED vars
  BY <1>23 DEF vars
<1> QED
  BY <1>1, <1>2, <1>3, <1>4, <1>5, <1>6, <1>7, <1>8, <1>9, <1>10, <1>11,
     <1>12, <1>13, <1>14, <1>15, <1>16, <1>17, <1>18, <1>19, <1>20,
     <1>21, <1>22, <1>23
  DEF Next, Worker, Client

LEMMA WaitBudgetStep ==
    ASSUME TypeOK, WaitBudget, [Next]_vars
    PROVE  WaitBudget'
<1> USE DEF TypeOK, WaitBudget, Returned,
            readVars, writeVars, timeVars, clientVars, outVars
<1>1. CASE Start
  BY <1>1 DEF Start
<1>2. CASE ReadSocket
  BY <1>2 DEF ReadSocket
<1>3. CASE EndOfInput
  BY <1>3 DEF EndOfInput
<1>4. CASE TakeByte
  BY <1>4 DEF TakeByte
<1>5. CASE EndLine
  BY <1>5 DEF EndLine
<1>6. CASE TooLong
  BY <1>6 DEF TooLong
<1>7. CASE ReadTimesOut
  BY <1>7 DEF ReadTimesOut
<1>8. CASE NotFound
  BY <1>8 DEF NotFound, Respond
<1>9. CASE Resolve
  BY <1>9 DEF Resolve, Respond
<1>10. CASE FileFault
  BY <1>10 DEF FileFault
<1>11. CASE NextChunk
  BY <1>11 DEF NextChunk, Least
<1>12. CASE Copy
  BY <1>12 DEF Copy
<1>13. CASE WriteReturns
  BY <1>13 DEF WriteReturns
<1>14. CASE WriteTimesOut
  BY <1>14 DEF WriteTimesOut
<1>15. CASE Done
  BY <1>15 DEF Done
<1>16. CASE SocketFault
  BY <1>16 DEF SocketFault
<1>17. CASE Tick
  BY <1>17 DEF Tick, BlockedInRead, BlockedInWrite
<1>18. ASSUME NEW b \in Bytes, Send(b) PROVE WaitBudget'
  BY <1>18 DEF Send
<1>19. CASE CloseWrite
  BY <1>19 DEF CloseWrite
<1>20. CASE Receive
  BY <1>20 DEF Receive
<1>21. CASE Vanish
  BY <1>21 DEF Vanish
<1>22. CASE CloseResets
  BY <1>22 DEF CloseResets
<1>23. CASE UNCHANGED vars
  BY <1>23 DEF vars
<1> QED
  BY <1>1, <1>2, <1>3, <1>4, <1>5, <1>6, <1>7, <1>8, <1>9, <1>10, <1>11,
     <1>12, <1>13, <1>14, <1>15, <1>16, <1>17, <1>18, <1>19, <1>20,
     <1>21, <1>22, <1>23
  DEF Next, Worker, Client

LEMMA AgeBudgetStep ==
    ASSUME TypeOK, WaitBudget, AgeBudget, [Next]_vars
    PROVE  AgeBudget'
<1> USE DEF TypeOK, WaitBudget, AgeBudget, Returned,
            readVars, writeVars, timeVars, clientVars, outVars
<1>0. /\ (reads + 1) * ReadTimeout = reads * ReadTimeout + ReadTimeout
      /\ (writes + 1) * WriteTimeout = writes * WriteTimeout + WriteTimeout
      /\ reads * ReadTimeout \in Nat /\ writes * WriteTimeout \in Nat
  BY TimesFacts
<1>1. CASE Start
  BY <1>1, <1>0 DEF Start
<1>2. CASE ReadSocket
  BY <1>2, <1>0 DEF ReadSocket
<1>3. CASE EndOfInput
  BY <1>3, <1>0 DEF EndOfInput
<1>4. CASE TakeByte
  BY <1>4, <1>0 DEF TakeByte
<1>5. CASE EndLine
  BY <1>5, <1>0 DEF EndLine
<1>6. CASE TooLong
  BY <1>6, <1>0 DEF TooLong
<1>7. CASE ReadTimesOut
  BY <1>7, <1>0 DEF ReadTimesOut
<1>8. CASE NotFound
  BY <1>8, <1>0 DEF NotFound, Respond
<1>9. CASE Resolve
  BY <1>9, <1>0 DEF Resolve, Respond
<1>10. CASE FileFault
  BY <1>10, <1>0 DEF FileFault
<1>11. CASE NextChunk
  BY <1>11, <1>0 DEF NextChunk
<1>12. CASE Copy
  BY <1>12, <1>0 DEF Copy
<1>13. CASE WriteReturns
  BY <1>13, <1>0 DEF WriteReturns
<1>14. CASE WriteTimesOut
  BY <1>14, <1>0 DEF WriteTimesOut
<1>15. CASE Done
  BY <1>15, <1>0 DEF Done
<1>16. CASE SocketFault
  BY <1>16, <1>0 DEF SocketFault
<1>17. CASE Tick
  BY <1>17, <1>0 DEF Tick, BlockedInRead, BlockedInWrite
<1>18. ASSUME NEW b \in Bytes, Send(b) PROVE AgeBudget'
  BY <1>18, <1>0 DEF Send
<1>19. CASE CloseWrite
  BY <1>19, <1>0 DEF CloseWrite
<1>20. CASE Receive
  BY <1>20, <1>0 DEF Receive
<1>21. CASE Vanish
  BY <1>21, <1>0 DEF Vanish
<1>22. CASE CloseResets
  BY <1>22, <1>0 DEF CloseResets
<1>23. CASE UNCHANGED vars
  BY <1>23 DEF vars
<1> QED
  BY <1>1, <1>2, <1>3, <1>4, <1>5, <1>6, <1>7, <1>8, <1>9, <1>10, <1>11,
     <1>12, <1>13, <1>14, <1>15, <1>16, <1>17, <1>18, <1>19, <1>20,
     <1>21, <1>22, <1>23
  DEF Next, Worker, Client

\* While handle runs, the budgets give the bound.
LEMMA BudgetBoundsAge ==
    ASSUME TypeOK, ReadBudget, WriteBudget, WaitBudget, AgeBudget, ~Returned
    PROVE  HoldWithin
<1> DEFINE R == reads * ReadTimeout
           W == writes * WriteTimeout
           RMax == (MaxSelector + 2) * ReadTimeout
           WMax == MaxAnswer * WriteTimeout
<1>1. /\ R \in Nat /\ W \in Nat /\ RMax \in Nat /\ WMax \in Nat
      /\ (reads + 1) * ReadTimeout = R + ReadTimeout
      /\ (writes + 1) * WriteTimeout = W + WriteTimeout
  BY TimesFacts DEF TypeOK
<1>2. R <= RMax
  BY TimesMonotone DEF TypeOK, ReadBudget
<1>3. writes <= MaxAnswer
  BY DEF TypeOK, WriteBudget
<1>4. W <= WMax
  BY <1>3, TimesMonotone DEF TypeOK
<1>5. age <= R + W + wait /\ wait \in Nat /\ age \in Nat
  BY DEF AgeBudget, TypeOK
<1>6. CASE pc = "read" /\ rbuf = <<>>
  <2>1. reads + 1 \in Nat /\ reads + 1 <= MaxSelector + 2
    BY <1>6, LenProperties DEF TypeOK, ReadBudget
  <2>2. (reads + 1) * ReadTimeout <= RMax
    BY <2>1, TimesMonotone
  <2>3. R + ReadTimeout <= RMax
    BY <1>1, <2>2
  <2>4. wait <= ReadTimeout
    BY <1>6 DEF WaitBudget
  <2> HIDE DEF R, W, RMax, WMax
  <2>5. age <= RMax + WMax
    BY <1>1, <1>4, <1>5, <2>3, <2>4
  <2> QED BY <2>5 DEF HoldWithin, RMax, WMax
<1>7. CASE pc = "write" /\ (chunk > 0 \/ copied)
  <2>1. writes + 1 \in Nat /\ writes + 1 <= MaxAnswer
    <3>1. CASE chunk > 0
      BY <3>1 DEF TypeOK, WriteBudget
    <3>2. CASE copied
      BY <3>2 DEF TypeOK, WriteBudget
    <3> QED BY <1>7, <3>1, <3>2
  <2>2. (writes + 1) * WriteTimeout <= WMax
    BY <2>1, TimesMonotone
  <2>3. W + WriteTimeout <= WMax
    BY <1>1, <2>2
  <2>4. wait <= WriteTimeout
    BY <1>7 DEF WaitBudget
  <2> HIDE DEF R, W, RMax, WMax
  <2>5. age <= RMax + WMax
    BY <1>1, <1>2, <1>5, <2>3, <2>4
  <2> QED BY <2>5 DEF HoldWithin, RMax, WMax
<1>8. CASE wait = 0
  <2> HIDE DEF R, W, RMax, WMax
  <2>1. age <= RMax + WMax
    BY <1>1, <1>2, <1>4, <1>5, <1>8
  <2> QED BY <2>1 DEF HoldWithin, RMax, WMax
<1>9. wait = 0 \/ (pc = "read" /\ rbuf = <<>>) \/ (pc = "write" /\ (chunk > 0 \/ copied))
  BY DEF TypeOK, WaitBudget, Returned
<1> QED BY <1>6, <1>7, <1>8, <1>9
-------------------------------------------------------------------------------
\* The inductive invariant; what handle took stands once it has returned.
IInv == /\ TypeOK /\ ReadBudget /\ WriteBudget /\ WaitBudget /\ AgeBudget
        /\ Returned => HoldWithin

LEMMA IInvHoldWithin == IInv => HoldWithin
BY BudgetBoundsAge DEF IInv

LEMMA InitIInv == Init => IInv
<1> SUFFICES ASSUME Init PROVE IInv
  OBVIOUS
<1>1. 0 * ReadTimeout = 0 /\ 0 * WriteTimeout = 0
  OBVIOUS
<1>2. ReadBudget /\ WriteBudget /\ WaitBudget /\ AgeBudget
  BY <1>1 DEF Init, ReadBudget, WriteBudget, WaitBudget, AgeBudget
<1> QED BY <1>2, InitTypeOK DEF IInv, Init, Returned

LEMMA NextIInv == IInv /\ [Next]_vars => IInv'
<1> SUFFICES ASSUME IInv, [Next]_vars PROVE IInv'
  OBVIOUS
<1>1. TypeOK' /\ ReadBudget' /\ WriteBudget' /\ WaitBudget' /\ AgeBudget'
  BY TypeOKStep, ReadBudgetStep, WriteBudgetStep, WaitBudgetStep, AgeBudgetStep
     DEF IInv
<1>2. ASSUME Returned' PROVE HoldWithin'
  <2>1. age' = age
    BY <1>2 DEF Next, Worker, Client, Tick, BlockedInRead, BlockedInWrite, Returned,
       vars, timeVars, Start, ReadSocket, EndOfInput, TakeByte, EndLine, TooLong,
       ReadTimesOut, NotFound, Resolve, Respond, FileFault, NextChunk, Copy,
       WriteReturns, WriteTimesOut, Done, SocketFault, Send, CloseWrite, Receive,
       Vanish, CloseResets
  <2> QED BY <2>1, IInvHoldWithin DEF HoldWithin
<1> QED BY <1>1, <1>2 DEF IInv

(* The inductive invariant of the handler: its types, and the budgets of    *)
(* socket calls out of which its age is paid.                               *)
THEOREM ConnIInv == Spec => []IInv
BY InitIInv, NextIInv, PTL DEF Spec

(* Every variable of the handler keeps its type: the selector buffer stays  *)
(* within MAX_SELECTOR_BYTES + 1 however much the client sends.             *)
THEOREM ConnTypeOK == Spec => []TypeOK
<1>1. IInv => TypeOK
  BY DEF IInv
<1> QED BY ConnIInv, <1>1, PTL

(* A connection holds its worker no longer than a read timeout for each     *)
(* byte of the longest line and a write timeout for each byte of the        *)
(* largest answer, whatever the client sends, reads or withholds.           *)
THEOREM ConnHoldWithin == Spec => []HoldWithin
BY ConnIInv, IInvHoldWithin, PTL
-------------------------------------------------------------------------------
(* While the line is read, the client's bytes are the line, then what the   *)
(* BufReader holds, then what the socket holds; later on the line is still  *)
(* where they begin.                                                        *)
Fifo ==
    pc \in {"start", "read", "refuse"} =>
        /\ Len(total) = Len(line) + Len(rbuf) + Len(inq)
        /\ \A k \in 1 .. Len(rbuf) : total[Len(line) + k] = rbuf[k]
        /\ \A k \in 1 .. Len(inq) : total[Len(line) + Len(rbuf) + k] = inq[k]

Refused ==
    pc = "refuse" => rbuf # <<>> /\ Head(rbuf) # "nl" /\ Len(line) = MaxSelector + 1

LineInv == Fifo /\ Refused /\ OneLine /\ Len(line) <= Len(total)

\* What OneLine and Fifo say of a step that moves no byte into the line.
LEMMA LineStands ==
    ASSUME TypeOK, LineInv, UNCHANGED <<line, rbuf, inq, total>>, eof => eof',
           pc' = pc \/ pc' \notin {"start", "read", "resolve", "refuse"}
                    \/ (pc = "start" /\ pc' = "read")
    PROVE  LineInv'
BY DEF LineInv, Fifo, Refused, OneLine

LEMMA ReadSocketLine ==
    ASSUME TypeOK, LineInv, ReadSocket
    PROVE  LineInv'
<1> DEFINE n == Least(Len(inq), BufCap)
<1>1. Len(inq) \in Nat /\ Len(line) \in Nat /\ Len(total) \in Nat
  BY LenProperties DEF TypeOK
<1>2. n \in 0 .. Len(inq)
  BY <1>1 DEF Least
<1>3. /\ rbuf' = SubSeq(inq, 1, n) /\ inq' = SubSeq(inq, n + 1, Len(inq))
      /\ rbuf = <<>> /\ pc = "read"
      /\ UNCHANGED <<pc, line, total, eof>>
  BY DEF ReadSocket
<1> HIDE DEF n
<1>4. /\ Len(rbuf') = n /\ \A k \in 1 .. n : rbuf'[k] = inq[k]
      /\ Len(inq') = Len(inq) - n
      /\ \A k \in 1 .. (Len(inq) - n) : inq'[k] = inq[n + k]
  BY <1>1, <1>2, <1>3, SubSeqProperties DEF TypeOK
<1>5. /\ Len(total) = Len(line) + Len(inq)
      /\ \A k \in 1 .. Len(inq) : total[Len(line) + k] = inq[k]
  BY <1>1, <1>3 DEF LineInv, Fifo
<1>6. \A k \in 1 .. (Len(inq) - n) : total[Len(line) + n + k] = inq'[k]
  <2> TAKE k \in 1 .. (Len(inq) - n)
  <2>1. n + k \in 1 .. Len(inq) /\ Len(line) + n + k = Len(line) + (n + k)
    BY <1>1, <1>2
  <2> QED BY <2>1, <1>4, <1>5
<1>7. Fifo'
  <2>0. line' = line /\ total' = total
    BY <1>3
  <2>1. Len(total') = Len(line') + Len(rbuf') + Len(inq')
    <3>1. Len(line) + Len(inq) = Len(line) + n + (Len(inq) - n)
      BY <1>1, <1>2
    <3> QED BY <2>0, <1>4, <1>5, <3>1
  <2>2. \A k \in 1 .. Len(rbuf') : total'[Len(line') + k] = rbuf'[k]
    <3>1. \A k \in 1 .. n : k \in 1 .. Len(inq)
      BY <1>1, <1>2
    <3> QED BY <2>0, <1>4, <1>5, <3>1
  <2>3. \A k \in 1 .. Len(inq') : total'[Len(line') + Len(rbuf') + k] = inq'[k]
    BY <2>0, <1>4, <1>6
  <2> QED BY <2>1, <2>2, <2>3 DEF Fifo
<1>8. Refused' /\ OneLine'
  BY <1>3 DEF LineInv, Refused, OneLine
<1>9. Len(line') <= Len(total')
  BY <1>3 DEF LineInv
<1> QED BY <1>7, <1>8, <1>9 DEF LineInv

LEMMA TakeByteLine ==
    ASSUME TypeOK, LineInv, TakeByte
    PROVE  LineInv'
<1>1. Len(line) \in Nat /\ Len(rbuf) \in Nat /\ Len(inq) \in Nat /\ Len(rbuf) # 0
  BY LenProperties, EmptySeq DEF TypeOK, TakeByte
<1>2. /\ Len(line') = Len(line) + 1 /\ line'[Len(line) + 1] = Head(rbuf)
      /\ \A k \in 1 .. Len(line) : line'[k] = line[k]
  BY AppendProperties, HeadTailProperties DEF TypeOK, TakeByte
<1>3. Head(rbuf) = rbuf[1] /\ Head(rbuf) # "nl" /\ rbuf' = Tail(rbuf)
  BY DEF TakeByte
<1>4. Len(rbuf') = Len(rbuf) - 1 /\ \A k \in 1 .. (Len(rbuf) - 1) : rbuf'[k] = rbuf[k + 1]
  BY <1>3, HeadTailProperties DEF TypeOK, TakeByte
<1>5. UNCHANGED <<pc, inq, total, eof>> /\ pc = "read"
  BY DEF TakeByte, clientVars
<1>6. total[Len(line) + 1] = Head(rbuf)
  BY <1>1, <1>3, <1>5 DEF LineInv, Fifo
<1>7. \A k \in 1 .. (Len(rbuf) - 1) : total[Len(line) + 1 + k] = rbuf'[k]
  <2> TAKE k \in 1 .. (Len(rbuf) - 1)
  <2>1. k + 1 \in 1 .. Len(rbuf) /\ Len(line) + 1 + k = Len(line) + (k + 1)
    BY <1>1
  <2> QED BY <2>1, <1>4, <1>5 DEF LineInv, Fifo
<1>8. \A k \in 1 .. Len(inq) : total[Len(line') + Len(rbuf') + k] = inq'[k]
  BY <1>1, <1>2, <1>4, <1>5 DEF LineInv, Fifo
<1>9. Fifo'
  <2>1. Len(total') = Len(line') + Len(rbuf') + Len(inq')
    BY <1>1, <1>2, <1>4, <1>5 DEF LineInv, Fifo
  <2>2. \A k \in 1 .. Len(rbuf') : total'[Len(line') + k] = rbuf'[k]
    BY <1>1, <1>2, <1>4, <1>5, <1>7
  <2>3. \A k \in 1 .. Len(inq') : total'[Len(line') + Len(rbuf') + k] = inq'[k]
    BY <1>5, <1>8
  <2> QED BY <2>1, <2>2, <2>3 DEF Fifo
<1>10. \A k \in 1 .. Len(line') : line'[k] = total'[k] /\ line'[k] # "nl"
  BY <1>1, <1>2, <1>3, <1>5, <1>6 DEF LineInv, OneLine
<1>11. Len(line') <= Len(total')
  BY <1>1, <1>2, <1>5 DEF LineInv, Fifo
<1> QED BY <1>5, <1>9, <1>10, <1>11 DEF LineInv, Refused, OneLine

LEMMA SendLine ==
    ASSUME TypeOK, LineInv, NEW b \in Bytes, Send(b)
    PROVE  LineInv'
<1>1. /\ Len(line) \in Nat /\ Len(rbuf) \in Nat /\ Len(inq) \in Nat
      /\ Len(total) \in Nat
  BY LenProperties DEF TypeOK
<1>2. /\ Len(total') = Len(total) + 1 /\ total'[Len(total) + 1] = b
      /\ \A k \in 1 .. Len(total) : total'[k] = total[k]
  BY AppendProperties DEF TypeOK, Send
<1>3. /\ Len(inq') = Len(inq) + 1 /\ inq'[Len(inq) + 1] = b
      /\ \A k \in 1 .. Len(inq) : inq'[k] = inq[k]
  BY AppendProperties DEF TypeOK, Send
<1>4. UNCHANGED <<pc, line, rbuf, eof>> /\ ~eof
  BY DEF Send, readVars
<1>5. pc = "refuse" => Len(rbuf) # 0 /\ Head(rbuf) = rbuf[1]
  BY EmptySeq DEF LineInv, Refused, TypeOK
<1>6. Fifo'
  <2> SUFFICES ASSUME pc \in {"start", "read", "refuse"} PROVE Fifo'
    BY <1>4 DEF Fifo
  <2>1. Len(total) = Len(line) + Len(rbuf) + Len(inq)
    BY DEF LineInv, Fifo
  <2>2. \A k \in 1 .. Len(rbuf) : total'[Len(line) + k] = rbuf[k]
    BY <1>1, <1>2, <2>1 DEF LineInv, Fifo
  <2>3. \A k \in 1 .. Len(inq) : total'[Len(line) + Len(rbuf) + k] = inq[k]
    BY <1>1, <1>2, <2>1 DEF LineInv, Fifo
  <2>4. \A k \in 1 .. Len(inq') : total'[Len(line) + Len(rbuf) + k] = inq'[k]
    BY <1>1, <1>2, <1>3, <2>1, <2>3
  <2> QED BY <1>1, <1>2, <1>3, <1>4, <2>1, <2>2, <2>4 DEF Fifo
<1>7. \A k \in 1 .. Len(line) : k \in 1 .. Len(total)
  BY <1>1 DEF LineInv
<1> QED BY <1>1, <1>2, <1>4, <1>6, <1>7 DEF LineInv, Refused, OneLine
LEMMA LineInvStep ==
    ASSUME TypeOK, LineInv, [Next]_vars
    PROVE  LineInv'
<1> USE DEF readVars, writeVars, timeVars, clientVars, outVars
<1>1. CASE Start
  BY <1>1, LineStands DEF Start
<1>2. CASE ReadSocket
  BY <1>2, ReadSocketLine
<1>3. CASE EndOfInput
  <2>1. Len(line) \in Nat /\ Len(rbuf) = 0 /\ Len(inq) = 0
    BY <1>3, LenProperties, EmptySeq DEF EndOfInput, TypeOK
  <2>2. Len(total) = Len(line)
    BY <1>3, <2>1 DEF EndOfInput, LineInv, Fifo
  <2> QED BY <1>3, <2>1, <2>2 DEF EndOfInput, LineInv, Fifo, Refused, OneLine
<1>4. CASE TakeByte
  BY <1>4, TakeByteLine
<1>5. CASE EndLine
  <2>1. /\ Len(line) \in Nat /\ Len(rbuf) \in Nat /\ Len(inq) \in Nat
        /\ Len(rbuf) # 0 /\ rbuf[1] = "nl"
    BY <1>5, LenProperties, EmptySeq DEF EndLine, TypeOK
  <2>2. Len(line) < Len(total) /\ total[Len(line) + 1] = "nl"
    BY <1>5, <2>1 DEF EndLine, LineInv, Fifo
  <2> QED BY <1>5, <2>2 DEF EndLine, LineInv, Fifo, Refused, OneLine
<1>6. CASE TooLong
  <2>1. /\ Len(line) \in Nat /\ Len(rbuf) \in Nat /\ Len(inq) \in Nat
        /\ Len(rbuf) # 0 /\ rbuf[1] # "nl" /\ Len(line) = MaxSelector + 1
    BY <1>6, LenProperties, EmptySeq DEF TooLong, TypeOK
  <2>2. Len(line) < Len(total) /\ total[Len(line) + 1] # "nl"
    BY <1>6, <2>1 DEF TooLong, LineInv, Fifo
  <2> QED BY <1>6, <2>1, <2>2 DEF TooLong, LineInv, Fifo, Refused, OneLine
<1>7. CASE ReadTimesOut
  BY <1>7, LineStands DEF ReadTimesOut
<1>8. CASE NotFound
  BY <1>8, LineStands DEF NotFound, Respond
<1>9. CASE Resolve
  BY <1>9, LineStands DEF Resolve, Respond
<1>10. CASE FileFault
  BY <1>10, LineStands DEF FileFault
<1>11. CASE NextChunk
  BY <1>11, LineStands DEF NextChunk
<1>12. CASE Copy
  BY <1>12, LineStands DEF Copy
<1>13. CASE WriteReturns
  BY <1>13, LineStands DEF WriteReturns
<1>14. CASE WriteTimesOut
  BY <1>14, LineStands DEF WriteTimesOut
<1>15. CASE Done
  BY <1>15, LineStands DEF Done
<1>16. CASE SocketFault
  BY <1>16, LineStands DEF SocketFault
<1>17. CASE Tick
  BY <1>17, LineStands DEF Tick
<1>18. ASSUME NEW b \in Bytes, Send(b) PROVE LineInv'
  BY <1>18, SendLine
<1>19. CASE CloseWrite
  BY <1>19, LineStands DEF CloseWrite
<1>20. CASE Receive
  BY <1>20, LineStands DEF Receive
<1>21. CASE Vanish
  BY <1>21, LineStands DEF Vanish
<1>22. CASE CloseResets
  BY <1>22, LineStands DEF CloseResets
<1>23. CASE UNCHANGED vars
  BY <1>23, LineStands DEF vars
<1> QED
  BY <1>1, <1>2, <1>3, <1>4, <1>5, <1>6, <1>7, <1>8, <1>9, <1>10, <1>11,
     <1>12, <1>13, <1>14, <1>15, <1>16, <1>17, <1>18, <1>19, <1>20,
     <1>21, <1>22, <1>23
  DEF Next, Worker, Client

(* The selector that is resolved is the client's first line, in whatever    *)
(* pieces it arrives, and only a longer one than allowed is refused unread. *)
THEOREM ConnOneLine == Spec => []OneLine
<1>1. Init => LineInv
  <2>1. Len(<<>>) = 0
    BY EmptySeq
  <2> QED BY <2>1 DEF Init, LineInv, Fifo, Refused, OneLine
<1>2. TypeOK /\ LineInv /\ [Next]_vars => LineInv'
  BY LineInvStep
<1>3. LineInv => OneLine
  BY DEF LineInv
<1> QED BY <1>1, <1>2, <1>3, ConnTypeOK, PTL DEF Spec
-------------------------------------------------------------------------------
(* Before there is an answer nothing is written, and nothing is lost.       *)
AnswerInv ==
    /\ AnswerComplete
    /\ pc \in {"start", "read", "resolve", "refuse"} =>
          /\ answer = 0 /\ left = 0 /\ chunk = 0 /\ ~copied
          /\ got = 0 /\ outq = 0 /\ lost = 0

LEMMA AnswerInvStep ==
    ASSUME TypeOK, AnswerInv, [Next]_vars
    PROVE  AnswerInv'
<1> USE DEF AnswerInv, AnswerComplete, readVars, writeVars, timeVars, clientVars, outVars
<1>1. ASSUME UNCHANGED <<answer, left, chunk, copied, outVars>>,
             pc' = pc \/ pc' \in {"read", "resolve", "refuse", "err"},
             pc' \in {"read", "resolve", "refuse"} => pc \in {"start", "read", "resolve", "refuse"}
      PROVE  AnswerInv'
  BY <1>1
<1>2. Start \/ ReadSocket \/ EndOfInput \/ TakeByte \/ EndLine \/ TooLong \/ ReadTimesOut
      => AnswerInv'
  BY <1>1 DEF Start, ReadSocket, EndOfInput, TakeByte, EndLine, TooLong, ReadTimesOut
<1>3. FileFault \/ WriteTimesOut \/ SocketFault \/ Tick \/ CloseWrite \/ Vanish
      \/ UNCHANGED vars => AnswerInv'
  BY <1>1 DEF FileFault, WriteTimesOut, SocketFault, Tick, CloseWrite, Vanish, vars
<1>4. ASSUME NEW b \in Bytes, Send(b) PROVE AnswerInv'
  BY <1>1, <1>4 DEF Send
<1>5. ASSUME NEW size \in 0 .. MaxAnswer, NEW fromFile \in BOOLEAN,
             pc \in {"refuse", "resolve"}, Respond(size, fromFile)
      PROVE  AnswerInv'
  BY <1>5 DEF Respond, TypeOK
<1>6. CASE NotFound
  BY <1>5, <1>6 DEF NotFound
<1>7. CASE Resolve
  BY <1>5, <1>7 DEF Resolve
<1>8. CASE NextChunk
  <2>1. Least(Chunk, left) \in Nat
    BY DEF Least, TypeOK
  <2> QED BY <1>8, <2>1 DEF NextChunk, TypeOK
<1>9. CASE Copy
  <2> DEFINE n == Least(chunk, Window - outq)
  <2>1. n \in Nat /\ n <= chunk
    BY <1>9 DEF Copy, Least, TypeOK
  <2>2. /\ pc = "write" /\ outq' = outq + n /\ chunk' = chunk - n
        /\ UNCHANGED <<pc, answer, left, got, lost>>
    BY <1>9 DEF Copy
  <2> HIDE DEF n
  <2>3. (got + outq + lost + chunk + left = answer)'
    BY <2>1, <2>2 DEF TypeOK
  <2> QED BY <2>2, <2>3
<1>10. CASE WriteReturns
  BY <1>10 DEF WriteReturns, TypeOK
<1>11. CASE Done
  BY <1>11 DEF Done, TypeOK
<1>12. CASE Receive
  BY <1>12 DEF Receive, TypeOK
<1>13. CASE CloseResets
  BY <1>13 DEF CloseResets, Returned, TypeOK
<1> QED
  BY <1>2, <1>3, <1>4, <1>6, <1>7, <1>8, <1>9, <1>10, <1>11, <1>12, <1>13
  DEF Next, Worker, Client

(* Ok means that the whole answer has been written, however short the       *)
(* writes were, and no byte of it is counted twice or forgotten.            *)
THEOREM ConnAnswerComplete == Spec => []AnswerComplete
<1>1. Init => AnswerInv
  BY DEF Init, AnswerInv, AnswerComplete
<1>2. TypeOK /\ AnswerInv /\ [Next]_vars => AnswerInv'
  BY AnswerInvStep
<1>3. AnswerInv => AnswerComplete
  BY DEF AnswerInv
<1> QED BY <1>1, <1>2, <1>3, ConnTypeOK, PTL DEF Spec
===============================================================================
