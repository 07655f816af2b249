----------------------- MODULE WebSocketSession_proofs -----------------------
(***************************************************************************)
(* Proofs for WebSocketSession: one write at a time, and responses reach   *)
(* the stream as reply() was given them, for any number of requests.       *)
(***************************************************************************)
EXTENDS WebSocketSession, TLAPS

\* Responses that were written and removed from the queue.
Removed == IF write = "ok" THEN Len(written) - 1 ELSE Len(written)

\* A write is outstanding or unhandled exactly when its state says so, and its
\* response is then the front of the queue.
WriteInv ==
    /\ writing \in {0, 1}
    /\ writing = 0 <=> write \in {"idle", "failed"}
    /\ writing = 1 => mResponseQueue # <<>>

\* A response is in one place: removed, in the queue or posted, in this order.
PlaceInv ==
    /\ Removed >= 0
    /\ Len(replied) = Removed + Len(mResponseQueue) + Len(posted)
    /\ \A k \in 1..Len(mResponseQueue) :
           mResponseQueue[k] = replied[Removed + k]
    /\ \A k \in 1..Len(posted) :
           posted[k] = replied[Removed + Len(mResponseQueue) + k]
    /\ \A k \in 1..Len(written) : written[k] = replied[k]

\* The request that is being handled.
ReadInv == read = "ok" => received \in Request

IInv == TypeOK /\ ReadInv /\ WriteInv /\ PlaceInv

\* The responses in the queue and the one just written are among those replied.
LEMMA InvariantImplies == IInv => SingleWriter /\ NoGaps
  BY DEF IInv, TypeOK, WriteInv, PlaceInv, Removed, SingleWriter, NoGaps

\* Run starts a session without requests and responses.
LEMMA InitInvariant == Init => IInv
  BY MaxRequestsAssumption
  DEF Init, IInv, TypeOK, ReadInv, WriteInv, PlaceInv, Removed, Request

\* Steps of the read side leave the responses where they are.
LEMMA ReadSide ==
  ASSUME IInv, AcceptCompletes \/ ReadCompletes \/ OnAccept
  PROVE  IInv'
  <1>1. TypeOK' /\ ReadInv'
    BY MaxRequestsAssumption
    DEF IInv, TypeOK, ReadInv, Request, AcceptCompletes, ReadCompletes, OnAccept
  <1>2. WriteInv' /\ PlaceInv'
    BY DEF IInv, WriteInv, PlaceInv, Removed, AcceptCompletes, ReadCompletes,
           OnAccept
  <1> QED BY <1>1, <1>2 DEF IInv

\* onRead() appends a response to the posted ones or does not.
LEMMA OnReadSide ==
  ASSUME IInv, OnRead
  PROVE  IInv'
  <1> USE DEF IInv
  <1>1. CASE UNCHANGED <<posted, replied>>
    BY <1>1 DEF TypeOK, ReadInv, WriteInv, PlaceInv, Removed, OnRead
  <1>2. CASE /\ read = "ok"
             /\ posted' = Append(posted, received)
             /\ replied' = Append(replied, received)
    <2>1. received \in Request
      BY <1>2 DEF ReadInv
    <2>2. TypeOK' /\ ReadInv' /\ WriteInv'
      BY <1>2, <2>1 DEF TypeOK, ReadInv, WriteInv, OnRead
    <2>3. UNCHANGED <<Removed, mResponseQueue, written>>
      BY <1>2 DEF Removed, OnRead
    <2>4. Removed \in Nat /\ Len(posted) \in Nat /\ Len(mResponseQueue) \in Nat
      BY DEF TypeOK, PlaceInv, Removed
    <2>5. /\ Len(replied') = Len(replied) + 1
          /\ \A k \in 1..Len(replied) : replied'[k] = replied[k]
          /\ replied'[Len(replied) + 1] = received
      BY <1>2, <2>1 DEF TypeOK
    <2>6. /\ Len(posted') = Len(posted) + 1
          /\ \A k \in 1..Len(posted) : posted'[k] = posted[k]
          /\ posted'[Len(posted) + 1] = received
      BY <1>2, <2>1 DEF TypeOK
    <2>7. \A k \in 1..Len(posted') :
              posted'[k] = replied'[Removed + Len(mResponseQueue) + k]
      BY <2>4, <2>5, <2>6 DEF PlaceInv
    <2>8. Len(written) <= Len(replied)
      BY <2>4 DEF TypeOK, PlaceInv, WriteInv, Removed
    <2>9. \A k \in 1..Len(mResponseQueue) :
              mResponseQueue[k] = replied'[Removed + k]
      BY <2>4, <2>5 DEF PlaceInv
    <2>10. \A k \in 1..Len(written) : written[k] = replied'[k]
      BY <2>5, <2>8 DEF TypeOK, PlaceInv
    <2>11. Len(replied') = Removed + Len(mResponseQueue) + Len(posted')
      BY <2>4, <2>5, <2>6 DEF PlaceInv
    <2>12. PlaceInv'
      BY <2>3, <2>4, <2>7, <2>9, <2>10, <2>11 DEF PlaceInv
    <2> QED BY <2>2, <2>12
  <1> QED BY <1>1, <1>2 DEF OnRead

\* queueSend() moves the first posted response behind the queue.
LEMMA QueueSendSide ==
  ASSUME IInv, QueueSend
  PROVE  IInv'
  <1> USE DEF IInv
  <1>1. /\ Head(posted) \in Request
        /\ posted' \in Seq(Request) /\ Len(posted') = Len(posted) - 1
        /\ \A k \in 1..Len(posted') : posted'[k] = posted[k + 1]
    BY DEF TypeOK, QueueSend
  <1>2. /\ mResponseQueue' \in Seq(Request)
        /\ Len(mResponseQueue') = Len(mResponseQueue) + 1
        /\ \A k \in 1..Len(mResponseQueue) :
               mResponseQueue'[k] = mResponseQueue[k]
        /\ mResponseQueue'[Len(mResponseQueue) + 1] = posted[1]
    BY <1>1 DEF TypeOK, QueueSend
  <1>3. Len(mResponseQueue) = 0 => writing = 0
    BY DEF TypeOK, WriteInv
  <1>4. WriteInv' /\ writing' \in Nat /\ write' \in {write, "pending"}
    BY <1>2, <1>3 DEF TypeOK, WriteInv, QueueSend, AsyncWrite
  <1>5. TypeOK' /\ ReadInv'
    BY <1>1, <1>2, <1>4 DEF TypeOK, ReadInv, QueueSend, readVars
  <1>6. UNCHANGED <<Removed, replied, written>>
    BY <1>2, <1>3 DEF TypeOK, WriteInv, Removed, QueueSend, AsyncWrite
  <1>7. Removed \in Nat /\ Len(posted) \in Nat \ {0}
        /\ Len(mResponseQueue) \in Nat
    BY DEF TypeOK, PlaceInv, Removed, QueueSend
  <1>8. \A k \in 1..Len(mResponseQueue') :
            mResponseQueue'[k] = replied[Removed + k]
    <2> SUFFICES ASSUME NEW k \in 1..(Len(mResponseQueue) + 1)
                 PROVE  mResponseQueue'[k] = replied[Removed + k]
      BY <1>2
    <2>1. CASE k \in 1..Len(mResponseQueue)
      BY <1>2, <2>1 DEF PlaceInv
    <2>2. CASE k = Len(mResponseQueue) + 1
      <3>1. posted[1] = replied[Removed + Len(mResponseQueue) + 1]
        BY <1>7 DEF PlaceInv
      <3> QED BY <1>2, <1>7, <2>2, <3>1
    <2> QED BY <1>7, <2>1, <2>2
  <1>9. \A k \in 1..Len(posted') :
            posted'[k] = replied[Removed + Len(mResponseQueue') + k]
    <2> SUFFICES ASSUME NEW k \in 1..(Len(posted) - 1)
                 PROVE  posted[k + 1] =
                            replied[Removed + (Len(mResponseQueue) + 1) + k]
      BY <1>1, <1>2
    <2>1. /\ k + 1 \in 1..Len(posted)
          /\ Removed + (Len(mResponseQueue) + 1) + k =
                 Removed + Len(mResponseQueue) + (k + 1)
      BY <1>7
    <2> QED BY <2>1 DEF PlaceInv
  <1>10. Len(replied) = Removed + Len(mResponseQueue') + Len(posted')
    <2>1. Len(replied) = Removed + Len(mResponseQueue) + Len(posted)
      BY DEF PlaceInv
    <2> QED BY <1>1, <1>2, <1>7, <2>1
  <1>11. \A k \in 1..Len(written) : written[k] = replied[k]
    BY DEF PlaceInv
  <1>12. PlaceInv'
    BY <1>6, <1>7, <1>8, <1>9, <1>10, <1>11 DEF PlaceInv
  <1> QED BY <1>4, <1>5, <1>12

\* A write that completes has written the front of the queue, which is the next
\* response that reply() was given.
LEMMA WriteCompletesSide ==
  ASSUME IInv, WriteCompletes
  PROVE  IInv'
  <1> USE DEF IInv
  <1>1. CASE write' = "error"
    BY <1>1 DEF TypeOK, ReadInv, WriteInv, PlaceInv, Removed, WriteCompletes,
                readVars
  <1>2. CASE write' = "ok" /\ written' = Append(written, Head(mResponseQueue))
    <2>1. mResponseQueue # <<>> /\ Head(mResponseQueue) \in Request
      BY DEF TypeOK, WriteInv, WriteCompletes
    <2>2. TypeOK' /\ ReadInv' /\ WriteInv'
      BY <1>2, <2>1 DEF TypeOK, ReadInv, WriteInv, WriteCompletes, readVars
    <2>3. Removed' = Removed /\ Removed = Len(written)
      BY <1>2, <2>1 DEF TypeOK, Removed, WriteCompletes
    <2>4. Head(mResponseQueue) = replied[Len(written) + 1]
      <3>1. 1 \in 1..Len(mResponseQueue)
            /\ Head(mResponseQueue) = mResponseQueue[1]
        BY <2>1 DEF TypeOK
      <3> QED BY <2>3, <3>1 DEF PlaceInv
    <2>5. \A k \in 1..Len(written') : written'[k] = replied[k]
      BY <1>2, <2>1, <2>4 DEF TypeOK, PlaceInv
    <2>6. UNCHANGED <<Removed, mResponseQueue, posted, replied>>
      BY <2>3 DEF WriteCompletes
    <2>7. PlaceInv'
      BY <2>5, <2>6 DEF PlaceInv
    <2> QED BY <2>2, <2>7
  <1> QED BY <1>1, <1>2 DEF WriteCompletes

\* onWrite() removes what was written, and only that.
LEMMA OnWriteSide ==
  ASSUME IInv, OnWrite
  PROVE  IInv'
  <1> USE DEF IInv
  <1>1. CASE write = "error"
    BY <1>1 DEF TypeOK, ReadInv, WriteInv, PlaceInv, Removed, OnWrite, readVars
  <1>2. CASE write = "ok"
    <2>1. mResponseQueue # <<>> /\ writing = 1
      BY <1>2 DEF TypeOK, WriteInv
    <2>2. /\ mResponseQueue' \in Seq(Request)
          /\ Len(mResponseQueue') = Len(mResponseQueue) - 1
          /\ \A k \in 1..Len(mResponseQueue') :
                 mResponseQueue'[k] = mResponseQueue[k + 1]
      <3>1. mResponseQueue' = Tail(mResponseQueue)
        BY <1>2 DEF OnWrite
      <3> QED BY <2>1, <3>1 DEF TypeOK
    <2>3. WriteInv' /\ writing' \in Nat /\ write' \in {"idle", "pending"}
      BY <1>2, <2>1 DEF TypeOK, WriteInv, OnWrite, AsyncWrite
    <2>4. TypeOK' /\ ReadInv'
      BY <1>2, <2>2, <2>3 DEF TypeOK, ReadInv, OnWrite, readVars
    <2>5. Removed' = Removed + 1
      BY <1>2, <2>3 DEF TypeOK, Removed, OnWrite
    <2>6. UNCHANGED <<posted, replied, written>>
      BY <1>2 DEF OnWrite
    <2>7. /\ Removed \in Nat
          /\ Len(mResponseQueue) \in Nat \ {0} /\ Len(posted) \in Nat
      BY <2>1 DEF TypeOK, PlaceInv, Removed
    <2>8. Len(replied) = Removed' + Len(mResponseQueue') + Len(posted)
      <3>1. Len(replied) = Removed + Len(mResponseQueue) + Len(posted)
        BY DEF PlaceInv
      <3> QED BY <2>2, <2>5, <2>7, <3>1
    <2>9. \A k \in 1..Len(mResponseQueue') :
              mResponseQueue'[k] = replied[Removed' + k]
      <3> SUFFICES ASSUME NEW k \in 1..(Len(mResponseQueue) - 1)
                   PROVE  mResponseQueue[k + 1] = replied[(Removed + 1) + k]
        BY <2>2, <2>5
      <3>1. /\ k + 1 \in 1..Len(mResponseQueue)
            /\ (Removed + 1) + k = Removed + (k + 1)
        BY <2>7
      <3> QED BY <3>1 DEF PlaceInv
    <2>10. Removed' + Len(mResponseQueue') = Removed + Len(mResponseQueue)
      BY <2>2, <2>5, <2>7
    <2>11. \A k \in 1..Len(posted) :
               posted[k] = replied[Removed' + Len(mResponseQueue') + k]
      BY <2>10 DEF PlaceInv
    <2>12. \A k \in 1..Len(written) : written[k] = replied[k]
      BY DEF PlaceInv
    <2>13. Removed' >= 0
      BY <2>5, <2>7
    <2>14. PlaceInv'
      BY <2>6, <2>8, <2>9, <2>11, <2>12, <2>13 DEF PlaceInv
    <2> QED BY <2>3, <2>4, <2>14
  <1> QED BY <1>1, <1>2 DEF OnWrite

\* The inductive invariant of the read and write loops.
THEOREM Invariance == Spec => []IInv
  <1>1. ASSUME IInv, [Next]_vars
        PROVE  IInv'
    <2>1. CASE AcceptCompletes \/ ReadCompletes \/ OnAccept
      BY <1>1, <2>1, ReadSide
    <2>2. CASE WriteCompletes
      BY <1>1, <2>2, WriteCompletesSide
    <2>3. CASE OnRead
      BY <1>1, <2>3, OnReadSide
    <2>4. CASE QueueSend
      BY <1>1, <2>4, QueueSendSide
    <2>5. CASE OnWrite
      BY <1>1, <2>5, OnWriteSide
    <2>6. CASE UNCHANGED vars
      BY <1>1, <2>6
      DEF vars, IInv, TypeOK, ReadInv, WriteInv, PlaceInv, Removed
    <2> QED BY <1>1, <2>1, <2>2, <2>3, <2>4, <2>5, <2>6
            DEF Next, Handler, Destroyed
  <1> QED BY <1>1, InitInvariant, PTL DEF Spec

\* queueSend() and onWrite() never have two writes outstanding.
THEOREM OneWriteAtATime == Spec => []SingleWriter
  BY Invariance, InvariantImplies, PTL

\* The peer receives a prefix of the responses, without loss or repetition.
THEOREM ResponsesInOrder == Spec => []NoGaps
  BY Invariance, InvariantImplies, PTL
===========================================================================
