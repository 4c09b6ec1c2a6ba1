---------------------------- MODULE AnyPeerProofs ----------------------------
(***************************************************************************)
(* Proofs about AnyPeer for any set of calls, any capacity and any peer    *)
(* that keeps the protocol.  TypeOK comes first; IInv strengthens OwnReply *)
(* and NoneStranded to an inductive invariant.                             *)
(***************************************************************************)
EXTENDS AnyPeer, SequenceTheorems, TLAPS

PeerStep == \/ PeerRead \/ PeerExit
            \/ \E m \in pending : PeerReply(m) \/ PeerLog(m)

(***************************************************************************)
(* A FIFO that has a message gives one up and keeps its type and bound.    *)
(***************************************************************************)
LEMMA TakeType ==
    ASSUME NEW fifo \in Seq(Message), Len(fifo) <= Capacity, fifo # <<>>
    PROVE  /\ Head(fifo) \in Message
           /\ Tail(fifo) \in Seq(Message)
           /\ Len(Tail(fifo)) <= Capacity
  BY WireAssumption, HeadTailProperties

(***************************************************************************)
(* A FIFO with room takes a message and keeps its type and bound.          *)
(***************************************************************************)
LEMMA PutType ==
    ASSUME NEW fifo \in Seq(Message), Room(fifo), NEW m \in Message
    PROVE  /\ Append(fifo, m) \in Seq(Message)
           /\ Len(Append(fifo, m)) <= Capacity
  BY WireAssumption, AppendProperties DEF Room

(***************************************************************************)
(* Typing: every variable keeps its type and no FIFO overflows.            *)
(***************************************************************************)
LEMMA TypeStep == TypeOK /\ [Next]_vars => TypeOK'
<1> SUFFICES ASSUME TypeOK, [Next]_vars PROVE TypeOK'
  OBVIOUS
<1> USE DEF TypeOK, ClientTypeOK, WireTypeOK, InCall, Outcome
<1>1. ASSUME NEW c \in Call, Register(c), UNCHANGED pending PROVE TypeOK'
  BY <1>1 DEF Register, NewId, wireVars
<1>2. ASSUME NEW c \in Call, Send(c), UNCHANGED pending PROVE TypeOK'
  <2>1. [id |-> msgid[c], call |-> c] \in Message
    BY DEF Message
  <2>2. c2s' \in Seq(Message) /\ Len(c2s') <= Capacity
    BY <1>2, <2>1, PutType DEF Send
  <2> QED  BY <1>2, <2>2 DEF Send
<1>3. ASSUME NEW c \in Call, NEW o \in Outcome, Finish(c, o),
             holder' \in SUBSET Call, UNCHANGED pending
      PROVE  TypeOK'
  BY <1>3 DEF Finish, wireVars
<1>4. ASSUME NEW c \in Call, Expire(c), UNCHANGED pending PROVE TypeOK'
  BY <1>4 DEF Expire, wireVars
<1>5. ASSUME NEW c \in Call, CallerStep(c), UNCHANGED pending PROVE TypeOK'
  BY <1>2, <1>3, <1>4, <1>5 DEF CallerStep, SendFails, TimedOut, Wake
<1>6. ASSUME ReaderStart \/ ReaderReset, UNCHANGED pending PROVE TypeOK'
  BY <1>6 DEF ReaderStart, ReaderReset, wireVars
<1>7. ASSUME ReaderLog, UNCHANGED pending PROVE TypeOK'
  <2>1. s2c' \in Seq(Message) /\ Len(s2c') <= Capacity /\ Head(s2c).call \in Call
    BY <1>7, TakeType DEF ReaderLog, Message
  <2> QED  BY <1>7, <2>1 DEF ReaderLog
<1>8. ASSUME ReaderDeliver, UNCHANGED pending PROVE TypeOK'
  <2>1. s2c' \in Seq(Message) /\ Len(s2c') <= Capacity /\ Head(s2c).call \in Call
    BY <1>8, TakeType DEF ReaderDeliver, Message
  <2> QED  BY <1>8, <2>1 DEF ReaderDeliver, Notified
<1>9. ASSUME ReaderEof, UNCHANGED pending PROVE TypeOK'
  BY <1>9 DEF ReaderEof, Notified, wireVars
<1>10. ASSUME Close \/ Join, UNCHANGED pending PROVE TypeOK'
  BY <1>10 DEF Close, Join, clientVars
<1>11. ASSUME PeerStep PROVE TypeOK'
  <2>1. ASSUME PeerRead PROVE TypeOK'
    <3>1. /\ c2s' \in Seq(Message) /\ Len(c2s') <= Capacity
          /\ Head(c2s) \in Message
      BY <2>1, TakeType DEF PeerRead
    <3> QED  BY <2>1, <3>1 DEF PeerRead, clientVars
  <2>2. ASSUME NEW m \in pending, PeerReply(m) PROVE TypeOK'
    <3>1. s2c' \in Seq(Message) /\ Len(s2c') <= Capacity
      BY <2>2, PutType DEF PeerReply
    <3> QED  BY <2>2, <3>1 DEF PeerReply, clientVars
  <2>3. ASSUME NEW m \in pending, PeerLog(m) PROVE TypeOK'
    <3>1. LogRecord(m.call) \in Message /\ m.call \in Call
      BY DEF LogRecord, Message, NoMsgId
    <3>2. s2c' \in Seq(Message) /\ Len(s2c') <= Capacity
      BY <2>3, <3>1, PutType DEF PeerLog
    <3> QED  BY <2>3, <3>1, <3>2 DEF PeerLog, clientVars
  <2>4. ASSUME PeerExit PROVE TypeOK'
    BY <2>4 DEF PeerExit, PeerEnds, clientVars
  <2> QED  BY <1>11, <2>1, <2>2, <2>3, <2>4 DEF PeerStep
<1>12. CASE UNCHANGED vars
  BY <1>12 DEF vars, clientVars, wireVars
<1> QED
  BY <1>1, <1>5, <1>6, <1>7, <1>8, <1>9, <1>10, <1>11, <1>12
     DEF Next, ClientNext, ReaderStep, PeerStep

\* The initial state is well typed.
LEMMA InitType == Init => TypeOK
<1>1. <<>> \in Seq(Message) /\ Len(<<>>) <= Capacity
  BY WireAssumption
<1>2. Init => ClientTypeOK
  <2>1. /\ [c \in Call |-> {}] \in [Call -> SUBSET Call]
        /\ [c \in Call |-> FALSE] \in [Call -> BOOLEAN]
    BY Zenon
  <2>2. /\ [c \in Call |-> 0] \in [Call -> Nat]
        /\ [c \in Call |-> "idle"] \in [Call -> {"idle"} \cup InCall \cup Outcome]
    BY SMT
  <2>3. 0 \in Nat
    OBVIOUS
  <2> QED  BY <2>1, <2>2, <2>3, Zenon DEF Init, ClientInit, ClientTypeOK
<1>3. Init => WireTypeOK /\ pending \in SUBSET Message
  BY <1>1 DEF Init, WireInit, WireTypeOK
<1> QED  BY <1>2, <1>3 DEF TypeOK

(***************************************************************************)
(* Type correctness: no FIFO overflows and no variable leaves its type,    *)
(* whatever the calls, the capacity and the peer.                          *)
(***************************************************************************)
THEOREM TypeCorrect == Spec => []TypeOK
  BY InitType, TypeStep, PTL DEF Spec

-----------------------------------------------------------------------------
(***************************************************************************)
(* The inductive invariant behind OwnReply and NoneStranded.               *)
(*                                                                         *)
(* Ids: an id is drawn when a call registers, never twice.  Wire: whatever *)
(* is between the two processes carries the id of the call it belongs to.  *)
(* Mail: hence a Future only ever receives the data of its own call, and a *)
(* woken thread finds that data or an error.  Stop: after EOF the write    *)
(* side fails, and nobody was left waiting.                                *)
(***************************************************************************)
Ids == /\ \A c \in Call : pc[c] # "idle" <=> msgid[c] # NoMsgId
       /\ \A c \in Call : msgid[c] <= lastId
       /\ \A c, d \in Call : msgid[c] = msgid[d] /\ c # d => msgid[c] = NoMsgId

WireIds == /\ \A m \in Range(c2s) \cup pending :
                  m.id # NoMsgId /\ m.id = msgid[m.call]
           /\ \A m \in Range(s2c) : m.id # NoMsgId => m.id = msgid[m.call]

Mail == \A c \in Call :
            /\ data[c] \subseteq {c}
            /\ pc[c] = "notified" /\ ~error[c] => data[c] = {c}

Stop == reader = "stopped" => peer # "up"

IInv == /\ TypeOK /\ Ids /\ WireIds /\ Mail /\ Stop
        /\ OutstandingExact /\ OwnReply /\ NoneStranded

(***************************************************************************)
(* What is left in a FIFO was in it; what enters is the new message.       *)
(***************************************************************************)
LEMMA TakeRange ==
    ASSUME NEW fifo \in Seq(Message), fifo # <<>>
    PROVE  Range(Tail(fifo)) \subseteq Range(fifo) /\ Head(fifo) \in Range(fifo)
<1>1. \A i \in DOMAIN Tail(fifo) : i + 1 \in DOMAIN fifo /\ Tail(fifo)[i] = fifo[i + 1]
  BY HeadTailProperties
<1>2. 1 \in DOMAIN fifo /\ Head(fifo) = fifo[1]
  BY HeadTailProperties
<1> QED  BY <1>1, <1>2 DEF Range

\* What is in a FIFO after a write is the new message and what was there.
LEMMA PutRange ==
    ASSUME NEW fifo \in Seq(Message), NEW m \in Message
    PROVE  Range(Append(fifo, m)) = Range(fifo) \cup {m}
<1>1. DOMAIN Append(fifo, m) = DOMAIN fifo \cup {Len(fifo) + 1}
  BY AppendProperties
<1>2. \A i \in DOMAIN fifo : Append(fifo, m)[i] = fifo[i]
  BY AppendProperties
<1>3. Append(fifo, m)[Len(fifo) + 1] = m
  BY AppendProperties
<1> QED  BY <1>1, <1>2, <1>3 DEF Range

(***************************************************************************)
(* A message carries the id of a registered call, so the Future found for  *)
(* a reply is the one of the call that the reply answers.                  *)
(***************************************************************************)
LEMMA MailboxOwn ==
    ASSUME Ids, WireIds, NEW m \in Range(s2c), m.id # NoMsgId,
           m.call \in Call, OutstandingExact
    PROVE  Mailbox(m.id) \subseteq {m.call}
  BY DEF Ids, WireIds, Mailbox, OutstandingExact

\* Every step preserves IInv: one case for each action.
LEMMA InvStep == IInv /\ [Next]_vars => IInv'
<1> SUFFICES ASSUME IInv, [Next]_vars PROVE IInv'
  OBVIOUS
<1>t. TypeOK /\ TypeOK'
  BY TypeStep DEF IInv
<1> USE <1>t
<1>1. ASSUME NEW c \in Call, Register(c), UNCHANGED pending PROVE IInv'
  <2> USE <1>1 DEF Register, IInv
  <2>1. Ids'
    BY DEF Ids, NewId, NoMsgId, TypeOK, ClientTypeOK
  <2>2. \A d \in Call : msgid[d] # NoMsgId => msgid'[d] = msgid[d]
    BY DEF Ids, TypeOK, ClientTypeOK
  <2>3. WireIds'
    <3>1. Range(c2s) \cup pending \cup Range(s2c) \subseteq Message
      BY RangeOfSeq, Zenon DEF TypeOK, WireTypeOK
    <3>2. \A m \in Message : m.call \in Call
      BY DEF Message
    <3> QED  BY <2>2, <3>1, <3>2 DEF WireIds, wireVars
  <2>4. Mail' /\ Stop' /\ OwnReply' /\ NoneStranded'
    BY DEF Mail, Stop, OwnReply, NoneStranded, wireVars, TypeOK, ClientTypeOK
  <2>5. OutstandingExact'
    BY DEF OutstandingExact, InCall, TypeOK, ClientTypeOK
  <2> QED  BY <2>1, <2>3, <2>4, <2>5
<1>2. ASSUME NEW c \in Call, Send(c), UNCHANGED pending PROVE IInv'
  <2> USE <1>2 DEF Send, IInv
  <2>1. Ids'
    BY DEF Ids, TypeOK, ClientTypeOK
  <2>2. WireIds'
    <3>1. [id |-> msgid[c], call |-> c] \in Message
      BY DEF Message, TypeOK, ClientTypeOK
    <3>2. Range(c2s') = Range(c2s) \cup {[id |-> msgid[c], call |-> c]}
      BY <3>1, PutRange DEF TypeOK, WireTypeOK
    <3>3. msgid[c] # NoMsgId
      BY DEF Ids
    <3> QED  BY <3>2, <3>3 DEF WireIds
  <2>3. Mail' /\ Stop' /\ OwnReply'
    BY DEF Mail, Stop, OwnReply, TypeOK, ClientTypeOK
  <2>4. NoneStranded'
    BY DEF Stop, NoneStranded, CanWrite, TypeOK, ClientTypeOK
  <2>5. OutstandingExact'
    BY DEF OutstandingExact, InCall, TypeOK, ClientTypeOK
  <2> QED  BY <2>1, <2>2, <2>3, <2>4, <2>5
<1>3. ASSUME NEW c \in Call, NEW o \in Outcome, Finish(c, o), pc[c] \in InCall,
             o = "reply" => data[c] = {c}, UNCHANGED pending
      PROVE  IInv'
  <2> USE <1>3 DEF Finish, IInv
  <2>1. Ids'
    BY DEF Ids, Outcome, InCall, TypeOK, ClientTypeOK
  <2>2. WireIds' /\ Stop'
    BY DEF WireIds, Stop, wireVars
  <2>3. Mail' /\ OwnReply' /\ NoneStranded'
    BY DEF Mail, OwnReply, NoneStranded, Outcome, TypeOK, ClientTypeOK
  <2>4. OutstandingExact'
    BY DEF OutstandingExact, InCall, Outcome, TypeOK, ClientTypeOK
  <2> QED  BY <2>1, <2>2, <2>3, <2>4
<1>4. ASSUME NEW c \in Call, SendFails(c) \/ TimedOut(c), UNCHANGED pending
      PROVE  IInv'
  BY <1>3, <1>4 DEF SendFails, TimedOut, Outcome, InCall
<1>5. ASSUME NEW c \in Call, Wake(c), UNCHANGED pending PROVE IInv'
  <2>1. ~error[c] => data[c] = {c}
    BY <1>5 DEF Wake, IInv, Mail
  <2> QED  BY <1>3, <1>5, <2>1 DEF Wake, Outcome, InCall
<1>6. ASSUME NEW c \in Call, Expire(c), UNCHANGED pending PROVE IInv'
  <2> USE <1>6 DEF Expire, IInv
  <2>1. Ids' /\ Mail' /\ Stop' /\ OwnReply' /\ NoneStranded'
    BY DEF Ids, Mail, Stop, OwnReply, NoneStranded, wireVars, TypeOK, ClientTypeOK
  <2>2. WireIds'
    BY DEF WireIds, wireVars
  <2>3. OutstandingExact'
    BY DEF OutstandingExact, InCall, TypeOK, ClientTypeOK
  <2> QED  BY <2>1, <2>2, <2>3
<1>7. ASSUME ReaderStart \/ ReaderReset, UNCHANGED pending PROVE IInv'
  <2> USE <1>7 DEF ReaderStart, ReaderReset, IInv, wireVars
  <2>1. Ids' /\ Mail' /\ OwnReply' /\ OutstandingExact' /\ WireIds'
    BY DEF Ids, Mail, OwnReply, OutstandingExact, WireIds
  <2>2. Stop' /\ NoneStranded'
    BY DEF Stop, NoneStranded
  <2> QED  BY <2>1, <2>2
<1>8. ASSUME ReaderLog, UNCHANGED pending PROVE IInv'
  <2> USE <1>8 DEF ReaderLog, IInv
  <2>1. WireIds'
    BY TakeRange DEF WireIds, TypeOK, WireTypeOK
  <2>2. Ids' /\ Mail' /\ OwnReply' /\ OutstandingExact' /\ Stop' /\ NoneStranded'
    BY DEF Ids, Mail, OwnReply, OutstandingExact, Stop, NoneStranded
  <2> QED  BY <2>1, <2>2
<1>9. ASSUME ReaderDeliver, UNCHANGED pending PROVE IInv'
  <2> USE <1>9 DEF ReaderDeliver, IInv
  <2>1. Head(s2c) \in Range(s2c) /\ Range(s2c') \subseteq Range(s2c)
        /\ Head(s2c).call \in Call
    BY TakeRange, TakeType DEF TypeOK, WireTypeOK, Message
  <2>2. WireIds'
    BY <2>1 DEF WireIds
  <2>3. Mailbox(Head(s2c).id) \subseteq {Head(s2c).call}
    BY <2>1, MailboxOwn
  <2>4. Mail' /\ OwnReply'
    BY <2>3 DEF Mail, OwnReply, Notified, TypeOK, ClientTypeOK
  <2>5. Ids' /\ OutstandingExact' /\ Stop' /\ NoneStranded'
    BY DEF Ids, OutstandingExact, Stop, NoneStranded, Notified, InCall,
           TypeOK, ClientTypeOK
  <2> QED  BY <2>2, <2>4, <2>5
<1>10. ASSUME ReaderEof, UNCHANGED pending PROVE IInv'
  <2> USE <1>10 DEF ReaderEof, IInv
  <2>1. Ids' /\ OutstandingExact'
    BY DEF Ids, OutstandingExact, Notified, InCall, TypeOK, ClientTypeOK
  <2>2. WireIds' /\ Stop'
    BY DEF WireIds, Stop, wireVars
  <2>3. Mail' /\ OwnReply'
    BY DEF Mail, OwnReply, Notified, OutstandingExact, InCall, TypeOK, ClientTypeOK
  <2>4. NoneStranded'
    BY DEF NoneStranded, Notified, OutstandingExact, InCall, TypeOK, ClientTypeOK
  <2> QED  BY <2>1, <2>2, <2>3, <2>4
<1>11. ASSUME Close \/ Join, UNCHANGED pending PROVE IInv'
  BY <1>11 DEF Close, Join, clientVars, IInv, Ids, WireIds, Mail, Stop,
               OutstandingExact, OwnReply, NoneStranded
<1>12. ASSUME PeerStep PROVE IInv'
  <2>1. UNCHANGED clientVars
    BY <1>12 DEF PeerStep, PeerRead, PeerExit, PeerReply, PeerLog
  <2>2. Ids' /\ Mail' /\ OwnReply' /\ OutstandingExact' /\ NoneStranded'
    BY <2>1 DEF clientVars, IInv, Ids, Mail, OwnReply, OutstandingExact,
                NoneStranded
  <2>3. Stop'
    BY <2>1, <1>12 DEF clientVars, IInv, Stop, PeerStep, PeerRead, PeerExit,
                       PeerEnds, PeerReply, PeerLog
  <2>4. ASSUME PeerRead PROVE WireIds'
    <3>1. Head(c2s) \in Range(c2s) /\ Range(c2s') \subseteq Range(c2s)
      BY <2>4, TakeRange DEF PeerRead, TypeOK, WireTypeOK
    <3> QED  BY <2>4, <3>1 DEF PeerRead, IInv, WireIds, clientVars
  <2>5. ASSUME NEW m \in pending, PeerReply(m) PROVE WireIds'
    <3>1. Range(s2c') = Range(s2c) \cup {m}
      BY <2>5, PutRange DEF PeerReply, TypeOK, WireTypeOK
    <3> QED  BY <2>5, <3>1 DEF PeerReply, IInv, WireIds, clientVars
  <2>6. ASSUME NEW m \in pending, PeerLog(m) PROVE WireIds'
    <3>1. LogRecord(m.call) \in Message /\ LogRecord(m.call).id = NoMsgId
      BY DEF LogRecord, NoMsgId, Message, TypeOK
    <3>2. Range(s2c') = Range(s2c) \cup {LogRecord(m.call)}
      BY <2>6, <3>1, PutRange DEF PeerLog, TypeOK, WireTypeOK
    <3> QED  BY <2>6, <3>1, <3>2 DEF PeerLog, IInv, WireIds, clientVars
  <2>7. ASSUME PeerExit PROVE WireIds'
    BY <2>7 DEF PeerExit, IInv, WireIds, clientVars
  <2> QED
    BY <1>12, <2>2, <2>3, <2>4, <2>5, <2>6, <2>7 DEF PeerStep, IInv
<1>13. CASE UNCHANGED vars
  BY <1>13 DEF vars, clientVars, wireVars, IInv, Ids, WireIds, Mail, Stop,
               OutstandingExact, OwnReply, NoneStranded
<1> QED
  BY <1>1, <1>2, <1>4, <1>5, <1>6, <1>7, <1>8, <1>9, <1>10, <1>11, <1>12, <1>13
     DEF Next, ClientNext, CallerStep, ReaderStep, PeerStep

\* The initial state satisfies the inductive invariant.
LEMMA InvInit == Init => IInv
<1> SUFFICES ASSUME Init PROVE IInv
  OBVIOUS
<1>1. TypeOK
  BY InitType
<1>2. Range(c2s) = {} /\ Range(s2c) = {}
  BY DEF Init, WireInit, Range
<1>3. Ids /\ WireIds /\ Mail /\ Stop
  BY <1>2 DEF Init, ClientInit, Ids, WireIds, Mail, Stop, NoMsgId
<1>4. OutstandingExact /\ OwnReply /\ NoneStranded
  BY DEF Init, ClientInit, OutstandingExact, OwnReply, NoneStranded, InCall
<1> QED  BY <1>1, <1>3, <1>4 DEF IInv

\* IInv holds in every reachable state.
THEOREM Invariance == Spec => []IInv
  BY InvInit, InvStep, PTL DEF Spec

(***************************************************************************)
(* send_recv never returns the reply of another call, for any number of    *)
(* calls and timeouts and any order of the replies.                        *)
(***************************************************************************)
THEOREM RepliesAreOwn == Spec => []OwnReply
<1>1. IInv => OwnReply
  BY DEF IInv
<1> QED  BY <1>1, Invariance, PTL

(***************************************************************************)
(* outstanding_msgs holds the calls inside send_recv and no others.        *)
(***************************************************************************)
THEOREM NothingLeaks == Spec => []OutstandingExact
<1>1. IInv => OutstandingExact
  BY DEF IInv
<1> QED  BY <1>1, Invariance, PTL

(***************************************************************************)
(* A reader thread that has handled EOF leaves nobody waiting.             *)
(***************************************************************************)
THEOREM EofStrandsNobody == Spec => []NoneStranded
<1>1. IInv => NoneStranded
  BY DEF IInv
<1> QED  BY <1>1, Invariance, PTL
=============================================================================
