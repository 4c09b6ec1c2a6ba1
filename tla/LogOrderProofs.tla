--------------------------- MODULE LogOrderProofs ---------------------------
(***************************************************************************)
(* The proofs of AnyPeer's LoggedBeforeReply and NeverForgotten.  They     *)
(* need to know where a request and its reply are.  A request is in one    *)
(* place at a time, so a peer that still has it to answer writes its log   *)
(* record before the reply, and the FIFO keeps them in that order; and it  *)
(* leaves the last of these places only for the Future of its caller.      *)
(***************************************************************************)
EXTENDS AnyPeerProofs

\* The calls with a reply that is on its way or was delivered.
Answered == {c \in Call : \/ data[c] # {}
                          \/ \E i \in 1 .. Len(s2c) : /\ s2c[i].call = c
                                                       /\ s2c[i].id # NoMsgId}

\* A request is written once, after its call began to send, and taken once.
OnePlace == /\ \A i, j \in 1 .. Len(c2s) : c2s[i].call = c2s[j].call => i = j
            /\ \A i \in 1 .. Len(c2s) : \A m \in pending : c2s[i].call # m.call
            /\ \A c \in Call : pc[c] \in {"idle", "sending"} =>
                  /\ \A i \in 1 .. Len(c2s) : c2s[i].call # c
                  /\ \A m \in pending : m.call # c
                  /\ c \notin Answered
            /\ \A i \in 1 .. Len(c2s) : c2s[i].call \notin Answered
            /\ \A m \in pending : m.call \notin Answered

\* A log record that was not handled yet is still ahead of the reply.
LogAhead == \A c \in emitted \ logged :
               /\ data[c] = {}
               /\ \E i \in 1 .. Len(s2c) : s2c[i] = LogRecord(c)
               /\ \A j \in 1 .. Len(s2c) : s2c[j].call = c /\ s2c[j].id # NoMsgId =>
                     \E i \in 1 .. (j - 1) : s2c[i] = LogRecord(c)

LogInv == IInv /\ OnePlace /\ LogAhead

-----------------------------------------------------------------------------
\* Where the messages are after the head of a FIFO was taken.
LEMMA TakeIndex ==
    ASSUME NEW fifo \in Seq(Message), fifo # <<>>
    PROVE  /\ Len(Tail(fifo)) = Len(fifo) - 1
           /\ Len(fifo) \in Nat /\ Len(fifo) >= 1
           /\ \A i \in 1 .. (Len(fifo) - 1) : Tail(fifo)[i] = fifo[i + 1]
           /\ Head(fifo) = fifo[1]
  BY HeadTailProperties

\* Where they are after a message was appended.
LEMMA PutIndex ==
    ASSUME NEW fifo \in Seq(Message), NEW m \in Message
    PROVE  /\ Len(Append(fifo, m)) = Len(fifo) + 1
           /\ Len(fifo) \in Nat
           /\ \A i \in 1 .. Len(fifo) : Append(fifo, m)[i] = fifo[i]
           /\ Append(fifo, m)[Len(fifo) + 1] = m
<1>1. Len(fifo) \in Nat
  OBVIOUS
<1>2. Len(Append(fifo, m)) = Len(fifo) + 1
  BY AppendProperties
<1>3. Append(fifo, m)[Len(fifo) + 1] = m
  BY AppendProperties
<1>4. ASSUME NEW i \in 1 .. Len(fifo) PROVE Append(fifo, m)[i] = fifo[i]
  BY <1>1, AppendProperties
<1> QED  BY <1>1, <1>2, <1>3, <1>4

\* A step that leaves the FIFOs, data, pending and the two histories alone, and
\* lets no call go back to before its send.
LEMMA QuietStep ==
    ASSUME OnePlace, LogAhead,
           UNCHANGED <<c2s, s2c, pending, data, emitted, logged>>,
           \A c \in Call : pc'[c] \in {"idle", "sending"} => pc[c] \in {"idle", "sending"}
    PROVE  OnePlace' /\ LogAhead'
<1>1. Answered' = Answered
  BY DEF Answered
<1>2. OnePlace'
  BY <1>1 DEF OnePlace
<1>3. LogAhead'
  BY DEF LogAhead
<1> QED  BY <1>2, <1>3

\* Every step preserves LogInv.
LEMMA LogStep == LogInv /\ [Next]_vars => LogInv'
<1> SUFFICES ASSUME LogInv, [Next]_vars PROVE LogInv'
  OBVIOUS
<1>i. IInv /\ IInv'
  BY InvStep DEF LogInv
<1>t. /\ TypeOK /\ c2s \in Seq(Message) /\ s2c \in Seq(Message)
      /\ Len(c2s) \in Nat /\ Len(s2c) \in Nat
  BY <1>i DEF IInv, TypeOK, WireTypeOK
<1>p. /\ pending \in SUBSET Message
      /\ \A i \in 1 .. Len(c2s) : c2s[i] \in Message
      /\ \A i \in 1 .. Len(s2c) : s2c[i] \in Message
  BY <1>t, ElementOfSeq DEF TypeOK
<1>q. OnePlace /\ LogAhead
  BY DEF LogInv
<1>1. ASSUME NEW c \in Call, Register(c) \/ SendFails(c) \/ Expire(c) \/ TimedOut(c)
                             \/ Wake(c),
             UNCHANGED pending
      PROVE  OnePlace' /\ LogAhead'
  <2>1. UNCHANGED <<c2s, s2c, pending, data, emitted, logged>>
    BY <1>1 DEF Register, SendFails, Expire, TimedOut, Wake, Finish, wireVars
  <2>2. \A d \in Call : pc'[d] \in {"idle", "sending"} => pc[d] \in {"idle", "sending"}
    BY <1>1, <1>t DEF Register, SendFails, Expire, TimedOut, Wake, Finish, TypeOK,
                      ClientTypeOK
  <2> QED  BY <1>q, <2>1, <2>2, QuietStep
<1>2. ASSUME NEW c \in Call, Send(c), UNCHANGED pending
      PROVE  OnePlace' /\ LogAhead'
  <2> DEFINE m == [id |-> msgid[c], call |-> c]
  <2>1. m \in Message /\ m.call = c
    BY <1>t DEF Message, TypeOK, ClientTypeOK
  <2>2. /\ Len(c2s') = Len(c2s) + 1
        /\ \A i \in 1 .. Len(c2s) : c2s'[i] = c2s[i]
        /\ c2s'[Len(c2s) + 1] = m
    BY <1>2, <1>t, <2>1, PutIndex DEF Send
  <2>3. /\ \A i \in 1 .. Len(c2s) : c2s[i].call # c
        /\ \A n \in pending : n.call # c
        /\ c \notin Answered
    BY <1>2, <1>q DEF Send, OnePlace
  <2>4. Answered' = Answered
    BY <1>2 DEF Send, Answered
  <2>5. \A d \in Call : pc'[d] \in {"idle", "sending"} =>
                            d # c /\ pc[d] \in {"idle", "sending"}
    BY <1>2, <1>t DEF Send, TypeOK, ClientTypeOK
  <2>6. ASSUME NEW i \in 1 .. Len(c2s')
        PROVE  \/ i \in 1 .. Len(c2s) /\ c2s'[i] = c2s[i]
               \/ i = Len(c2s) + 1 /\ c2s'[i].call = c
    BY <1>t, <2>1, <2>2
  <2>7. pending' = pending
    BY <1>2
  <2>8. OnePlace'
    <3>1. \A i, j \in 1 .. Len(c2s') : c2s'[i].call = c2s'[j].call => i = j
      BY <1>q, <2>3, <2>6 DEF OnePlace
    <3>2. \A i \in 1 .. Len(c2s') : \A n \in pending' : c2s'[i].call # n.call
      BY <1>q, <2>3, <2>6, <2>7 DEF OnePlace
    <3>3. ASSUME NEW d \in Call, pc'[d] \in {"idle", "sending"}
          PROVE  /\ \A i \in 1 .. Len(c2s') : c2s'[i].call # d
                 /\ \A n \in pending' : n.call # d
                 /\ d \notin Answered'
      BY <1>q, <2>4, <2>5, <2>6, <2>7, <3>3 DEF OnePlace
    <3>4. \A i \in 1 .. Len(c2s') : c2s'[i].call \notin Answered'
      BY <1>q, <2>3, <2>4, <2>6 DEF OnePlace
    <3>5. \A n \in pending' : n.call \notin Answered'
      BY <1>q, <2>4, <2>7 DEF OnePlace
    <3> QED  BY <3>1, <3>2, <3>3, <3>4, <3>5 DEF OnePlace
  <2>9. LogAhead'
    BY <1>2, <1>q DEF Send, LogAhead
  <2> QED  BY <2>8, <2>9
<1>3. ASSUME ReaderStart \/ ReaderEof \/ ReaderReset, UNCHANGED pending
      PROVE  OnePlace' /\ LogAhead'
  <2>1. UNCHANGED <<c2s, s2c, pending, data, emitted, logged>>
    BY <1>3 DEF ReaderStart, ReaderEof, ReaderReset, wireVars
  <2>2. \A d \in Call : pc'[d] \in {"idle", "sending"} => pc[d] \in {"idle", "sending"}
    BY <1>3, <1>t DEF ReaderStart, ReaderEof, ReaderReset, Notified, TypeOK, ClientTypeOK
  <2> QED  BY <1>q, <2>1, <2>2, QuietStep
<1>4. ASSUME ReaderLog \/ ReaderDeliver, UNCHANGED pending
      PROVE  OnePlace' /\ LogAhead'
  <2>1. /\ s2c # <<>> /\ s2c' = Tail(s2c) /\ UNCHANGED <<c2s, emitted>>
        /\ logged \subseteq logged'
    BY <1>4 DEF ReaderLog, ReaderDeliver
  <2>2. /\ Len(s2c') = Len(s2c) - 1 /\ Len(s2c) >= 1
        /\ \A i \in 1 .. Len(s2c') : s2c'[i] = s2c[i + 1]
        /\ Head(s2c) = s2c[1]
    BY <1>t, <2>1, TakeIndex
  <2>3. \A d \in Call : pc'[d] \in {"idle", "sending"} => pc[d] \in {"idle", "sending"}
    BY <1>4, <1>t DEF ReaderLog, ReaderDeliver, Notified, TypeOK, ClientTypeOK
  <2>4. \A d \in Call : data'[d] = data[d] \/ (d = s2c[1].call /\ s2c[1].id # NoMsgId)
    <3>1. CASE ReaderLog
      BY <3>1 DEF ReaderLog
    <3>2. CASE ReaderDeliver
      <4>1. /\ s2c[1] \in Range(s2c) /\ s2c[1].id # NoMsgId /\ s2c[1].call \in Call
        <5>1. Head(s2c) \in Range(s2c)
          BY <1>t, <2>1, TakeRange
        <5>2. s2c[1] \in Message
          BY <1>p, <1>t, <2>2
        <5> QED  BY <2>2, <3>2, <5>1, <5>2 DEF ReaderDeliver, Message
      <4>2. Mailbox(s2c[1].id) \subseteq {s2c[1].call}
        BY <1>i, <4>1, MailboxOwn DEF IInv
      <4> QED  BY <2>2, <3>2, <4>1, <4>2 DEF ReaderDeliver
    <3> QED  BY <1>4, <3>1, <3>2
  <2>5. Answered' \subseteq Answered
    <3>1. 1 \in 1 .. Len(s2c) /\ \A i \in 1 .. Len(s2c') : i + 1 \in 1 .. Len(s2c)
      BY <1>t, <2>2
    <3> SUFFICES ASSUME NEW c \in Answered' PROVE c \in Answered
      OBVIOUS
    <3>2. CASE data'[c] # {}
      BY <2>4, <3>1, <3>2 DEF Answered
    <3>3. CASE \E i \in 1 .. Len(s2c') : s2c'[i].call = c /\ s2c'[i].id # NoMsgId
      BY <2>2, <3>1, <3>3 DEF Answered
    <3> QED  BY <3>2, <3>3 DEF Answered
  <2>6. OnePlace'
    <3>1. ASSUME NEW d \in Call, pc'[d] \in {"idle", "sending"}
          PROVE  /\ \A i \in 1 .. Len(c2s') : c2s'[i].call # d
                 /\ \A m \in pending' : m.call # d
                 /\ d \notin Answered'
      BY <1>4, <1>q, <2>1, <2>3, <2>5, <3>1 DEF OnePlace
    <3>2. /\ \A i \in 1 .. Len(c2s') : c2s'[i].call \notin Answered'
          /\ \A m \in pending' : m.call \notin Answered'
      BY <1>4, <1>q, <2>1, <2>5 DEF OnePlace
    <3>3. /\ \A i, j \in 1 .. Len(c2s') : c2s'[i].call = c2s'[j].call => i = j
          /\ \A i \in 1 .. Len(c2s') : \A m \in pending' : c2s'[i].call # m.call
      BY <1>4, <1>q, <2>1 DEF OnePlace
    <3> QED  BY <3>1, <3>2, <3>3 DEF OnePlace
  <2>7. ASSUME NEW c \in emitted \ logged' PROVE s2c[1].call # c
    <3>1. CASE s2c[1].id = NoMsgId
      BY <1>4, <2>2, <2>7, <3>1 DEF ReaderLog, ReaderDeliver
    <3>2. CASE s2c[1].id # NoMsgId
      BY <1>q, <2>1, <2>2, <2>7, <3>2 DEF LogAhead
    <3> QED  BY <3>1, <3>2
  <2>8. ASSUME NEW c \in emitted' \ logged'
        PROVE  /\ data'[c] = {}
               /\ \E i \in 1 .. Len(s2c') : s2c'[i] = LogRecord(c)
               /\ \A j \in 1 .. Len(s2c') : s2c'[j].call = c /\ s2c'[j].id # NoMsgId =>
                     \E i \in 1 .. (j - 1) : s2c'[i] = LogRecord(c)
    <3>1. c \in emitted \ logged /\ c \in Call
      BY <1>t, <2>1, <2>8 DEF TypeOK, WireTypeOK
    <3>2. s2c[1].call # c /\ s2c[1] # LogRecord(c)
      BY <2>1, <2>7, <2>8 DEF LogRecord
    <3>3. data'[c] = {}
      BY <1>q, <2>4, <3>1, <3>2 DEF LogAhead
    <3>4. PICK i \in 1 .. Len(s2c) : s2c[i] = LogRecord(c)
      BY <1>q, <3>1 DEF LogAhead
    <3>5. i - 1 \in 1 .. Len(s2c') /\ s2c'[i - 1] = LogRecord(c)
      <4>1. i # 1
        BY <3>2, <3>4
      <4>2. i - 1 \in 1 .. Len(s2c') /\ (i - 1) + 1 = i
        BY <1>t, <2>2, <4>1
      <4> QED  BY <2>2, <3>4, <4>2
    <3>6. ASSUME NEW j \in 1 .. Len(s2c'), s2c'[j].call = c, s2c'[j].id # NoMsgId
          PROVE  \E k \in 1 .. (j - 1) : s2c'[k] = LogRecord(c)
      <4>1. j + 1 \in 1 .. Len(s2c) /\ s2c[j + 1] = s2c'[j]
        BY <1>t, <2>2
      <4>2. PICK k \in 1 .. j : s2c[k] = LogRecord(c)
        BY <1>q, <3>1, <3>6, <4>1 DEF LogAhead
      <4>3. k - 1 \in 1 .. (j - 1) /\ s2c'[k - 1] = LogRecord(c)
        BY <1>t, <2>2, <3>2, <4>2
      <4> QED  BY <4>3
    <3> QED  BY <3>3, <3>5, <3>6
  <2>9. LogAhead'
    BY <2>8 DEF LogAhead
  <2> QED  BY <2>6, <2>9
<1>5. ASSUME Close \/ Join, UNCHANGED pending PROVE OnePlace' /\ LogAhead'
  <2>1. UNCHANGED <<c2s, s2c, pending, data, emitted, logged, pc>>
    BY <1>5 DEF Close, Join, clientVars
  <2> QED  BY <1>q, <2>1, QuietStep
<1>6. ASSUME PeerRead PROVE OnePlace' /\ LogAhead'
  <2>1. /\ c2s # <<>> /\ c2s' = Tail(c2s) /\ pending' = pending \cup {Head(c2s)}
        /\ UNCHANGED <<s2c, data, pc, emitted, logged>>
    BY <1>6 DEF PeerRead, clientVars
  <2>2. /\ Len(c2s') = Len(c2s) - 1 /\ Len(c2s) >= 1
        /\ \A i \in 1 .. Len(c2s') : c2s'[i] = c2s[i + 1]
        /\ Head(c2s) = c2s[1]
    BY <1>t, <2>1, TakeIndex
  <2>3. Answered' = Answered
    BY <2>1 DEF Answered
  <2>4. OnePlace'
    <3>1. /\ 1 \in 1 .. Len(c2s)
          /\ \A i \in 1 .. Len(c2s') : i + 1 \in 1 .. Len(c2s) /\ i + 1 # 1
          /\ \A i, j \in 1 .. Len(c2s') : i + 1 = j + 1 => i = j
      BY <1>t, <2>2
    <3>2. \A i, j \in 1 .. Len(c2s') : c2s'[i].call = c2s'[j].call => i = j
      BY <1>q, <2>2, <3>1 DEF OnePlace
    <3>3. \A i \in 1 .. Len(c2s') : \A m \in pending' : c2s'[i].call # m.call
      BY <1>q, <2>1, <2>2, <3>1 DEF OnePlace
    <3>4. ASSUME NEW d \in Call, pc'[d] \in {"idle", "sending"}
          PROVE  /\ \A i \in 1 .. Len(c2s') : c2s'[i].call # d
                 /\ \A m \in pending' : m.call # d
                 /\ d \notin Answered'
      BY <1>q, <2>1, <2>2, <2>3, <3>1, <3>4 DEF OnePlace
    <3>5. /\ \A i \in 1 .. Len(c2s') : c2s'[i].call \notin Answered'
          /\ \A m \in pending' : m.call \notin Answered'
      BY <1>q, <2>1, <2>2, <2>3, <3>1 DEF OnePlace
    <3> QED  BY <3>2, <3>3, <3>4, <3>5 DEF OnePlace
  <2>5. LogAhead'
    BY <1>q, <2>1 DEF LogAhead
  <2> QED  BY <2>4, <2>5
<1>7. ASSUME NEW m \in pending, PeerReply(m) PROVE OnePlace' /\ LogAhead'
  <2>1. /\ pending' = pending \ {m} /\ s2c' = Append(s2c, m)
        /\ UNCHANGED <<c2s, data, pc, emitted, logged>>
    BY <1>7 DEF PeerReply, clientVars
  <2>2. /\ Len(s2c') = Len(s2c) + 1
        /\ \A i \in 1 .. Len(s2c) : s2c'[i] = s2c[i]
        /\ s2c'[Len(s2c) + 1] = m
    BY <1>p, <1>t, <2>1, PutIndex
  <2>3. Answered' \subseteq Answered \cup {m.call}
    BY <1>t, <2>1, <2>2 DEF Answered
  <2>4. \A n \in pending : n.call = m.call => n = m
    <3>1. \A n \in pending : n.id = msgid[n.call] /\ n \in Message
      BY <1>i, <1>p DEF IInv, WireIds
    <3> QED  BY <3>1 DEF Message
  <2>5. OnePlace'
    BY <1>q, <2>1, <2>3, <2>4 DEF OnePlace
  <2>6. ASSUME NEW c \in emitted \ logged
        PROVE  /\ data'[c] = {}
               /\ \E i \in 1 .. Len(s2c') : s2c'[i] = LogRecord(c)
               /\ \A j \in 1 .. Len(s2c') : s2c'[j].call = c /\ s2c'[j].id # NoMsgId =>
                     \E i \in 1 .. (j - 1) : s2c'[i] = LogRecord(c)
    <3>1. PICK i \in 1 .. Len(s2c) : s2c[i] = LogRecord(c)
      BY <1>q, <2>6 DEF LogAhead
    <3>2. i \in 1 .. Len(s2c') /\ s2c'[i] = LogRecord(c)
      BY <1>t, <2>2, <3>1
    <3>3. ASSUME NEW j \in 1 .. Len(s2c'), s2c'[j].call = c, s2c'[j].id # NoMsgId
          PROVE  \E k \in 1 .. (j - 1) : s2c'[k] = LogRecord(c)
      <4>1. CASE j = Len(s2c) + 1
        BY <1>t, <3>1, <3>2, <4>1
      <4>2. CASE j \in 1 .. Len(s2c)
        <5>1. PICK k \in 1 .. (j - 1) : s2c[k] = LogRecord(c)
          BY <1>q, <2>2, <2>6, <3>3, <4>2 DEF LogAhead
        <5>2. k \in 1 .. Len(s2c)
          BY <1>t, <4>2, <5>1
        <5> QED  BY <2>2, <5>1, <5>2
      <4> QED  BY <1>t, <2>2, <4>1, <4>2
    <3> QED  BY <1>q, <2>1, <2>6, <3>2, <3>3 DEF LogAhead
  <2>7. LogAhead'
    BY <2>1, <2>6 DEF LogAhead
  <2> QED  BY <2>5, <2>7
<1>8. ASSUME NEW m \in pending, PeerLog(m) PROVE OnePlace' /\ LogAhead'
  <2> DEFINE r == LogRecord(m.call)
  <2>1. /\ s2c' = Append(s2c, r) /\ emitted' = emitted \cup {m.call}
        /\ UNCHANGED <<c2s, pending, data, pc, logged>>
    BY <1>8 DEF PeerLog, clientVars
  <2>2. r \in Message /\ r.id = NoMsgId /\ r.call = m.call
    BY <1>p DEF LogRecord, NoMsgId, Message
  <2>3. /\ Len(s2c') = Len(s2c) + 1
        /\ \A i \in 1 .. Len(s2c) : s2c'[i] = s2c[i]
        /\ s2c'[Len(s2c) + 1] = r
    BY <1>t, <2>1, <2>2, PutIndex
  <2>4. Answered' \subseteq Answered
    BY <1>t, <2>1, <2>2, <2>3 DEF Answered
  <2>5. OnePlace'
    BY <1>q, <2>1, <2>4 DEF OnePlace
  <2>6. ASSUME NEW c \in emitted' \ logged'
        PROVE  /\ data'[c] = {}
               /\ \E i \in 1 .. Len(s2c') : s2c'[i] = LogRecord(c)
               /\ \A j \in 1 .. Len(s2c') : s2c'[j].call = c /\ s2c'[j].id # NoMsgId =>
                     \E i \in 1 .. (j - 1) : s2c'[i] = LogRecord(c)
    <3>1. CASE c = m.call
      <4>1. c \in Call /\ c \notin Answered'
        BY <1>p, <1>q, <2>4, <3>1 DEF OnePlace, Message
      <4>2. s2c'[Len(s2c) + 1] = LogRecord(c) /\ Len(s2c) + 1 \in 1 .. Len(s2c')
        BY <1>t, <2>3, <3>1
      <4>3. data'[c] = {}
        BY <4>1 DEF Answered
      <4>4. \A j \in 1 .. Len(s2c') : s2c'[j].call = c => s2c'[j].id = NoMsgId
        BY <4>1 DEF Answered
      <4> QED  BY <4>2, <4>3, <4>4
    <3>2. CASE c # m.call
      <4>1. c \in emitted \ logged
        BY <2>1, <2>6, <3>2
      <4>2. PICK i \in 1 .. Len(s2c) : s2c[i] = LogRecord(c)
        BY <1>q, <4>1 DEF LogAhead
      <4>3. i \in 1 .. Len(s2c') /\ s2c'[i] = LogRecord(c)
        BY <1>t, <2>3, <4>2
      <4>4. ASSUME NEW j \in 1 .. Len(s2c'), s2c'[j].call = c, s2c'[j].id # NoMsgId
            PROVE  \E k \in 1 .. (j - 1) : s2c'[k] = LogRecord(c)
        <5>1. j \in 1 .. Len(s2c)
          BY <1>t, <2>2, <2>3, <4>4
        <5>2. PICK k \in 1 .. (j - 1) : s2c[k] = LogRecord(c)
          BY <1>q, <2>3, <4>1, <4>4, <5>1 DEF LogAhead
        <5>3. k \in 1 .. Len(s2c)
          BY <1>t, <5>1, <5>2
        <5> QED  BY <2>3, <5>2, <5>3
      <4> QED  BY <1>q, <2>1, <4>1, <4>3, <4>4 DEF LogAhead
    <3> QED  BY <3>1, <3>2
  <2>7. LogAhead'
    BY <2>6 DEF LogAhead
  <2> QED  BY <2>5, <2>7
<1>9. ASSUME PeerExit PROVE OnePlace' /\ LogAhead'
  <2>1. UNCHANGED <<c2s, s2c, pending, data, emitted, logged, pc>>
    BY <1>9 DEF PeerExit, clientVars
  <2> QED  BY <1>q, <2>1, QuietStep
<1>10. ASSUME UNCHANGED vars PROVE OnePlace' /\ LogAhead'
  <2>1. UNCHANGED <<c2s, s2c, pending, data, emitted, logged, pc>>
    BY <1>10 DEF vars, clientVars, wireVars
  <2> QED  BY <1>q, <2>1, QuietStep
<1> QED
  BY <1>i, <1>1, <1>2, <1>3, <1>4, <1>5, <1>6, <1>7, <1>8, <1>9, <1>10
     DEF LogInv, Next, ClientNext, CallerStep, ReaderStep

\* The initial state satisfies LogInv.
LEMMA LogInit == Init => LogInv
<1> SUFFICES ASSUME Init PROVE LogInv
  OBVIOUS
<1>1. Len(c2s) = 0 /\ Len(s2c) = 0
  BY DEF Init, WireInit
<1>2. OnePlace
  BY <1>1 DEF Init, ClientInit, OnePlace, Answered
<1>3. LogAhead
  BY DEF Init, WireInit, LogAhead
<1> QED  BY <1>2, <1>3, InvInit DEF LogInv

(***************************************************************************)
(* By the time a call returns its reply, the log record that it caused in  *)
(* the daemon has been handled in the client.                              *)
(***************************************************************************)
THEOREM LogsComeFirst == Spec => []LoggedBeforeReply
<1>1. LogInv => LoggedBeforeReply
  <2> SUFFICES ASSUME LogInv, NEW c \in emitted, pc[c] = "reply", c \notin logged
               PROVE  FALSE
    BY DEF LoggedBeforeReply
  <2>1. data[c] = {}
    BY DEF LogInv, LogAhead
  <2>2. data[c] = {c}
    BY DEF LogInv, IInv, OwnReply, TypeOK, WireTypeOK
  <2> QED  BY <2>1, <2>2
<1> QED  BY <1>1, LogInit, LogStep, PTL DEF Spec

-----------------------------------------------------------------------------
\* A step that moves no message and makes no thread wait.
LEMMA NothingMoved ==
    ASSUME NeverForgotten, UNCHANGED <<c2s, s2c, pending>>,
           \A c \in Call : pc'[c] = "waiting" => pc[c] = "waiting"
    PROVE  NeverForgotten'
  BY DEF NeverForgotten

\* Every step keeps what the waiting threads wait for.
LEMMA ForgottenStep == IInv /\ NeverForgotten /\ [Next]_vars => NeverForgotten'
<1> SUFFICES ASSUME IInv, NeverForgotten, [Next]_vars PROVE NeverForgotten'
  OBVIOUS
<1>t. /\ TypeOK /\ c2s \in Seq(Message) /\ s2c \in Seq(Message)
      /\ Len(c2s) \in Nat /\ Len(s2c) \in Nat
      /\ DOMAIN c2s = 1 .. Len(c2s) /\ DOMAIN s2c = 1 .. Len(s2c)
  BY DEF IInv, TypeOK, WireTypeOK
<1> DEFINE OnItsWay(c) == \/ \E i \in DOMAIN c2s : c2s[i].call = c
                          \/ \E m \in pending : m.call = c
                          \/ \E i \in DOMAIN s2c : s2c[i].call = c /\ s2c[i].id # NoMsgId
<1>w. \A c \in Call : pc[c] = "waiting" => OnItsWay(c)
  BY DEF NeverForgotten
<1>1. ASSUME NEW c \in Call, Register(c) \/ SendFails(c) \/ Expire(c) \/ TimedOut(c)
                             \/ Wake(c),
             UNCHANGED pending
      PROVE  NeverForgotten'
  <2>1. UNCHANGED <<c2s, s2c, pending>>
    BY <1>1 DEF Register, SendFails, Expire, TimedOut, Wake, Finish, wireVars
  <2>2. \A d \in Call : pc'[d] = "waiting" => pc[d] = "waiting"
    BY <1>1, <1>t DEF Register, SendFails, Expire, TimedOut, Wake, Finish, TypeOK,
                      ClientTypeOK
  <2> QED  BY <2>1, <2>2, NothingMoved
<1>2. ASSUME NEW c \in Call, Send(c), UNCHANGED pending PROVE NeverForgotten'
  <2> DEFINE m == [id |-> msgid[c], call |-> c]
  <2>1. m \in Message /\ m.call = c
    BY <1>t DEF Message, TypeOK, ClientTypeOK
  <2>2. /\ Len(c2s') = Len(c2s) + 1
        /\ \A i \in 1 .. Len(c2s) : c2s'[i] = c2s[i]
        /\ c2s'[Len(c2s) + 1] = m
    BY <1>2, <1>t, <2>1, PutIndex DEF Send
  <2>3. c2s' \in Seq(Message)
    BY <1>2, <1>t, <2>1, AppendProperties DEF Send
  <2>4. DOMAIN c2s' = 1 .. (Len(c2s) + 1)
    BY <2>2, <2>3
  <2>5. \A d \in Call : pc'[d] = "waiting" => d = c \/ pc[d] = "waiting"
    BY <1>2, <1>t DEF Send, TypeOK, ClientTypeOK
  <2>6. s2c' = s2c /\ pending' = pending
    BY <1>2 DEF Send
  <2>7. ASSUME NEW d \in Call, pc'[d] = "waiting" PROVE OnItsWay(d)'
    <3>1. CASE d = c
      BY <1>t, <2>1, <2>2, <2>4, <3>1
    <3>2. CASE d # c
      <4>1. OnItsWay(d)
        BY <1>w, <2>5, <2>7, <3>2
      <4> QED  BY <1>t, <2>2, <2>4, <2>6, <4>1
    <3> QED  BY <3>1, <3>2
  <2> QED  BY <2>7 DEF NeverForgotten
<1>3. ASSUME ReaderStart \/ ReaderEof \/ ReaderReset, UNCHANGED pending
      PROVE  NeverForgotten'
  <2>1. UNCHANGED <<c2s, s2c, pending>>
    BY <1>3 DEF ReaderStart, ReaderEof, ReaderReset, wireVars
  <2>2. \A d \in Call : pc'[d] = "waiting" => pc[d] = "waiting"
    BY <1>3, <1>t DEF ReaderStart, ReaderEof, ReaderReset, Notified, TypeOK, ClientTypeOK
  <2> QED  BY <2>1, <2>2, NothingMoved
<1>4. ASSUME ReaderLog \/ ReaderDeliver, UNCHANGED pending PROVE NeverForgotten'
  <2>1. s2c # <<>> /\ s2c' = Tail(s2c) /\ c2s' = c2s /\ pending' = pending
    BY <1>4 DEF ReaderLog, ReaderDeliver
  <2>2. /\ Len(s2c') = Len(s2c) - 1 /\ Len(s2c) >= 1
        /\ \A i \in 1 .. (Len(s2c) - 1) : s2c'[i] = s2c[i + 1]
        /\ Head(s2c) = s2c[1]
    BY <1>t, <2>1, TakeIndex
  <2>3. s2c' \in Seq(Message)
    BY <1>t, <2>1, HeadTailProperties
  <2>4. DOMAIN s2c' = 1 .. (Len(s2c) - 1)
    BY <2>2, <2>3
  <2>5. \A d \in Call : pc'[d] = "waiting" => pc[d] = "waiting"
    BY <1>4, <1>t DEF ReaderLog, ReaderDeliver, Notified, TypeOK, ClientTypeOK
  <2>6. ASSUME NEW d \in Call, pc'[d] = "waiting", s2c[1].id # NoMsgId
        PROVE  s2c[1].call # d
    <3>1. ReaderDeliver /\ d \notin Mailbox(s2c[1].id)
      BY <1>4, <1>t, <2>2, <2>5, <2>6 DEF ReaderLog, ReaderDeliver, Notified
    <3>2. d \in outstanding
      BY <2>5, <2>6 DEF IInv, OutstandingExact, InCall
    <3>3. s2c[1] \in Range(s2c)
      BY <1>t, <2>1, <2>2, TakeRange
    <3>4. s2c[1].id = msgid[s2c[1].call]
      BY <2>6, <3>3 DEF IInv, WireIds
    <3> QED  BY <3>1, <3>2, <3>4 DEF Mailbox
  <2>7. ASSUME NEW d \in Call, pc'[d] = "waiting" PROVE OnItsWay(d)'
    <3>1. OnItsWay(d)
      BY <1>w, <2>5, <2>7
    <3>2. ASSUME NEW i \in DOMAIN s2c, s2c[i].call = d, s2c[i].id # NoMsgId
          PROVE  OnItsWay(d)'
      <4>1. i # 1
        BY <2>6, <2>7, <3>2
      <4>2. i - 1 \in 1 .. (Len(s2c) - 1) /\ (i - 1) + 1 = i
        BY <1>t, <3>2, <4>1
      <4>3. s2c'[i - 1] = s2c[i] /\ i - 1 \in DOMAIN s2c'
        BY <2>2, <2>4, <4>2
      <4> QED  BY <3>2, <4>3
    <3> QED  BY <2>1, <3>1, <3>2
  <2> QED  BY <2>7 DEF NeverForgotten
<1>5. ASSUME Close \/ Join, UNCHANGED pending PROVE NeverForgotten'
  BY <1>5, NothingMoved DEF Close, Join, clientVars
<1>6. ASSUME PeerRead PROVE NeverForgotten'
  <2>1. /\ c2s # <<>> /\ c2s' = Tail(c2s) /\ pending' = pending \cup {Head(c2s)}
        /\ s2c' = s2c /\ pc' = pc
    BY <1>6 DEF PeerRead, clientVars
  <2>2. /\ Len(c2s') = Len(c2s) - 1 /\ Len(c2s) >= 1
        /\ \A i \in 1 .. (Len(c2s) - 1) : c2s'[i] = c2s[i + 1]
        /\ Head(c2s) = c2s[1]
    BY <1>t, <2>1, TakeIndex
  <2>3. c2s' \in Seq(Message)
    BY <1>t, <2>1, HeadTailProperties
  <2>4. DOMAIN c2s' = 1 .. (Len(c2s) - 1)
    BY <2>2, <2>3
  <2>5. ASSUME NEW d \in Call, pc'[d] = "waiting" PROVE OnItsWay(d)'
    <3>1. OnItsWay(d)
      BY <1>w, <2>1, <2>5
    <3>2. ASSUME NEW i \in DOMAIN c2s, c2s[i].call = d PROVE OnItsWay(d)'
      <4>1. CASE i = 1
        BY <2>1, <2>2, <3>2, <4>1
      <4>2. CASE i # 1
        <5>1. i - 1 \in 1 .. (Len(c2s) - 1) /\ (i - 1) + 1 = i
          BY <1>t, <3>2, <4>2
        <5>2. c2s'[i - 1] = c2s[i] /\ i - 1 \in DOMAIN c2s'
          BY <2>2, <2>4, <5>1
        <5> QED  BY <3>2, <5>2
      <4> QED  BY <4>1, <4>2
    <3> QED  BY <2>1, <3>1, <3>2
  <2> QED  BY <2>5 DEF NeverForgotten
<1>7. ASSUME NEW m \in pending, PeerReply(m) \/ PeerLog(m) PROVE NeverForgotten'
  <2> DEFINE r == IF PeerReply(m) THEN m ELSE LogRecord(m.call)
  <2>1. /\ s2c' = Append(s2c, r) /\ c2s' = c2s /\ pc' = pc
        /\ pending \subseteq pending' \cup {m}
        /\ m \in pending' \/ r = m
    BY <1>7 DEF PeerReply, PeerLog, clientVars
  <2>2. m \in Message /\ m.id # NoMsgId
    BY <1>7, <1>t DEF TypeOK, IInv, WireIds
  <2>3. r \in Message
    BY <2>2 DEF LogRecord, NoMsgId, Message
  <2>4. /\ \A i \in 1 .. Len(s2c) : s2c'[i] = s2c[i]
        /\ s2c'[Len(s2c) + 1] = r
        /\ s2c' \in Seq(Message) /\ Len(s2c') = Len(s2c) + 1
    BY <1>t, <2>1, <2>3, PutIndex, AppendProperties
  <2>5. DOMAIN s2c' = 1 .. (Len(s2c) + 1)
    BY <2>4
  <2>6. ASSUME NEW d \in Call, pc'[d] = "waiting" PROVE OnItsWay(d)'
    <3>1. OnItsWay(d)
      BY <1>w, <2>1, <2>6
    <3>2. ASSUME m.call = d, m \notin pending' PROVE OnItsWay(d)'
      <4>1. r = m /\ Len(s2c) + 1 \in DOMAIN s2c'
        BY <1>t, <2>1, <2>5, <3>2
      <4> QED  BY <2>2, <2>4, <3>2, <4>1
    <3>3. ASSUME NEW i \in DOMAIN s2c, s2c[i].call = d, s2c[i].id # NoMsgId
          PROVE  OnItsWay(d)'
      BY <1>t, <2>4, <2>5, <3>3
    <3> QED  BY <2>1, <3>1, <3>2, <3>3
  <2> QED  BY <2>6 DEF NeverForgotten
<1>8. ASSUME PeerExit PROVE NeverForgotten'
  BY <1>8, NothingMoved DEF PeerExit, clientVars
<1>9. ASSUME UNCHANGED vars PROVE NeverForgotten'
  BY <1>9, NothingMoved DEF vars, clientVars, wireVars
<1> QED
  BY <1>1, <1>2, <1>3, <1>4, <1>5, <1>6, <1>7, <1>8, <1>9
     DEF Next, ClientNext, CallerStep, ReaderStep

(***************************************************************************)
(* A thread in Condition.wait waits for something: its request or its      *)
(* reply is on its way, for any number of calls and any order of replies.  *)
(***************************************************************************)
THEOREM WaitersHaveReason == Spec => []NeverForgotten
<1>1. Init => NeverForgotten
  BY DEF Init, ClientInit, NeverForgotten
<1> QED  BY <1>1, Invariance, ForgottenStep, PTL DEF Spec

-----------------------------------------------------------------------------
(* What lies in the socket on its way back to the client. *)

\* One reply for each call, which was not delivered before, and log records.
OneReply ==
    /\ \A i, j \in 1 .. Len(s2c) :
          s2c[i].id # NoMsgId /\ s2c[j].id # NoMsgId /\ s2c[i].call = s2c[j].call => i = j
    /\ \A i \in 1 .. Len(s2c) : s2c[i].id # NoMsgId => data[s2c[i].call] = {}
    /\ \A i \in 1 .. Len(s2c) : s2c[i].id = NoMsgId => s2c[i].call \in Logging

\* Every step keeps it so.
LEMMA OneReplyStep == LogInv /\ OneReply /\ [Next]_vars => OneReply'
<1> SUFFICES ASSUME LogInv, OneReply, [Next]_vars PROVE OneReply'
  OBVIOUS
<1>t. /\ TypeOK /\ s2c \in Seq(Message) /\ Len(s2c) \in Nat /\ pending \subseteq Message
      /\ \A i \in 1 .. Len(s2c) : s2c[i] \in Message
      /\ \A i \in 1 .. Len(s2c) : s2c[i].call \in Call
  <2>1. TypeOK /\ s2c \in Seq(Message) /\ pending \subseteq Message
    BY DEF LogInv, IInv, TypeOK, WireTypeOK
  <2>2. Len(s2c) \in Nat /\ \A i \in 1 .. Len(s2c) : s2c[i] \in Message
    BY <2>1, ElementOfSeq
  <2>3. \A m \in Message : m.call \in Call
    BY DEF Message
  <2> QED  BY <2>1, <2>2, <2>3
<1>1. ASSUME UNCHANGED <<s2c, data>> PROVE OneReply'
  BY <1>1 DEF OneReply
<1>2. ASSUME NEW c \in Call, Register(c) \/ CallerStep(c) PROVE OneReply'
  BY <1>1, <1>2 DEF Register, CallerStep, Send, SendFails, Expire, TimedOut, Wake, Finish,
                    wireVars
<1>3. CASE ReaderStart \/ ReaderEof \/ ReaderReset \/ Close \/ Join
  BY <1>1, <1>3 DEF ReaderStart, ReaderEof, ReaderReset, Close, Join, clientVars, wireVars
<1>4. CASE ReaderLog \/ ReaderDeliver
  <2>1. s2c # <<>> /\ s2c' = Tail(s2c)
    BY <1>4 DEF ReaderLog, ReaderDeliver
  <2>2. /\ Len(s2c') = Len(s2c) - 1 /\ Len(s2c) >= 1
        /\ \A i \in 1 .. Len(s2c') : s2c'[i] = s2c[i + 1]
        /\ Head(s2c) = s2c[1]
    BY <1>t, <2>1, TakeIndex
  <2>3. ASSUME NEW i \in 1 .. Len(s2c')
        PROVE  i + 1 \in 1 .. Len(s2c) /\ i + 1 # 1 /\ s2c'[i] = s2c[i + 1]
    BY <1>t, <2>2
  <2>4. \A d \in Call : data'[d] = data[d] \/ (d = s2c[1].call /\ s2c[1].id # NoMsgId)
    <3>1. CASE ReaderLog
      BY <3>1 DEF ReaderLog
    <3>2. CASE ReaderDeliver
      <4>1. s2c[1] \in Range(s2c) /\ s2c[1].id # NoMsgId /\ s2c[1].call \in Call
        BY <1>t, <2>1, <2>2, <3>2, TakeRange DEF ReaderDeliver
      <4>2. Mailbox(s2c[1].id) \subseteq {s2c[1].call}
        BY <4>1, MailboxOwn DEF LogInv, IInv
      <4> QED  BY <2>2, <3>2, <4>1, <4>2 DEF ReaderDeliver
    <3> QED  BY <1>4, <3>1, <3>2
  <2>5. ASSUME NEW i \in 1 .. Len(s2c'), s2c'[i].id # NoMsgId
        PROVE  data'[s2c'[i].call] = {}
    <3>1. data[s2c[i + 1].call] = {} /\ s2c[i + 1].call \in Call
      BY <1>t, <2>3, <2>5 DEF OneReply
    <3>2. s2c[1].id # NoMsgId => s2c[1].call # s2c[i + 1].call
      BY <1>t, <2>2, <2>3, <2>5 DEF OneReply
    <3> QED  BY <2>3, <2>4, <3>1, <3>2
  <2>6. ASSUME NEW i \in 1 .. Len(s2c'), NEW j \in 1 .. Len(s2c'),
               s2c'[i].id # NoMsgId, s2c'[j].id # NoMsgId, s2c'[i].call = s2c'[j].call
        PROVE  i = j
    <3>1. i + 1 = j + 1
      BY <2>3, <2>6 DEF OneReply
    <3> QED  BY <1>t, <2>2, <3>1
  <2>7. \A i \in 1 .. Len(s2c') : s2c'[i].id = NoMsgId => s2c'[i].call \in Logging
    BY <2>3 DEF OneReply
  <2> QED  BY <2>5, <2>6, <2>7 DEF OneReply
<1>5. ASSUME NEW m \in pending, PeerReply(m) PROVE OneReply'
  <2>1. s2c' = Append(s2c, m) /\ data' = data
    BY <1>5 DEF PeerReply, clientVars
  <2>2. m \in Message /\ m.call \in Call /\ m.id # NoMsgId /\ m.call \notin Answered
    BY <1>t DEF LogInv, IInv, WireIds, OnePlace, Message
  <2>3. /\ Len(s2c') = Len(s2c) + 1
        /\ \A i \in 1 .. Len(s2c) : s2c'[i] = s2c[i]
        /\ s2c'[Len(s2c) + 1] = m
    BY <1>t, <2>1, <2>2, PutIndex
  <2>4. /\ data[m.call] = {}
        /\ \A i \in 1 .. Len(s2c) : s2c[i].id # NoMsgId => s2c[i].call # m.call
    BY <2>2 DEF Answered
  <2>5. ASSUME NEW i \in 1 .. Len(s2c')
        PROVE  \/ i \in 1 .. Len(s2c) /\ s2c'[i] = s2c[i]
               \/ i = Len(s2c) + 1 /\ s2c'[i] = m
    BY <1>t, <2>3
  <2>6. ASSUME NEW i \in 1 .. Len(s2c'), NEW j \in 1 .. Len(s2c'),
               s2c'[i].id # NoMsgId, s2c'[j].id # NoMsgId, s2c'[i].call = s2c'[j].call
        PROVE  i = j
    <3>1. CASE i \in 1 .. Len(s2c) /\ j \in 1 .. Len(s2c)
      BY <2>3, <2>6, <3>1 DEF OneReply
    <3>2. CASE i = Len(s2c) + 1 \/ j = Len(s2c) + 1
      BY <2>4, <2>5, <2>6, <3>2
    <3> QED  BY <2>5, <3>1, <3>2
  <2>7. \A i \in 1 .. Len(s2c') : s2c'[i].id # NoMsgId => data[s2c'[i].call] = {}
    BY <2>4, <2>5 DEF OneReply
  <2>8. \A i \in 1 .. Len(s2c') : s2c'[i].id = NoMsgId => s2c'[i].call \in Logging
    BY <2>2, <2>5 DEF OneReply
  <2> QED  BY <2>1, <2>6, <2>7, <2>8 DEF OneReply
<1>6. ASSUME NEW m \in pending, PeerLog(m) PROVE OneReply'
  <2> DEFINE r == LogRecord(m.call)
  <2>1. s2c' = Append(s2c, r) /\ data' = data /\ m.call \in Logging
    BY <1>6 DEF PeerLog, clientVars
  <2>2. r \in Message /\ r.id = NoMsgId /\ r.call = m.call
    BY <1>t DEF LogRecord, NoMsgId, Message
  <2>3. /\ Len(s2c') = Len(s2c) + 1
        /\ \A i \in 1 .. Len(s2c) : s2c'[i] = s2c[i]
        /\ s2c'[Len(s2c) + 1] = r
    BY <1>t, <2>1, <2>2, PutIndex
  <2>4. ASSUME NEW i \in 1 .. Len(s2c')
        PROVE  \/ i \in 1 .. Len(s2c) /\ s2c'[i] = s2c[i]
               \/ i = Len(s2c) + 1 /\ s2c'[i] = r
    BY <1>t, <2>3
  <2> HIDE DEF r
  <2>5. ASSUME NEW i \in 1 .. Len(s2c'), s2c'[i].id # NoMsgId
        PROVE  i \in 1 .. Len(s2c) /\ s2c'[i] = s2c[i]
    BY <2>2, <2>4, <2>5
  <2>6. \A i \in 1 .. Len(s2c') : s2c'[i].id = NoMsgId => s2c'[i].call \in Logging
    BY <2>1, <2>2, <2>4 DEF OneReply
  <2>7. \A i \in 1 .. Len(s2c') : s2c'[i].id # NoMsgId => data[s2c'[i].call] = {}
    BY <2>5 DEF OneReply
  <2>8. ASSUME NEW i \in 1 .. Len(s2c'), NEW j \in 1 .. Len(s2c'),
               s2c'[i].id # NoMsgId, s2c'[j].id # NoMsgId, s2c'[i].call = s2c'[j].call
        PROVE  i = j
    BY <2>5, <2>8 DEF OneReply
  <2> QED  BY <2>1, <2>6, <2>7, <2>8 DEF OneReply
<1>7. CASE PeerRead \/ PeerExit \/ UNCHANGED vars
  BY <1>1, <1>7 DEF PeerRead, PeerExit, vars, clientVars, wireVars
<1> QED
  BY <1>2, <1>3, <1>4, <1>5, <1>6, <1>7 DEF Next, ClientNext, ReaderStep
=============================================================================
