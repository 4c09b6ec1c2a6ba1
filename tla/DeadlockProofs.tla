--------------------------- MODULE DeadlockProofs ---------------------------
(***************************************************************************)
(* When the two processes can stop each other.  A deadlock is a Gridlock,  *)
(* and a Gridlock takes as many calls as fill both directions of the       *)
(* socket, one more that holds the client's lock and one in the hands of   *)
(* the daemon's main thread: Privsep's DeadlockTakesMany for any calls,    *)
(* any pool and any capacity.  With functions that hang or raise           *)
(* SystemExit, what a call or close() can be left waiting for; and what    *)
(* bounds the way there: every step is progress.                           *)
(***************************************************************************)
EXTENDS PrivsepProofs, FiniteSetTheorems, FunctionTheorems

\* The calls that were begun.
Used == {c \in Call : pc[c] # "idle"}

\* The lock is held for as long as its holder sends; the daemon's end of the
\* socket goes with the process.
Locks == /\ \A c \in holder : holder = {c} /\ pc[c] = "sending"
         /\ \A c \in Call : pc[c] = "sending" => holder = {c}
         /\ main = "exited" => peer # "up"

\* What the calls have met, by the state of the reader thread.
Course == /\ IsFiniteSet(Used)
          /\ reader = "starting" => \A c \in Call : data[c] = {}
          /\ \A c \in Used : c = Ping \/ Ready
          /\ \A c \in Call : error[c] \/ pc[c] = "eof" => reader = "stopped"
          /\ \A c \in Sent : pc[c] # "senderror"

PairInv == Inv /\ Delivered /\ P!OneReply /\ Locks /\ Course

-----------------------------------------------------------------------------
(* The invariant is kept *)

\* The daemon's process and the client's death.
LEMMA DaemonPairs ==
    ASSUME PairInv, DaemonStep \/ Death
    PROVE  Locks' /\ Course'
<1>1. UNCHANGED clientVars /\ UNCHANGED Sent
  BY SentKept DEF DaemonStep, Death, PairInv, Inv
<1>2. Course'
  BY <1>1 DEF PairInv, Course, Used, Ready, clientVars
<1>3. main' = "exited" => peer' # "up"
  <2>1. CASE Gone
    BY <2>1 DEF Gone, PeerEnds
  <2>2. CASE /\ main' # "exited" \/ main' = main
             /\ peer' = peer
    BY <2>2 DEF PairInv, Locks
  <2>3. CASE Accept \/ LoopError \/ LoopEof \/ AddCallback \/ InlineReply \/ ExitEscapes \/ Log
             \/ ClientDies
    BY <2>2, <2>3 DEF Accept, LoopError, LoopEof, AddCallback, InlineReply, ExitEscapes, Log,
                      ClientDies, Raised, daemonVars, wireVars
  <2>4. ASSUME NEW w \in Worker, WorkerStep(w) PROVE main' = main /\ peer' = peer
    BY <2>4 DEF WorkerStep, Take, Complete, WorkerReply, wireVars
  <2> QED
    BY <2>1, <2>2, <2>3, <2>4 DEF DaemonStep, Death, DaemonNext, MainStep, Exit, Crash
<1> QED  BY <1>1, <1>2, <1>3 DEF PairInv, Locks, clientVars

\* The threads that call send_recv.
LEMMA CallerPairs ==
    ASSUME PairInv, ClientStep, NEW c \in Call, Request(c) \/ CallerStep(c)
    PROVE  Locks' /\ Course'
<1>t. /\ pc \in [Call -> {"idle"} \cup InCall \cup Outcome] /\ holder \in SUBSET Call
      /\ Sent \subseteq Call /\ Used \subseteq Call
  BY Types DEF PairInv, Inv, ClientTypeOK, Used
<1>l. UNCHANGED <<main, peer, taken>>
  BY ClientLeaves
\* The reader thread's part of Course.
<1>d. UNCHANGED <<data, error, reader>>
  BY DEF Request, Register, CallerStep, Send, SendFails, Expire, TimedOut, Wake, Finish
<1>1. CASE Request(c)
  <2>1. /\ pc[c] = "idle" /\ holder = {} /\ holder' = {c} /\ c2s' = c2s
        /\ pc' = [pc EXCEPT ![c] = "sending"] /\ (c = Ping \/ Ready)
    BY <1>1 DEF Request, Register, wireVars
  <2>2. Locks'
    BY <1>t, <1>l, <2>1 DEF PairInv, Locks
  <2>3. IsFiniteSet(Used')
    <3>1. Used' = Used \cup {c}
      BY <1>t, <2>1 DEF Used
    <3> QED  BY <3>1, FS_AddElement DEF PairInv, Course
  <2>4. Ready => Ready'
    BY <1>t, <2>1 DEF Ready
  <2>5. \A d \in Used' : d = Ping \/ Ready'
    BY <1>t, <2>1, <2>4 DEF PairInv, Course, Used
  <2>6. Sent' = Sent
    BY <1>l, <2>1 DEF Sent, Written, Elems
  <2> QED  BY <1>t, <1>d, <2>1, <2>2, <2>3, <2>5, <2>6 DEF PairInv, Course
<1>2. CASE CallerStep(c)
  <2>1. PICK o \in {"waiting", "expired"} \cup Outcome : pc' = [pc EXCEPT ![c] = o]
    BY <1>2 DEF CallerStep, Send, SendFails, Expire, TimedOut, Wake, Finish, Outcome
  <2>2. pc[c] \in InCall
    BY <1>2 DEF CallerStep, Send, SendFails, Expire, TimedOut, Wake, InCall
  <2>3. holder' = IF pc[c] = "sending" THEN {} ELSE holder
    BY <1>2 DEF CallerStep, Send, SendFails, Expire, TimedOut, Wake
  <2>4. Locks'
    <3>1. o # "sending" /\ pc'[c] = o /\ \A d \in Call \ {c} : pc'[d] = pc[d]
      BY <1>t, <2>1 DEF Outcome
    <3>2. CASE pc[c] = "sending"
      BY <1>t, <1>l, <2>3, <3>1, <3>2 DEF PairInv, Locks
    <3>3. CASE pc[c] # "sending"
      BY <1>t, <1>l, <2>3, <3>1, <3>3 DEF PairInv, Locks
    <3> QED  BY <3>2, <3>3
  <2>5. Used' = Used
    BY <1>t, <2>1, <2>2 DEF Used, InCall, Outcome
  <2>6. Ready => Ready'
    BY <1>t, <2>1, <2>2 DEF Ready, InCall
  <2>7. o = "eof" => reader = "stopped"
    BY <1>2, <1>t, <2>1 DEF CallerStep, Send, SendFails, Expire, TimedOut, Wake, Finish,
                            PairInv, Course
  <2>8. \A d \in Call : error'[d] \/ pc'[d] = "eof" => reader' = "stopped"
    BY <1>t, <1>d, <2>1, <2>7 DEF PairInv, Course
  <2>9. \A d \in Sent' : pc'[d] # "senderror"
    <3>1. CASE Send(c)
      <4> DEFINE m == [id |-> msgid[c], call |-> c]
      <4>1. o = "waiting" /\ c2s' = Append(c2s, m)
        BY <1>t, <2>1, <3>1 DEF Send
      <4>2. c2s \in Seq(Message) /\ m \in Message /\ m.call = c
        BY Types DEF PairInv, Inv, WireTypeOK, ClientTypeOK, Message
      <4> HIDE DEF m
      <4>3. Elems(c2s') = Elems(c2s) \cup {m}
        BY <4>1, <4>2, FifoEnds
      <4>4. Sent' = Sent \cup {c}
        BY <1>l, <4>2, <4>3 DEF Sent, Written, Elems
      <4> QED  BY <1>t, <2>1, <4>1, <4>4 DEF PairInv, Course
    <3>2. CASE ~Send(c)
      <4>1. c2s' = c2s
        BY <1>2, <3>2 DEF CallerStep, SendFails, Expire, TimedOut, Wake, Finish, wireVars
      <4>2. Sent' = Sent
        BY <1>l, <4>1 DEF Sent, Written, Elems
      <4>3. o = "senderror" => pc[c] = "sending"
        BY <1>2, <1>t, <2>1, <3>2 DEF CallerStep, SendFails, Expire, TimedOut, Wake, Finish
      <4>4. o = "senderror" => c \notin Sent
        BY <4>3 DEF PairInv, Inv, Started
      <4> QED  BY <1>t, <2>1, <4>2, <4>4 DEF PairInv, Course
    <3> QED  BY <3>1, <3>2
  <2> QED  BY <1>d, <2>4, <2>5, <2>6, <2>8, <2>9 DEF PairInv, Course
<1> QED  BY <1>1, <1>2

\* The reader thread, close and the end.
LEMMA ReaderPairs ==
    ASSUME PairInv, ClientStep, ReaderStep \/ Close \/ Join
    PROVE  Locks' /\ Course'
<1>t. pc \in [Call -> {"idle"} \cup InCall \cup Outcome] /\ Sent \subseteq Call
  BY Types DEF PairInv, Inv, ClientTypeOK
<1>l. UNCHANGED <<main, peer, taken>>
  BY ClientLeaves
<1>1. c2s' = c2s /\ holder' = holder
  BY DEF ReaderStep, ReaderStart, ReaderLog, ReaderDeliver, ReaderEof, ReaderReset, Close,
         Join, clientVars, wireVars
<1>2. \A c \in Call : pc'[c] = pc[c] \/ (pc[c] = "waiting" /\ pc'[c] = "notified")
  BY DEF ReaderStep, ReaderStart, ReaderLog, ReaderDeliver, ReaderEof, ReaderReset, Notified,
         Close, Join, clientVars
<1>3. Sent' = Sent
  BY <1>1, <1>l DEF Sent, Written, Elems
<1>4. Used' = Used
  BY <1>2 DEF Used
<1>5. Ready => Ready'
  BY <1>2, PrivsepAssumption, DaemonAssumption DEF Ready
<1>6. reader' = "starting" => reader = "starting" /\ data' = data
  BY DEF ReaderStep, ReaderStart, ReaderLog, ReaderDeliver, ReaderEof, ReaderReset, Close,
         Join, clientVars
<1>7. reader' = "stopped" \/ (reader # "stopped" /\ error' = error)
  BY DEF ReaderStep, ReaderStart, ReaderLog, ReaderDeliver, ReaderEof, ReaderReset, AtEof, Close,
         Join, clientVars
<1>8. Locks'
  BY <1>1, <1>2, <1>l, Types DEF PairInv, Inv, Locks, ClientTypeOK
<1>9. Course'
  BY <1>t, <1>2, <1>3, <1>4, <1>5, <1>6, <1>7 DEF PairInv, Course
<1> QED  BY <1>8, <1>9

\* All steps.
LEMMA PairStep == PairInv /\ [Next]_vars => PairInv'
<1> SUFFICES ASSUME PairInv, [Next]_vars PROVE PairInv'
  OBVIOUS
<1>1. Inv' /\ Delivered'
  BY StepInv, DeliveredStep DEF PairInv
<1>2. P!OneReply'
  <2>1. [P!Next]_(P!vars) /\ P!LogInv /\ P!OneReply
    BY Simulates DEF PairInv, Inv, P!LogInv
  <2> QED  BY <2>1, P!OneReplyStep, WireAssumption, ClientAssumption
<1>3. Locks' /\ Course'
  <2>1. CASE ClientStep
    BY <2>1, CallerPairs, ReaderPairs DEF ClientStep
  <2>2. CASE UNCHANGED vars
    BY <2>2 DEF vars, clientVars, daemonVars, wireVars, PairInv, Locks, Course, Used, Ready,
                Sent, Written, Elems
  <2> QED  BY <2>1, <2>2, DaemonPairs DEF Next
<1> QED  BY <1>1, <1>2, <1>3 DEF PairInv

\* At first nothing was begun.
LEMMA PairInit == Init => PairInv
<1> SUFFICES ASSUME Init PROVE PairInv
  OBVIOUS
<1>1. Inv
  BY InitInv
<1>2. Delivered /\ P!OneReply
  BY DEF Init, WireInit, ClientInit, Delivered, Elems, P!OneReply
<1>3. Locks
  BY DEF Init, ClientInit, DaemonInit, Locks
<1>4. Course
  <2>1. Used = {}
    BY DEF Init, ClientInit, Used
  <2>2. Sent = {}
    <3>1. Written = {}
      BY DEF Init, DaemonInit, WireInit, Written
    <3> QED  BY <3>1 DEF Sent
  <2> QED  BY <2>1, <2>2, FS_EmptySet DEF Init, ClientInit, Course
<1> QED  BY <1>1, <1>2, <1>3, <1>4 DEF PairInv

\* PairInv holds in every reachable state of the pair.
LEMMA PairInvariance == Spec => []PairInv
  BY PairInit, PairStep, PTL DEF Spec

-----------------------------------------------------------------------------
(* A deadlock is a gridlock *)

\* The daemon waits where AnyClient's does.
LEMMA SameWaits == (DaemonWaits <=> D!DaemonWaits) /\ (Room(s2c) <=> D!Room(s2c))
  BY DEF DaemonWaits, MainWaits, WorkerWaits, ReplyBlocked, StreamEnded, PoolJoined, Room,
         D!DaemonWaits, D!MainWaits, D!WorkerWaits, D!ReplyBlocked, D!StreamEnded,
         D!PoolJoined, D!Room

\* Nothing of the pair moves, and the client has all its threads.
Standstill == client = "alive" /\ reader # "crashed" /\ Quiet

\* A function that raised has ended the loop that reads the requests.
LoopLeft == main \in {"ended", "escaped"} /\ D!FatalRan

\* Only such a function, or a reply, keeps the main thread from reading a request.
LEMMA MainIsBlocked ==
    ASSUME PairInv, Standstill, CanWrite, c2s # <<>>
    PROVE  LoopLeft \/ (main = "inline" /\ \E m \in cur : ReplyBlocked(m))
<1>1. main \in {"ended", "escaped"} => D!FatalRan
  BY DEF PairInv, Inv, D!Kept, D!Ends, Standstill, CanWrite
<1>2. main # "exited"
  BY DEF PairInv, Locks, CanWrite
<1> QED  BY <1>1, <1>2 DEF LoopLeft, Standstill, Quiet, DaemonWaits, MainWaits

\* The reader thread started before a second call was begun.
LEMMA ReaderStarted ==
    ASSUME PairInv, NEW c \in Used, NEW d \in Used, c # d
    PROVE  reader # "starting"
<1>1. Ready
  BY DEF PairInv, Course
<1>2. Ping \in Call
  BY PrivsepAssumption, DaemonAssumption
<1>3. data[Ping] = {Ping}
  BY <1>1, <1>2 DEF Ready, PairInv, Inv, P!IInv, P!OwnReply
<1> QED  BY <1>2, <1>3 DEF PairInv, Course

\* While the lock is held, everybody waits for its holder.
LEMMA LockedIsGridlock ==
    ASSUME PairInv, Standstill, holder # {}
    PROVE  Gridlock \/ LoopLeft
<1>1. PICK h \in Call : h \in holder /\ pc[h] = "sending"
  BY Types DEF PairInv, Inv, Locks, ClientTypeOK
<1>2. InSendall(h)
  BY <1>1 DEF Standstill, Quiet, CallerWaits, InCall
<1>3. /\ c2s \in Seq(Message) /\ s2c \in Seq(Message)
      /\ Len(c2s) \in Nat /\ Len(s2c) \in Nat
  BY Types DEF PairInv, Inv, WireTypeOK
<1>4. Len(c2s) >= 1 /\ c2s # <<>> /\ CanWrite
  BY <1>2, <1>3, WireAssumption DEF InSendall, Room
<1> SUFFICES ASSUME main = "inline", \E m \in cur : ReplyBlocked(m) PROVE Gridlock
  BY <1>4, MainIsBlocked
<1>6. s2c # <<>>
  BY <1>3, WireAssumption DEF ReplyBlocked, Room
<1>7. reader # "starting"
  <2>1. c2s[1] \in Elems(c2s)
    BY <1>3, <1>4 DEF Elems
  <2>2. c2s[1].call \in Sent
    BY <2>1 DEF Sent, Written, Elems
  <2>3. c2s[1].call \in Call /\ pc[c2s[1].call] \notin {"idle", "sending"}
    BY <2>2, Types DEF PairInv, Inv, Started
  <2> QED  BY <1>1, <2>3, ReaderStarted DEF Used
<1>8. reader # "stopped"
  BY <1>4 DEF CanWrite, PairInv, Inv, P!IInv, P!Stop
<1>9. reader = "reading" /\ ReplyNext
  BY <1>6, <1>7, <1>8 DEF Standstill, Quiet, ReaderWaits
<1> QED  BY <1>2, <1>9 DEF Gridlock

\* While it is free, the reader thread has read all there is, and calls wait for replies.
LEMMA NothingToRead ==
    ASSUME PairInv, Standstill, holder = {},
           chan = "shut" \/ \E c \in Call : pc[c] \in InCall
    PROVE  /\ \A c \in Call : pc[c] \in InCall => pc[c] = "waiting"
           /\ s2c = <<>> /\ peer = "up" /\ Room(s2c) /\ main # "exited" /\ client = "alive"
<1>1. \A c \in Call : pc[c] \in InCall => pc[c] = "waiting"
  <2> SUFFICES ASSUME NEW c \in Call, pc[c] \in InCall PROVE pc[c] = "waiting"
    OBVIOUS
  <2>1. CallerWaits(c)
    BY DEF Standstill, Quiet
  <2>2. pc[c] # "sending"
    BY DEF PairInv, Locks
  <2> QED  BY <2>1, <2>2 DEF CallerWaits, InSendall, InCall
<1>2. reader # "stopped"
  BY <1>1 DEF Standstill, Quiet, CloserWaits, PairInv, Inv, P!IInv, P!NoneStranded
<1>3. s2c = <<>> /\ peer = "up"
  BY <1>2 DEF Standstill, Quiet, ReaderWaits
<1> QED  BY <1>1, <1>3, WireAssumption DEF Room, Standstill, PairInv, Locks

\* With the lock free and no culprit in the daemon, somebody can move.
LEMMA UnlockedMoves ==
    ASSUME PairInv, Deadlock, holder = {}
    PROVE  FALSE
<1>1. /\ \A c \in Call : pc[c] \in InCall => pc[c] = "waiting"
      /\ s2c = <<>> /\ peer = "up" /\ Room(s2c) /\ main # "exited" /\ client = "alive"
  BY NothingToRead DEF Deadlock, Standstill
<1>5. ~D!FatalRan /\ main # "escaped"
  BY <1>1 DEF Deadlock, D!FatalRan, PairInv, Inv, D!Kept, D!Ends
<1>6. \A w \in Worker : wpc[w] = "idle" /\ queue = <<>>
  <2> SUFFICES ASSUME NEW w \in Worker PROVE wpc[w] = "idle" /\ queue = <<>>
    OBVIOUS
  <2>1. WorkerWaits(w)
    BY DEF Deadlock, Quiet, DaemonWaits
  <2>2. wpc[w] # "dead"
    BY <1>5 DEF PairInv, Inv, D!Kept, D!Ends
  <2>3. wpc[w] # "callback"
    BY <1>1, <2>1 DEF WorkerWaits, ReplyBlocked
  <2>4. wpc[w] # "running"
    <3> SUFFICES ASSUME wpc[w] = "running" PROVE FALSE
      OBVIOUS
    <3>1. PICK m \in job[w] : m.call \in Hanging
      BY <1>1, <2>1 DEF WorkerWaits
    <3>2. executed[m.call] = 1
      BY <3>1, DaemonAssumption DEF PairInv, Inv, D!Kept, D!Ran
    <3> QED  BY <3>1, <3>2 DEF Deadlock
  <2> QED  BY <1>1, <2>1, <2>2, <2>3, <2>4 DEF WorkerWaits
<1>7. D!IdleIsDone /\ D!OnlyHangingStays /\ D!DaemonWaits /\ D!Room(s2c)
  <2>1. D!IdleIsDone
    BY D!IdleMeansDone, WireAssumption, DaemonAssumption DEF PairInv, Inv, D!IdleInv
  <2>2. D!OnlyHangingStays
    BY D!OnlyHangingCanStay, WireAssumption, DaemonAssumption DEF PairInv, Inv, D!IInv
  <2> QED  BY <1>1, <2>1, <2>2, SameWaits DEF Deadlock, Quiet
<1>8. Unanswered = {}
  <2> SUFFICES ASSUME NEW m \in taken PROVE answered[m.call] # 0
    BY DEF Unanswered
  <2>1. PICK w \in Worker : wpc[w] = "idle"
    BY <1>6, DaemonAssumption
  <2>2. \/ answered[m.call] = 1
        \/ m.call \in Fatal \cup Hanging /\ executed[m.call] = 1
    BY <1>1, <1>7, <2>1 DEF D!IdleIsDone
  <2> QED  BY <2>2 DEF Deadlock
<1>9. c2s = <<>>
  <2>1. main # "inline"
    BY <1>1 DEF Deadlock, Quiet, DaemonWaits, MainWaits, ReplyBlocked
  <2>2. main # "ended"
    BY <1>6 DEF Deadlock, Quiet, DaemonWaits, MainWaits, PoolJoined
  <2> QED  BY <1>1, <1>5, <2>1, <2>2 DEF Deadlock, Quiet, DaemonWaits, MainWaits
<1>10. CASE \E c \in Call : pc[c] \in InCall
  <2>1. PICK c \in Call : pc[c] = "waiting"
    BY <1>1, <1>10
  <2> QED  BY <1>1, <1>8, <1>9, <2>1 DEF PairInv, Inv, P!NeverForgotten
<1>11. CASE chan = "shut"
  BY <1>1, <1>5, <1>6, <1>7, <1>11 DEF D!OnlyHangingStays
<1> QED  BY <1>10, <1>11 DEF Deadlock

\* There is no other deadlock.
LEMMA DeadlockIsGridlock == PairInv /\ Deadlock => Gridlock
<1> SUFFICES ASSUME PairInv, Deadlock PROVE Gridlock
  OBVIOUS
<1>1. Standstill /\ ~LoopLeft
  BY DEF Deadlock, Standstill, LoopLeft, D!FatalRan
<1> QED  BY <1>1, LockedIsGridlock, UnlockedMoves

-----------------------------------------------------------------------------
(* What a gridlock takes *)

\* There are as many calls in a part of a FIFO as messages, if none is there twice.
LEMMA CountCalls ==
    ASSUME NEW q, NEW I, IsFiniteSet(I),
           \A i, j \in I : q[i].call = q[j].call => i = j
    PROVE  /\ IsFiniteSet({q[i].call : i \in I})
           /\ Cardinality({q[i].call : i \in I}) = Cardinality(I)
<1> DEFINE S == {q[i].call : i \in I}
           f == [i \in I |-> q[i].call]
<1>1. f \in [I -> S] /\ (\A i, j \in I : f[i] = f[j] => i = j) /\ \A c \in S : \E i \in I : f[i] = c
  OBVIOUS
<1>2. f \in Bijection(I, S)
  BY <1>1, Fun_IsBij
<1>3. ExistsBijection(I, S)
  BY <1>2, Fun_ExistsBij
<1> QED  BY <1>3, FS_Bijection

\* The calls whose request was not read, those whose reply was not, the one that holds the
\* lock and the one whose reply the main thread is writing are four different things.
LEMMA FourPlaces ==
    ASSUME PairInv, Gridlock,
           NEW h \in Call, InSendall(h), NEW m \in cur, ReplyBlocked(m)
    PROVE  LET S == {c2s[i].call : i \in DOMAIN c2s}
               R == {s2c[i].call : i \in Replies}
           IN  /\ S \cap R = {}
               /\ h \notin S \cup R
               /\ m.call \notin S \cup R \cup {h}
<1> DEFINE S == {c2s[i].call : i \in DOMAIN c2s}
           R == {s2c[i].call : i \in Replies}
<1>1. m \in Unanswered
  BY DEF PairInv, Inv, Gridlock, D!IInv, D!OneCallback, Unanswered
<1>2. P!OnePlace /\ pc[h] = "sending" /\ P!NoMsgId = NoMsgId
  BY DEF PairInv, Inv, InSendall, P!NoMsgId, NoMsgId
<1>3. /\ c2s \in Seq(Message) /\ DOMAIN c2s = 1 .. Len(c2s)
      /\ s2c \in Seq(Message) /\ DOMAIN s2c = 1 .. Len(s2c)
  BY Types DEF PairInv, Inv, WireTypeOK
<1>4. R \subseteq P!Answered
  <2> SUFFICES ASSUME NEW i \in Replies PROVE s2c[i].call \in P!Answered
    OBVIOUS
  <2>1. i \in 1 .. Len(s2c) /\ s2c[i].id # NoMsgId /\ s2c[i] \in Message
    BY <1>3 DEF Replies
  <2> QED  BY <1>2, <2>1 DEF P!Answered, Message
<1>5. ASSUME NEW c \in S PROVE c \notin P!Answered /\ c # h /\ c # m.call
  <2>1. PICK i \in 1 .. Len(c2s) : c = c2s[i].call
    BY <1>3
  <2> QED  BY <1>1, <1>2, <2>1 DEF P!OnePlace
<1>6. h \notin P!Answered /\ h # m.call /\ m.call \notin P!Answered
  BY <1>1, <1>2 DEF P!OnePlace
<1> QED  BY <1>4, <1>5, <1>6

\* None of these calls is over, but for those that gave up.
LEMMA AllBusy ==
    ASSUME PairInv, Gridlock,
           NEW h \in Call, InSendall(h), NEW m \in cur, ReplyBlocked(m)
    PROVE  {c2s[i].call : i \in DOMAIN c2s} \cup {s2c[i].call : i \in Replies}
             \cup {h, m.call} \subseteq Busy
<1>1. reader = "reading" /\ m \in Unanswered /\ m \in taken
  BY DEF PairInv, Inv, Gridlock, D!IInv, D!OneCallback, Unanswered
<1>2. P!OnePlace /\ P!NoMsgId = NoMsgId
  BY DEF PairInv, Inv, P!NoMsgId, NoMsgId
<1>3. /\ c2s \in Seq(Message) /\ DOMAIN c2s = 1 .. Len(c2s)
      /\ s2c \in Seq(Message) /\ DOMAIN s2c = 1 .. Len(s2c)
      /\ Sent \subseteq Call /\ pc \in [Call -> {"idle"} \cup InCall \cup Outcome]
  BY Types DEF PairInv, Inv, WireTypeOK, ClientTypeOK
<1>4. ASSUME NEW c \in Sent, data[c] = {} PROVE c \in Busy
  <2>1. pc[c] \notin {"idle", "senderror", "eof"}
    BY <1>1, <1>3 DEF PairInv, Inv, Started, Course
  <2>2. pc[c] # "reply"
    BY <1>3, <1>4 DEF PairInv, Inv, P!IInv, P!OwnReply
  <2> QED  BY <1>3, <2>1, <2>2 DEF Busy, Outcome
<1>5. ASSUME NEW c \in Call, c \notin P!Answered PROVE data[c] = {}
  BY <1>5 DEF P!Answered
<1>6. ASSUME NEW i \in DOMAIN c2s PROVE c2s[i].call \in Busy
  <2>1. c2s[i].call \in Sent
    BY <1>3 DEF Sent, Written, Elems
  <2> QED  BY <1>2, <1>3, <1>4, <1>5, <2>1 DEF P!OnePlace
<1>7. ASSUME NEW i \in Replies PROVE s2c[i].call \in Busy
  <2>1. i \in 1 .. Len(s2c) /\ s2c[i].id # NoMsgId /\ s2c[i].call \in Call
    <3>1. i \in DOMAIN s2c /\ s2c[i].id # NoMsgId
      BY DEF Replies
    <3>2. s2c[i] \in Message
      BY <1>3, <3>1
    <3> QED  BY <1>3, <3>1, <3>2 DEF Message
  <2>2. answered[s2c[i].call] # 0
    BY <2>1 DEF PairInv, Delivered, Elems
  <2>3. \E k \in taken : k.call = s2c[i].call
    BY <2>1, <2>2 DEF PairInv, Inv, D!IInv, D!Arrival, D!OneCallback
  <2>4. s2c[i].call \in Sent
    BY <2>3 DEF Sent, Written
  <2>5. data[s2c[i].call] = {}
    BY <1>2, <2>1 DEF PairInv, P!OneReply
  <2> QED  BY <1>4, <2>4, <2>5
<1>8. h \in Busy
  BY DEF InSendall, Busy, InCall
<1>9. m.call \in Busy
  <2>1. m.call \in Sent
    BY <1>1 DEF Sent, Written
  <2> QED  BY <1>1, <1>2, <1>3, <1>4, <1>5, <2>1 DEF P!OnePlace
<1> QED  BY <1>6, <1>7, <1>8, <1>9

\* So they fill the request direction and two pairs of hands, besides the reply direction.
LEMMA GridlockTakes ==
    ASSUME PairInv, Gridlock
    PROVE  /\ IsFiniteSet(Busy) /\ IsFiniteSet(Replies)
           /\ Cardinality(Busy) \in Nat /\ Cardinality(Replies) \in Nat
           /\ Cardinality(Busy) >= Capacity + 2 + Cardinality(Replies)
<1>1. PICK h \in Call : InSendall(h)
  BY DEF Gridlock
<1>2. PICK m \in cur : ReplyBlocked(m)
  BY DEF Gridlock
<1>3. /\ c2s \in Seq(Message) /\ DOMAIN c2s = 1 .. Len(c2s) /\ Len(c2s) = Capacity
      /\ s2c \in Seq(Message) /\ DOMAIN s2c = 1 .. Len(s2c)
      /\ Len(s2c) \in Nat /\ Capacity \in Nat \ {0}
  BY <1>1, Types, WireAssumption DEF PairInv, Inv, WireTypeOK, InSendall, Room
<1> DEFINE S == {c2s[i].call : i \in DOMAIN c2s}
           R == {s2c[i].call : i \in Replies}
<1>4. IsFiniteSet(S) /\ Cardinality(S) = Capacity
  <2>1. \A i, j \in DOMAIN c2s : c2s[i].call = c2s[j].call => i = j
    BY <1>3 DEF PairInv, Inv, P!OnePlace
  <2>2. IsFiniteSet(DOMAIN c2s) /\ Cardinality(DOMAIN c2s) = Capacity
    BY <1>3, FS_Interval
  <2> QED  BY <2>1, <2>2, CountCalls
<1>5. IsFiniteSet(Replies) /\ IsFiniteSet(R) /\ Cardinality(R) = Cardinality(Replies)
  <2>1. IsFiniteSet(DOMAIN s2c)
    BY <1>3, FS_Interval
  <2>2. Replies \subseteq DOMAIN s2c
    BY DEF Replies
  <2>3. IsFiniteSet(Replies)
    BY <2>1, <2>2, FS_Subset
  <2>4. \A i, j \in Replies : s2c[i].call = s2c[j].call => i = j
    BY <1>3 DEF Replies, PairInv, P!OneReply, P!NoMsgId, NoMsgId
  <2> QED  BY <2>3, <2>4, CountCalls
<1>6. S \cap R = {} /\ h \notin S \cup R /\ m.call \notin S \cup R \cup {h}
  BY <1>1, <1>2, FourPlaces
<1>7. (S \cup R \cup {h}) \cup {m.call} \subseteq Busy
  BY <1>1, <1>2, AllBusy
<1>8. Busy \subseteq Used
  BY DEF Busy, Used, InCall
<1>9. IsFiniteSet(Busy)
  BY <1>8, FS_Subset DEF PairInv, Course
<1> HIDE DEF S, R
<1>10. IsFiniteSet(S \cup R) /\ Cardinality(S \cup R) = Capacity + Cardinality(R)
  <2>1. Cardinality(S \cap R) = 0
    BY <1>6, FS_EmptySet
  <2>2. Cardinality(S \cup R) = Cardinality(S) + Cardinality(R) - Cardinality(S \cap R)
    BY <1>4, <1>5, FS_Union
  <2>3. Cardinality(R) \in Nat
    BY <1>5, FS_CardinalityType
  <2> QED  BY <1>3, <1>4, <1>5, <2>1, <2>2, <2>3, FS_Union
<1>11. /\ IsFiniteSet(S \cup R \cup {h})
       /\ Cardinality(S \cup R \cup {h}) = Capacity + Cardinality(R) + 1
  BY <1>6, <1>10, FS_AddElement
<1>12. Cardinality((S \cup R \cup {h}) \cup {m.call}) = Capacity + Cardinality(R) + 1 + 1
  BY <1>6, <1>11, FS_AddElement
<1>13. Cardinality((S \cup R \cup {h}) \cup {m.call}) <= Cardinality(Busy)
  BY <1>7, <1>9, FS_Subset
<1>14. Cardinality(Busy) \in Nat /\ Cardinality(Replies) \in Nat
  BY <1>5, <1>9, FS_CardinalityType
<1> QED  BY <1>3, <1>5, <1>9, <1>12, <1>13, <1>14

\* The PING is not among them, a reply is, and without log records all of s2c are replies.
LEMMA GridlockCalls ==
    ASSUME PairInv, Gridlock, IsFiniteSet(Call)
    PROVE  /\ Cardinality(Call) \in Nat /\ Capacity \in Nat
           /\ Cardinality(Call) >= Capacity + 4
           /\ Logging = {} => Cardinality(Call) >= 2 * Capacity + 3
<1>1. PICK h \in Call : InSendall(h)
  BY DEF Gridlock
<1>2. PICK m \in cur : ReplyBlocked(m)
  BY DEF Gridlock
<1>3. /\ c2s \in Seq(Message) /\ s2c \in Seq(Message)
      /\ Len(c2s) = Capacity /\ Len(s2c) = Capacity /\ Capacity \in Nat \ {0}
      /\ DOMAIN c2s = 1 .. Capacity /\ DOMAIN s2c = 1 .. Capacity
  BY <1>1, <1>2, Types, WireAssumption
     DEF PairInv, Inv, WireTypeOK, InSendall, ReplyBlocked, Room
<1>4. Ping \notin Busy /\ Ping \in Call
  <2>1. c2s[1].call \in Busy /\ c2s[1].call # h /\ h \in Busy
    BY <1>1, <1>2, <1>3, AllBusy, FourPlaces
  <2>2. Ready
    BY <2>1 DEF PairInv, Course, Busy, Used, InCall
  <2> QED  BY <2>2, PrivsepAssumption, DaemonAssumption DEF Ready, Busy, InCall
<1>5. IsFiniteSet(Busy) /\ Cardinality(Busy) \in Nat /\ Cardinality(Replies) \in Nat
      /\ Cardinality(Busy) >= Capacity + 2 + Cardinality(Replies)
      /\ IsFiniteSet(Replies)
  BY GridlockTakes
<1>6. Cardinality(Call) >= Cardinality(Busy) + 1 /\ Cardinality(Call) \in Nat
  <2>1. Busy \cup {Ping} \in SUBSET Call
    BY <1>4 DEF Busy
  <2>2. Cardinality(Busy \cup {Ping}) = Cardinality(Busy) + 1
    BY <1>4, <1>5, FS_AddElement
  <2>3. Cardinality(Busy \cup {Ping}) <= Cardinality(Call)
    BY <2>1, FS_Subset
  <2> QED  BY <1>5, <2>2, <2>3, FS_CardinalityType
<1>7. Cardinality(Replies) >= 1
  <2>1. 1 \in Replies
    BY <1>3 DEF Gridlock, ReplyNext, Replies
  <2>2. Cardinality(Replies) # 0
    BY <1>5, <2>1, FS_EmptySet
  <2> QED  BY <1>5, <2>2
<1>8. ASSUME Logging = {} PROVE Cardinality(Replies) = Capacity
  <2>1. Replies = 1 .. Capacity
    BY <1>3, <1>8 DEF Replies, PairInv, P!OneReply, P!NoMsgId, NoMsgId
  <2> QED  BY <1>3, <2>1, FS_Interval
<1> QED  BY <1>3, <1>5, <1>6, <1>7, <1>8

(***************************************************************************)
(* Every deadlock is the cycle of waits lock - request FIFO - main thread  *)
(* - reply FIFO - reader thread - lock: comm.py:203 holds the lock across  *)
(* sendall, and daemon.py:626 lets the main thread write a reply.          *)
(***************************************************************************)
THEOREM OnlyGridlock == Spec => [](Deadlock => Gridlock)
<1>1. PairInv => (Deadlock => Gridlock)
  BY DeadlockIsGridlock
<1> QED  BY <1>1, PairInvariance, PTL

(***************************************************************************)
(* It takes a full socket in each direction, and two calls more: for any   *)
(* calls, with and without timeouts, any pool and any capacity.            *)
(***************************************************************************)
THEOREM DeadlockNeedsCalls == Spec => []DeadlockTakesMany
<1>1. PairInv => DeadlockTakesMany
  BY DeadlockIsGridlock, GridlockTakes DEF DeadlockTakesMany
<1> QED  BY <1>1, PairInvariance, PTL

(***************************************************************************)
(* So a client that makes few calls, the PING among them, never deadlocks, *)
(* whatever it does with them, its timeouts and close().                   *)
(***************************************************************************)
COROLLARY FewCallsNeverDeadlock ==
    ASSUME IsFiniteSet(Call),
           \/ Cardinality(Call) <= Capacity + 3
           \/ Logging = {} /\ Cardinality(Call) <= 2 * Capacity + 2
    PROVE  Spec => []~Deadlock
<1>1. PairInv => ~Deadlock
  <2> SUFFICES ASSUME PairInv, Deadlock PROVE FALSE
    OBVIOUS
  <2>1. Gridlock
    BY DeadlockIsGridlock
  <2>2. /\ Cardinality(Call) \in Nat /\ Capacity \in Nat
        /\ Cardinality(Call) >= Capacity + 4
        /\ Logging = {} => Cardinality(Call) >= 2 * Capacity + 3
    BY <2>1, GridlockCalls
  <2> QED  BY <2>2
<1> QED  BY <1>1, PairInvariance, PTL

-----------------------------------------------------------------------------
(* It does not resolve itself *)

\* The client is stuck: its lock is taken, its reader thread needs it.
LEMMA ClientStaysStuck ==
    ASSUME PairInv, Gridlock, ClientStep, NEW h \in Call, InSendall(h)
    PROVE  pc'[h] = "sending" /\ UNCHANGED <<wireVars, reader>>
<1>1. holder = {h} /\ pc[h] = "sending" /\ CanWrite /\ ~Room(c2s) /\ h \notin Unserializable
      /\ reader = "reading" /\ s2c # <<>> /\ Head(s2c).id # NoMsgId
  BY DEF InSendall, PairInv, Locks, Gridlock, ReplyNext
<1>2. pc \in [Call -> {"idle"} \cup InCall \cup Outcome]
  BY Types DEF PairInv, Inv, ClientTypeOK
<1>3. ASSUME NEW c \in Call, Request(c) \/ CallerStep(c)
      PROVE  pc'[h] = "sending" /\ UNCHANGED <<wireVars, reader>>
  <2>1. Expire(c)
    <3>1. pc[c] = "sending" => c = h
      BY <1>1 DEF PairInv, Locks
    <3> QED
      BY <1>1, <1>3, <3>1 DEF Request, Register, CallerStep, Send, SendFails, TimedOut, Wake
  <2> QED  BY <1>1, <1>2, <2>1 DEF Expire
<1>4. ~ReaderStep
  BY <1>1 DEF ReaderStep, ReaderStart, ReaderLog, ReaderDeliver, ReaderEof, ReaderReset, AtEof
<1>5. ~Close /\ ~Join
  BY <1>1 DEF Close, Join
<1> QED  BY <1>3, <1>4, <1>5 DEF ClientStep

\* The daemon's main thread is stuck; its pool goes on as far as it can without a reply.
LEMMA DaemonStaysStuck ==
    ASSUME PairInv, Gridlock, DaemonStep, client' = "alive", main' # "exited",
           NEW m \in cur, ReplyBlocked(m)
    PROVE  /\ UNCHANGED <<wireVars, clientVars, main, cur, client>>
           /\ future'[m.call] = "done"
<1>1. main = "inline" /\ cur = {m} /\ client = "alive" /\ ~Room(s2c) /\ future[m.call] = "done"
  BY DEF Gridlock, ReplyBlocked, PairInv, Inv, D!IInv, D!OneCallback
<1>2. ~MainStep /\ ~ExitEscapes /\ ~Log
  BY <1>1 DEF MainStep, Accept, LoopError, LoopEof, AddCallback, InlineReply, SendReply, Exit,
              ExitEscapes, Log
<1>3. ~Crash
  BY DEF Crash, Gone
<1>4. /\ future \in [Call -> {"pending", "done", "fatal"}] /\ m.call \in Call
      /\ job \in [Worker -> SUBSET Message]
  BY Types DEF PairInv, Inv, DaemonTypeOK, D!IInv, D!OneCallback, Message
<1>5. ASSUME NEW w \in Worker, WorkerStep(w)
      PROVE  UNCHANGED <<wireVars, main, cur, client>> /\ future'[m.call] = "done"
  <2>1. CASE Take(w)
    BY <1>1, <2>1 DEF Take
  <2>2. CASE Complete(w)
    <3>1. \A k \in job[w] : k.call # m.call
      BY <1>1, <2>2 DEF Complete, PairInv, Inv, D!IInv, D!InPool
    <3> QED  BY <1>1, <1>4, <2>2, <3>1 DEF Complete
  <2>3. CASE WorkerReply(w)
    BY <1>1, <2>3 DEF WorkerReply, SendReply, wireVars
  <2> QED  BY <1>5, <2>1, <2>2, <2>3 DEF WorkerStep
<1> QED  BY <1>1, <1>2, <1>3, <1>5 DEF DaemonStep, DaemonNext

\* So no step of the threads ends the gridlock.
LEMMA GridlockStays ==
    ASSUME PairInv, Gridlock, [Next]_vars, client' = "alive", main' # "exited"
    PROVE  Gridlock'
<1>1. PICK h \in Call : InSendall(h)
  BY DEF Gridlock
<1>2. PICK m \in cur : ReplyBlocked(m)
  BY DEF Gridlock
<1>3. /\ pc'[h] = "sending" /\ future'[m.call] = "done"
      /\ UNCHANGED <<wireVars, reader, main, cur, client>>
  <2>1. CASE ClientStep
    BY <1>1, <1>2, <2>1, ClientStaysStuck DEF ClientStep, daemonVars, ReplyBlocked
  <2>2. CASE DaemonStep
    BY <1>1, <1>2, <2>2, DaemonStaysStuck DEF clientVars, InSendall
  <2>3. CASE Death
    BY <2>3 DEF Death, ClientDies
  <2>4. CASE UNCHANGED vars
    BY <1>1, <1>2, <2>4 DEF vars, clientVars, daemonVars, InSendall, ReplyBlocked
  <2> QED  BY <2>1, <2>2, <2>3, <2>4 DEF Next
<1> QED
  BY <1>1, <1>2, <1>3 DEF Gridlock, InSendall, CanWrite, Room, ReplyNext, ReplyBlocked, wireVars

(***************************************************************************)
(* The cycle is there to stay: neither a timeout, nor a pool thread, nor   *)
(* close(), which needs the lock, ends it.  Only the end of one of the two *)
(* processes does.                                                         *)
(***************************************************************************)
THEOREM GridlockLasts ==
    Spec => [][Gridlock => (Gridlock' \/ client' # "alive" \/ main' = "exited")]_vars
<1>1. PairInv /\ [Next]_vars =>
        [Gridlock => (Gridlock' \/ client' # "alive" \/ main' = "exited")]_vars
  BY GridlockStays
<1> QED  BY <1>1, PairInvariance, PTL DEF Spec

-----------------------------------------------------------------------------
(* Functions that hang or raise SystemExit *)

PoolUsedUp == D!PoolUsedUp
Culprits == D!Culprits

\* The pair's daemon has what AnyClient's has.
LEMMA PairPool == Spec => []D!PoolInv
<1>1. Init => D!Init
  BY InitInv
<1>2. Inv /\ [Next]_vars => [D!Next]_(D!vars)
  BY Acts
<1>3. Spec => D!Spec
  BY <1>1, <1>2, Invariance, PTL DEF Spec, D!Spec
<1>4. D!Spec => []D!PoolInv
  BY D!PoolInvariance, WireAssumption, DaemonAssumption
<1> QED  BY <1>3, <1>4, PTL

\* While the lock is free, a call waits for a function, or for a thread that is gone.
LEMMA UnlockedIsExcused ==
    ASSUME PairInv, D!PoolInv, Standstill, holder = {}, NEW c \in Call, pc[c] \in InCall,
           ~PoolUsedUp, ~LoopLeft
    PROVE  c \in Culprits
<1>1. /\ pc[c] = "waiting"
      /\ s2c = <<>> /\ Room(s2c) /\ main # "exited" /\ client = "alive"
  BY NothingToRead
<1>2. PICK w \in Worker : wpc[w] = "idle"
  <2>1. PICK w \in Worker : /\ wpc[w] # "dead"
                            /\ wpc[w] = "running" => \A m \in job[w] : m.call \notin Hanging
    BY DEF PoolUsedUp, D!PoolUsedUp
  <2>2. WorkerWaits(w)
    BY DEF Standstill, Quiet, DaemonWaits
  <2> QED  BY <1>1, <2>1, <2>2 DEF WorkerWaits, ReplyBlocked
<1>3. c2s = <<>>
  <2>1. main \in {"ended", "escaped"} => ~D!FatalRan
    BY DEF LoopLeft
  <2>2. main # "escaped"
    BY <1>1, <2>1 DEF PairInv, Inv, D!Kept, D!Ends
  <2>3. main = "ended" => c2s = <<>>
    BY <1>1, <2>1 DEF D!PoolInv, D!ReadAll
  <2>4. main # "inline"
    BY <1>1 DEF Standstill, Quiet, DaemonWaits, MainWaits, ReplyBlocked
  <2> QED  BY <1>1, <2>2, <2>3, <2>4 DEF Standstill, Quiet, DaemonWaits, MainWaits
<1>4. PICK m \in Unanswered : m.call = c
  BY <1>1, <1>3 DEF PairInv, Inv, P!NeverForgotten
<1>5. D!IdleIsDone
  BY D!IdleMeansDone, WireAssumption, DaemonAssumption DEF PairInv, Inv, D!IdleInv
<1>6. \/ answered[m.call] = 1
      \/ m.call \in Fatal \cup Hanging /\ executed[m.call] = 1
  <2>1. D!DaemonWaits /\ D!Room(s2c)
    BY <1>1, SameWaits DEF Standstill, Quiet
  <2> QED  BY <1>1, <1>2, <1>4, <1>5, <2>1 DEF D!IdleIsDone, Unanswered
<1> QED  BY <1>4, <1>6 DEF Unanswered, Culprits, D!Culprits

(***************************************************************************)
(* What CallReturns comes to when functions may hang or raise SystemExit.  *)
(* At a standstill a caller is in send_recv for one of four reasons: the   *)
(* gridlock; its own function is at fault; every pool thread was taken by  *)
(* one that is; or one of them has ended the daemon's loop.                *)
(***************************************************************************)
THEOREM WaitHasReason ==
    Spec => [](Standstill => \A c \in Call : pc[c] \in InCall =>
                  Gridlock \/ c \in Culprits \/ PoolUsedUp \/ LoopLeft)
<1>1. PairInv /\ D!PoolInv =>
        (Standstill => \A c \in Call : pc[c] \in InCall =>
            Gridlock \/ c \in Culprits \/ PoolUsedUp \/ LoopLeft)
  BY LockedIsGridlock, UnlockedIsExcused
<1> QED  BY <1>1, PairInvariance, PairPool, PTL

(***************************************************************************)
(* So a daemon whose loop runs serves everybody else as long as fewer      *)
(* functions are at fault than its pool has threads, whatever they are and *)
(* however the threads interleave.                                         *)
(***************************************************************************)
COROLLARY FewCulpritsHarmNobodyElse ==
    ASSUME IsFiniteSet(Call)
    PROVE  Spec => [](/\ Standstill /\ ~Gridlock /\ ~LoopLeft
                      /\ Cardinality(Culprits) < Cardinality(Worker)
                      => \A c \in Call : pc[c] \in InCall => c \in Culprits)
<1>1. IsFiniteSet(Culprits)
  <2>1. Culprits \subseteq Call
    BY DaemonAssumption DEF Culprits, D!Culprits
  <2> QED  BY <2>1, FS_Subset
<1>2. D!PoolInv /\ PoolUsedUp => /\ Cardinality(Worker) <= Cardinality(Culprits)
                                 /\ IsFiniteSet(Worker)
  <2> SUFFICES ASSUME D!PoolInv, PoolUsedUp
               PROVE  Cardinality(Worker) <= Cardinality(Culprits) /\ IsFiniteSet(Worker)
    OBVIOUS
  <2>1. PICK f \in [Worker -> Culprits] : \A v, w \in Worker : f[v] = f[w] => v = w
    BY D!OneEach, WireAssumption, DaemonAssumption DEF D!PoolInv, PoolUsedUp, Culprits
  <2>2. f \in Injection(Worker, Culprits)
    BY <2>1, Fun_IsInj
  <2> QED  BY <1>1, <2>2, FS_Injection
<1>3. D!PoolInv /\ PoolUsedUp => ~(Cardinality(Culprits) < Cardinality(Worker))
  <2> SUFFICES ASSUME D!PoolInv, PoolUsedUp
               PROVE  ~(Cardinality(Culprits) < Cardinality(Worker))
    OBVIOUS
  <2>1. Cardinality(Worker) \in Nat /\ Cardinality(Culprits) \in Nat
    BY <1>1, <1>2, FS_CardinalityType
  <2> QED  BY <1>2, <2>1
<1>4. D!PoolInv /\ (Standstill => \A c \in Call : pc[c] \in InCall =>
                        Gridlock \/ c \in Culprits \/ PoolUsedUp \/ LoopLeft) =>
        (/\ Standstill /\ ~Gridlock /\ ~LoopLeft
         /\ Cardinality(Culprits) < Cardinality(Worker)
         => \A c \in Call : pc[c] \in InCall => c \in Culprits)
  BY <1>3
<1> QED  BY <1>4, WaitHasReason, PairPool, PTL

(***************************************************************************)
(* What CloseReturns comes to then: close() waits only for a helper's      *)
(* daemon that sys.exit keeps until a function returns, or for a forked    *)
(* child that an exception led past os._exit.  os._exit waits for nothing, *)
(* and neither the lock nor a full socket holds up a close() that has      *)
(* half-closed it.                                                         *)
(***************************************************************************)
THEOREM CloseWaitHasReason ==
    Spec => [](Standstill /\ chan = "shut" =>
                  \/ main = "escaped" /\ D!FatalRan
                  \/ /\ main = "ended" /\ Method = "ROOTWRAP"
                     /\ \E w \in Worker : /\ wpc[w] = "running"
                                          /\ \E m \in job[w] : m.call \in Hanging)
<1>1. PairInv =>
        (Standstill /\ chan = "shut" =>
            \/ main = "escaped" /\ D!FatalRan
            \/ /\ main = "ended" /\ Method = "ROOTWRAP"
               /\ \E w \in Worker : /\ wpc[w] = "running"
                                    /\ \E m \in job[w] : m.call \in Hanging)
  <2> SUFFICES ASSUME PairInv, Standstill, chan = "shut", ~(main = "escaped" /\ D!FatalRan)
               PROVE  /\ main = "ended" /\ Method = "ROOTWRAP"
                      /\ \E w \in Worker : /\ wpc[w] = "running"
                                           /\ \E m \in job[w] : m.call \in Hanging
    OBVIOUS
  <2>1. holder = {}
    <3> SUFFICES ASSUME NEW h \in holder PROVE FALSE
      OBVIOUS
    <3>1. h \in Call /\ pc[h] = "sending"
      BY Types DEF PairInv, Inv, Locks, ClientTypeOK
    <3> QED
      BY <3>1 DEF Standstill, Quiet, CallerWaits, InSendall, CanWrite, InCall
  <2>2. Room(s2c) /\ main # "exited" /\ client = "alive"
    BY <2>1, NothingToRead
  <2>3. main # "escaped"
    BY <2>2 DEF PairInv, Inv, D!Kept, D!Ends
  <2>4. D!OnlyHangingStays
    BY D!OnlyHangingCanStay, WireAssumption, DaemonAssumption DEF PairInv, Inv, D!IInv
  <2>5. PICK w \in Worker : wpc[w] = "running"
    BY <2>2, <2>3, <2>4, SameWaits DEF D!OnlyHangingStays, Standstill, Quiet
  <2>6. \E m \in job[w] : m.call \in Hanging
    BY <2>2, <2>5 DEF Standstill, Quiet, DaemonWaits, WorkerWaits
  <2>7. main = "ended" /\ Method = "ROOTWRAP"
    BY <2>2, <2>3, DaemonAssumption
       DEF Standstill, Quiet, DaemonWaits, MainWaits, StreamEnded, ReplyBlocked
  <2> QED  BY <2>5, <2>6, <2>7
<1> QED  BY <1>1, PairInvariance, PTL

-----------------------------------------------------------------------------
(***************************************************************************)
(* How many steps can still be taken, at most.  A call has its way through *)
(* send_recv; the weights let a request come to more steps of the daemon:  *)
(* 10 while it is to be sent, 9 in the socket, 3 for loop() to submit it   *)
(* and 5 in the pool's queue, 4 while a thread runs it, 3 to call back,    *)
(* 1 for the reply in the socket, and 2 for the log record of a call.      *)
(***************************************************************************)
CallRank(place) == CASE place = "idle" -> 0
                     [] place = "sending" -> 1
                     [] place = "waiting" -> 2
                     [] place \in {"notified", "expired"} -> 3
                     [] OTHER -> 4

CallsAhead(places) == {p \in Call \X (1 .. 4) : CallRank(places[p[1]]) < p[2]}
Unsent(places) == {c \in Call : places[c] \in {"idle", "sending"}}
CallsLeft(places) == 10 * Cardinality(Unsent(places)) + Cardinality(CallsAhead(places))

WireLeft(requests, replies, records) ==
    9 * Len(requests) + Len(replies) + 2 * Cardinality(Call \ records)

MainLeft(place) == CASE place = "submitted" -> 6
                     [] place = "inline" -> 5
                     [] place = "reading" -> 3
                     [] place = "ended" -> 2
                     [] place = "escaped" -> 1
                     [] OTHER -> 0

Those(places, place) == {w \in Worker : places[w] = place}
PoolLeft(items, places) == 5 * Len(items) + 4 * Cardinality(Those(places, "running"))
                                          + 3 * Cardinality(Those(places, "callback"))

ReaderLeft(place) == CASE place = "starting" -> 2 [] place = "reading" -> 1 [] OTHER -> 0
CloseLeft(state) == CASE state = "open" -> 2 [] state = "shut" -> 1 [] OTHER -> 0
DeathLeft(state) == IF state = "alive" THEN 1 ELSE 0
EndsLeft(place, half, process) == ReaderLeft(place) + CloseLeft(half) + DeathLeft(process)

Left == CallsLeft(pc) + WireLeft(c2s, s2c, emitted) + MainLeft(main)
          + PoolLeft(queue, wpc) + EndsLeft(reader, chan, client)

\* A subset of a finite set has no more elements, and less if it is a proper one.
LEMMA Shrinks ==
    ASSUME NEW S, IsFiniteSet(S), NEW T \in SUBSET S
    PROVE  /\ IsFiniteSet(T)
           /\ Cardinality(S) \in Nat /\ Cardinality(T) \in Nat
           /\ Cardinality(T) <= Cardinality(S)
           /\ T # S => Cardinality(T) < Cardinality(S)
<1>1. IsFiniteSet(T) /\ Cardinality(T) <= Cardinality(S)
  BY FS_Subset
<1>2. T # S => Cardinality(T) # Cardinality(S)
  BY FS_Subset
<1>3. Cardinality(S) \in Nat /\ Cardinality(T) \in Nat
  BY <1>1, FS_CardinalityType
<1> QED  BY <1>1, <1>2, <1>3

\* The five parts are numbers.
LEMMA CallsLeftType ==
    ASSUME IsFiniteSet(Call), NEW places
    PROVE  /\ CallsLeft(places) \in Nat
           /\ IsFiniteSet(CallsAhead(places)) /\ IsFiniteSet(Unsent(places))
<1>1. IsFiniteSet(Call \X (1 .. 4))
  <2>1. 1 \in Int /\ 4 \in Int
    OBVIOUS
  <2>2. IsFiniteSet(1 .. 4)
    BY ONLY <2>1, FS_Interval
  <2> QED  BY <2>2, FS_Product
<1>2. /\ CallsAhead(places) \in SUBSET (Call \X (1 .. 4))
      /\ Unsent(places) \in SUBSET Call
  BY DEF CallsAhead, Unsent
<1>3. /\ IsFiniteSet(CallsAhead(places)) /\ IsFiniteSet(Unsent(places))
      /\ Cardinality(CallsAhead(places)) \in Nat /\ Cardinality(Unsent(places)) \in Nat
  BY <1>1, <1>2, Shrinks
<1> QED  BY <1>3 DEF CallsLeft

LEMMA WireLeftType ==
    ASSUME IsFiniteSet(Call), NEW records,
           NEW requests, Len(requests) \in Nat, NEW replies, Len(replies) \in Nat
    PROVE  WireLeft(requests, replies, records) \in Nat /\ Cardinality(Call \ records) \in Nat
<1>1. Call \ records \in SUBSET Call
  OBVIOUS
<1>2. Cardinality(Call \ records) \in Nat
  BY <1>1, Shrinks
<1> QED  BY <1>2 DEF WireLeft

\* A write leaves the socket as it was or adds one message.
LEMMA ReplyWritten ==
    ASSUME IsFiniteSet(Call), NEW records, NEW requests, NEW replies, NEW written,
           Len(requests) \in Nat, Len(replies) \in Nat,
           written = replies \/ Len(written) = Len(replies) + 1
    PROVE  /\ WireLeft(requests, written, records) \in Nat
           /\ WireLeft(requests, written, records) <= WireLeft(requests, replies, records) + 1
<1>1. Cardinality(Call \ records) \in Nat /\ WireLeft(requests, replies, records) \in Nat
  BY WireLeftType
<1>2. CASE written = replies
  BY <1>1, <1>2
<1>3. CASE Len(written) = Len(replies) + 1
  BY <1>1, <1>3 DEF WireLeft
<1> QED  BY <1>2, <1>3

\* A read takes one.
LEMMA RequestRead ==
    ASSUME IsFiniteSet(Call), NEW records, NEW requests, NEW rest, NEW replies,
           Len(requests) \in Nat, Len(rest) = Len(requests) - 1, Len(replies) \in Nat
    PROVE  WireLeft(rest, replies, records) = WireLeft(requests, replies, records) - 9
<1>1. Cardinality(Call \ records) \in Nat
  BY WireLeftType
<1> QED  BY <1>1 DEF WireLeft

LEMMA PoolLeftType ==
    ASSUME IsFiniteSet(Worker), NEW places, NEW items, Len(items) \in Nat
    PROVE  /\ PoolLeft(items, places) \in Nat
           /\ \A place : /\ IsFiniteSet(Those(places, place))
                         /\ Cardinality(Those(places, place)) \in Nat
<1>1. ASSUME NEW place
      PROVE  IsFiniteSet(Those(places, place)) /\ Cardinality(Those(places, place)) \in Nat
  <2>1. Those(places, place) \in SUBSET Worker
    BY DEF Those
  <2> QED  BY <2>1, Shrinks
<1> QED  BY <1>1 DEF PoolLeft

LEMMA MainLeftType == \A place : MainLeft(place) \in Nat
BY DEF MainLeft

LEMMA EndsLeftType ==
    ASSUME NEW place, NEW half, NEW process
    PROVE  EndsLeft(place, half, process) \in Nat
<1>1. ReaderLeft(place) \in Nat /\ CloseLeft(half) \in Nat /\ DeathLeft(process) \in Nat
  BY DEF ReaderLeft, CloseLeft, DeathLeft
<1> QED  BY <1>1 DEF EndsLeft

\* Calls only go on, and one that goes on leaves less.
LEMMA CallsGoOn ==
    ASSUME IsFiniteSet(Call), NEW old, NEW new,
           \A c \in Call : CallRank(old[c]) <= CallRank(new[c])
    PROVE  /\ CallsLeft(new) <= CallsLeft(old)
           /\ (\E c \in Call : CallRank(old[c]) < CallRank(new[c]))
                  => CallsLeft(new) < CallsLeft(old)
           /\ (\E c \in Unsent(old) : c \notin Unsent(new))
                  => CallsLeft(new) <= CallsLeft(old) - 10
<1>1. /\ IsFiniteSet(CallsAhead(old)) /\ IsFiniteSet(Unsent(old))
  BY CallsLeftType
<1>2. \A place : CallRank(place) \in 0 .. 4
  BY DEF CallRank
<1>3. CallsAhead(new) \in SUBSET CallsAhead(old)
  <2> SUFFICES ASSUME NEW p \in CallsAhead(new) PROVE p \in CallsAhead(old)
    OBVIOUS
  <2>1. p \in Call \X (1 .. 4) /\ CallRank(new[p[1]]) < p[2]
    BY DEF CallsAhead
  <2>2. p[1] \in Call /\ p[2] \in Nat
    BY <2>1
  <2>3. CallRank(old[p[1]]) < p[2]
    BY <1>2, <2>1, <2>2
  <2> QED  BY <2>1, <2>3 DEF CallsAhead
<1>4. Unsent(new) \in SUBSET Unsent(old)
  <2>1. \A place : CallRank(place) <= 1 <=> place \in {"idle", "sending"}
    BY DEF CallRank
  <2> QED  BY <1>2, <2>1 DEF Unsent
<1>5. ASSUME NEW c \in Call, CallRank(old[c]) < CallRank(new[c])
      PROVE  CallsAhead(new) # CallsAhead(old)
  <2>1. <<c, CallRank(new[c])>> \in Call \X (1 .. 4)
    BY <1>2, <1>5
  <2> QED  BY <1>2, <1>5, <2>1 DEF CallsAhead
<1>6. /\ Cardinality(CallsAhead(old)) \in Nat /\ Cardinality(CallsAhead(new)) \in Nat
      /\ Cardinality(CallsAhead(new)) <= Cardinality(CallsAhead(old))
      /\ CallsAhead(new) # CallsAhead(old)
            => Cardinality(CallsAhead(new)) < Cardinality(CallsAhead(old))
  BY <1>1, <1>3, Shrinks
<1>7. /\ Cardinality(Unsent(old)) \in Nat /\ Cardinality(Unsent(new)) \in Nat
      /\ Cardinality(Unsent(new)) <= Cardinality(Unsent(old))
      /\ Unsent(new) # Unsent(old) => Cardinality(Unsent(new)) < Cardinality(Unsent(old))
  BY <1>1, <1>4, Shrinks
<1>8. /\ CallsLeft(new) <= CallsLeft(old)
      /\ CallsAhead(new) # CallsAhead(old) => CallsLeft(new) < CallsLeft(old)
      /\ Unsent(new) # Unsent(old) => CallsLeft(new) <= CallsLeft(old) - 10
  BY <1>6, <1>7 DEF CallsLeft
<1> QED  BY <1>5, <1>8

\* The types that the numbers need.
Typed == ClientTypeOK /\ DaemonTypeOK /\ WireTypeOK

\* The threads that call send_recv: what a request adds to the socket is less
\* than what its call had left.
LEMMA CallerProgress ==
    ASSUME IsFiniteSet(Call), IsFiniteSet(Worker), Typed,
           NEW c \in Call, Request(c) \/ CallerStep(c), UNCHANGED daemonVars
    PROVE  Left' < Left
<1>t. /\ pc \in [Call -> {"idle"} \cup InCall \cup Outcome]
      /\ c2s \in Seq(Message) /\ Len(c2s) \in Nat /\ Len(s2c) \in Nat /\ Len(queue) \in Nat
  BY DEF Typed, ClientTypeOK, WireTypeOK, DaemonTypeOK
<1>1. UNCHANGED <<s2c, emitted, main, queue, wpc, reader, chan, client>>
  BY DEF Request, CallerStep, Register, Send, SendFails, Expire, TimedOut, Wake, Finish,
         daemonVars, wireVars
<1>2. /\ CallRank(pc[c]) < CallRank(pc'[c])
      /\ \A d \in Call \ {c} : pc'[d] = pc[d]
  <2> USE DEF CallRank, InCall, Outcome
  <2>1. CASE Request(c)
    BY <1>t, <2>1 DEF Request, Register
  <2>2. CASE Send(c)
    BY <1>t, <2>2 DEF Send
  <2>3. CASE SendFails(c)
    BY <1>t, <2>3 DEF SendFails, Finish
  <2>4. CASE Expire(c)
    BY <1>t, <2>4 DEF Expire
  <2>5. CASE TimedOut(c)
    BY <1>t, <2>5 DEF TimedOut, Finish
  <2>6. CASE Wake(c)
    <3>1. pc[c] = "notified" /\ pc' = [pc EXCEPT ![c] = IF error[c] THEN "eof" ELSE "reply"]
      BY <2>6 DEF Wake, Finish
    <3> QED  BY <1>t, <3>1
  <2> QED  BY <2>1, <2>2, <2>3, <2>4, <2>5, <2>6 DEF CallerStep
<1>3. \A d \in Call : CallRank(pc[d]) <= CallRank(pc'[d])
  <2>1. \A place : CallRank(place) \in Nat
    BY DEF CallRank
  <2> QED  BY <1>2, <2>1
<1>4. /\ CallsLeft(pc) \in Nat /\ CallsLeft(pc') \in Nat /\ CallsLeft(pc') < CallsLeft(pc)
      /\ (c \in Unsent(pc) /\ c \notin Unsent(pc')) => CallsLeft(pc') <= CallsLeft(pc) - 10
  BY <1>2, <1>3, CallsGoOn, CallsLeftType
<1>5. /\ MainLeft(main) \in Nat /\ PoolLeft(queue, wpc) \in Nat
      /\ EndsLeft(reader, chan, client) \in Nat /\ WireLeft(c2s, s2c, emitted) \in Nat
      /\ Cardinality(Call \ emitted) \in Nat
  BY <1>t, MainLeftType, PoolLeftType, EndsLeftType, WireLeftType
<1>6. CASE Send(c)
  <2>1. Len(c2s') = Len(c2s) + 1
    BY <1>t, <1>6 DEF Send
  <2>2. WireLeft(c2s', s2c, emitted) = WireLeft(c2s, s2c, emitted) + 9
    BY <1>t, <1>5, <2>1 DEF WireLeft
  <2>3. c \in Unsent(pc) /\ c \notin Unsent(pc')
    BY <1>t, <1>6 DEF Send, Unsent
  <2> QED  BY <1>1, <1>4, <1>5, <2>2, <2>3 DEF Left
<1>7. CASE c2s' = c2s
  BY <1>1, <1>4, <1>5, <1>7 DEF Left
<1> QED
  BY <1>6, <1>7 DEF Request, CallerStep, Register, SendFails, Expire, TimedOut, Wake, Finish,
                    wireVars

\* The reader thread: a reply that it takes is one less.
LEMMA ReaderProgress ==
    ASSUME IsFiniteSet(Call), IsFiniteSet(Worker), Typed, ReaderStep, UNCHANGED daemonVars
    PROVE  Left' < Left
<1>t. /\ pc \in [Call -> {"idle"} \cup InCall \cup Outcome]
      /\ s2c \in Seq(Message) /\ Len(c2s) \in Nat /\ Len(s2c) \in Nat /\ Len(queue) \in Nat
  BY DEF Typed, ClientTypeOK, WireTypeOK, DaemonTypeOK
<1>1. UNCHANGED <<c2s, emitted, main, queue, wpc, chan, client>>
  BY DEF ReaderStep, ReaderStart, ReaderLog, ReaderDeliver, ReaderEof, ReaderReset,
         daemonVars, wireVars
<1>2. \A c \in Call : CallRank(pc[c]) <= CallRank(pc'[c])
  <2>1. ASSUME NEW calls, pc' = Notified(calls)
        PROVE  \A c \in Call : CallRank(pc[c]) <= CallRank(pc'[c])
    BY <1>t, <2>1 DEF Notified, CallRank, InCall, Outcome
  <2>2. CASE pc' = pc
    <3>1. \A place : CallRank(place) \in Nat
      BY DEF CallRank
    <3> QED  BY <2>2, <3>1
  <2> QED
    BY <2>1, <2>2 DEF ReaderStep, ReaderStart, ReaderLog, ReaderDeliver, ReaderEof, ReaderReset
<1>3. CallsLeft(pc) \in Nat /\ CallsLeft(pc') \in Nat /\ CallsLeft(pc') <= CallsLeft(pc)
  BY <1>2, CallsGoOn, CallsLeftType
<1>4. /\ MainLeft(main) \in Nat /\ PoolLeft(queue, wpc) \in Nat
      /\ EndsLeft(reader, chan, client) \in Nat /\ WireLeft(c2s, s2c, emitted) \in Nat
      /\ Cardinality(Call \ emitted) \in Nat
  BY <1>t, MainLeftType, PoolLeftType, EndsLeftType, WireLeftType
<1>5. CASE ReaderLog \/ ReaderDeliver
  <2>1. Len(s2c') = Len(s2c) - 1 /\ reader' = reader
    BY <1>t, <1>5 DEF ReaderLog, ReaderDeliver
  <2>2. WireLeft(c2s, s2c', emitted) = WireLeft(c2s, s2c, emitted) - 1
    BY <1>t, <1>4, <2>1 DEF WireLeft
  <2> QED  BY <1>1, <1>3, <1>4, <2>1, <2>2 DEF Left
<1>6. CASE ReaderStart \/ ReaderEof \/ ReaderReset
  <2>1. s2c' = s2c
    BY <1>6 DEF ReaderStart, ReaderEof, ReaderReset, wireVars
  <2>2. ReaderLeft(reader') < ReaderLeft(reader)
    BY <1>6 DEF ReaderStart, ReaderEof, AtEof, ReaderReset, ReaderLeft
  <2>3. /\ ReaderLeft(reader) \in Nat /\ ReaderLeft(reader') \in Nat
        /\ CloseLeft(chan) \in Nat /\ DeathLeft(client) \in Nat
    BY DEF ReaderLeft, CloseLeft, DeathLeft
  <2>4. /\ EndsLeft(reader', chan, client) < EndsLeft(reader, chan, client)
        /\ EndsLeft(reader', chan, client) \in Nat
    BY <2>2, <2>3 DEF EndsLeft
  <2> QED  BY <1>1, <1>3, <1>4, <2>1, <2>4 DEF Left
<1> QED  BY <1>5, <1>6 DEF ReaderStep

\* close() and the death of the client process come once.
LEMMA CloseProgress ==
    ASSUME IsFiniteSet(Call), IsFiniteSet(Worker), Typed,
           ((Close \/ Join) /\ UNCHANGED daemonVars) \/ Death
    PROVE  Left' < Left
<1>1. /\ UNCHANGED <<c2s, s2c, emitted, pc, main, queue, wpc, reader>>
      /\ \/ CloseLeft(chan') < CloseLeft(chan) /\ client' = client
         \/ chan' = chan /\ DeathLeft(client') < DeathLeft(client)
  <2>1. CASE (Close \/ Join) /\ UNCHANGED daemonVars
    BY <2>1 DEF Close, Join, CloseLeft, clientVars, daemonVars
  <2>2. CASE Death
    BY <2>2 DEF Death, ClientDies, DeathLeft, clientVars, wireVars
  <2> QED  BY <2>1, <2>2
<1>2. /\ ReaderLeft(reader) \in Nat /\ CloseLeft(chan) \in Nat /\ CloseLeft(chan') \in Nat
      /\ DeathLeft(client) \in Nat /\ DeathLeft(client') \in Nat
  BY DEF ReaderLeft, CloseLeft, DeathLeft
<1>3. /\ EndsLeft(reader, chan', client') < EndsLeft(reader, chan, client)
      /\ EndsLeft(reader, chan', client') \in Nat /\ EndsLeft(reader, chan, client) \in Nat
  BY <1>1, <1>2 DEF EndsLeft
<1>4. Len(c2s) \in Nat /\ Len(s2c) \in Nat /\ Len(queue) \in Nat
  BY DEF Typed, WireTypeOK, DaemonTypeOK
<1>5. /\ CallsLeft(pc) \in Nat /\ WireLeft(c2s, s2c, emitted) \in Nat
      /\ MainLeft(main) \in Nat /\ PoolLeft(queue, wpc) \in Nat
  BY <1>4, CallsLeftType, WireLeftType, MainLeftType, PoolLeftType
<1> QED  BY <1>1, <1>3, <1>5 DEF Left

\* The main thread: what it takes from the socket, and whatever ends its loop.
LEMMA MainProgress ==
    ASSUME IsFiniteSet(Call), IsFiniteSet(Worker), Typed, UNCHANGED clientVars,
           MainStep \/ ExitEscapes \/ Crash
    PROVE  Left' < Left
<1>t. /\ c2s \in Seq(Message) /\ s2c \in Seq(Message) /\ queue \in Seq(Message)
      /\ Len(c2s) \in Nat /\ Len(s2c) \in Nat /\ Len(queue) \in Nat
      /\ main \in {"reading", "submitted", "inline", "ended", "escaped", "exited"}
  BY DEF Typed, WireTypeOK, DaemonTypeOK
<1>1. UNCHANGED <<emitted, pc, wpc, reader, chan, client>>
  BY DEF MainStep, Accept, LoopError, LoopEof, AddCallback, InlineReply, Exit, ExitEscapes,
         Crash, Gone, clientVars, wireVars
<1>2. /\ CallsLeft(pc) \in Nat /\ EndsLeft(reader, chan, client) \in Nat
      /\ MainLeft(main) \in Nat /\ MainLeft(main') \in Nat
      /\ PoolLeft(queue, wpc) \in Nat /\ WireLeft(c2s, s2c, emitted) \in Nat
      /\ Cardinality(Call \ emitted) \in Nat
      /\ \A place : Cardinality(Those(wpc, place)) \in Nat
  BY <1>t, CallsLeftType, EndsLeftType, MainLeftType, PoolLeftType, WireLeftType
<1>3. CASE Accept
  <2>1. /\ Len(c2s') = Len(c2s) - 1 /\ Len(queue') = Len(queue) + 1 /\ s2c' = s2c
        /\ main = "reading" /\ main' = "submitted"
    BY <1>t, <1>3 DEF Accept
  <2>2. WireLeft(c2s', s2c, emitted) = WireLeft(c2s, s2c, emitted) - 9
    BY <1>t, <2>1, RequestRead
  <2>3. PoolLeft(queue', wpc) = PoolLeft(queue, wpc) + 5
    <3>1. /\ Cardinality(Those(wpc, "running")) \in Nat
          /\ Cardinality(Those(wpc, "callback")) \in Nat
      BY <1>2
    <3>2. Len(queue) \in Nat /\ Len(queue') = Len(queue) + 1
      BY <1>t, <2>1
    <3> QED  BY ONLY <3>1, <3>2 DEF PoolLeft
  <2>4. MainLeft(main') = MainLeft(main) + 3
    BY <2>1 DEF MainLeft
  <2>5. Left' = CallsLeft(pc) + WireLeft(c2s', s2c, emitted) + MainLeft(main')
                  + PoolLeft(queue', wpc) + EndsLeft(reader, chan, client)
    BY <1>1, <2>1 DEF Left
  <2> QED  BY <1>2, <2>2, <2>3, <2>4, <2>5 DEF Left
<1>4. CASE LoopError
  <2>1. /\ Len(c2s') = Len(c2s) - 1 /\ queue' = queue /\ s2c' = s2c
        /\ main = "reading" /\ main' \in {"ended", "escaped"}
    BY <1>t, <1>4 DEF LoopError, Raised
  <2>2. WireLeft(c2s', s2c, emitted) = WireLeft(c2s, s2c, emitted) - 9
    BY <1>t, <2>1, RequestRead
  <2>3. MainLeft(main') < MainLeft(main)
    BY <2>1 DEF MainLeft
  <2>4. Left' = CallsLeft(pc) + WireLeft(c2s', s2c, emitted) + MainLeft(main')
                  + PoolLeft(queue, wpc) + EndsLeft(reader, chan, client)
    BY <1>1, <2>1 DEF Left
  <2> QED  BY <1>2, <2>2, <2>3, <2>4 DEF Left
<1>5. CASE InlineReply
  <2>1. /\ c2s' = c2s /\ queue' = queue /\ main = "inline"
        /\ s2c' = s2c \/ Len(s2c') = Len(s2c) + 1
        /\ main' \in {"reading", "ended", "escaped"}
    BY <1>t, <1>5 DEF InlineReply, SendReply, Raised
  <2>2. /\ WireLeft(c2s, s2c', emitted) \in Nat
        /\ WireLeft(c2s, s2c', emitted) <= WireLeft(c2s, s2c, emitted) + 1
    BY <1>t, <2>1, ReplyWritten
  <2>3. MainLeft(main') <= MainLeft(main) - 2
    BY <2>1 DEF MainLeft
  <2>4. Left' = CallsLeft(pc) + WireLeft(c2s, s2c', emitted) + MainLeft(main')
                  + PoolLeft(queue, wpc) + EndsLeft(reader, chan, client)
    BY <1>1, <2>1 DEF Left
  <2> QED  BY <1>2, <2>2, <2>3, <2>4 DEF Left
<1>6. CASE LoopEof \/ AddCallback \/ Exit \/ ExitEscapes \/ Crash
  <2>1. UNCHANGED <<c2s, s2c, queue>>
    BY <1>6 DEF LoopEof, AddCallback, Exit, ExitEscapes, Crash, Gone, wireVars
  <2>2. MainLeft(main') < MainLeft(main)
    <3>1. CASE LoopEof
      BY <3>1 DEF LoopEof, Raised, MainLeft
    <3>2. CASE AddCallback
      BY <3>2 DEF AddCallback, MainLeft
    <3>3. CASE Exit \/ Crash
      BY <1>t, <3>3 DEF Exit, Crash, Gone, MainLeft
    <3>4. CASE ExitEscapes
      BY <3>4 DEF ExitEscapes, MainLeft
    <3> QED  BY <1>6, <3>1, <3>2, <3>3, <3>4
  <2> QED  BY <1>1, <1>2, <2>1, <2>2 DEF Left
<1> QED  BY <1>3, <1>4, <1>5, <1>6 DEF MainStep

\* A thread of the pool, and what it writes.
LEMMA WorkerProgress ==
    ASSUME IsFiniteSet(Call), IsFiniteSet(Worker), Typed, UNCHANGED clientVars,
           NEW w \in Worker, WorkerStep(w)
    PROVE  Left' < Left
<1>t. /\ s2c \in Seq(Message) /\ queue \in Seq(Message)
      /\ Len(c2s) \in Nat /\ Len(s2c) \in Nat /\ Len(queue) \in Nat
      /\ wpc \in [Worker -> {"idle", "running", "callback", "dead"}]
  BY DEF Typed, WireTypeOK, DaemonTypeOK
<1>1. UNCHANGED <<c2s, emitted, pc, main, reader, chan, client>>
  BY DEF WorkerStep, Take, Complete, WorkerReply, clientVars, wireVars
<1> DEFINE old(place) == Cardinality(Those(wpc, place))
           new(place) == Cardinality(Those(wpc', place))
<1>2. /\ CallsLeft(pc) \in Nat /\ EndsLeft(reader, chan, client) \in Nat
      /\ MainLeft(main) \in Nat
      /\ PoolLeft(queue, wpc) \in Nat /\ WireLeft(c2s, s2c, emitted) \in Nat
      /\ Cardinality(Call \ emitted) \in Nat
      /\ \A place : IsFiniteSet(Those(wpc, place)) /\ old(place) \in Nat
  BY <1>t, CallsLeftType, EndsLeftType, MainLeftType, PoolLeftType, WireLeftType
<1>3. ASSUME NEW place, wpc'[w] = place, wpc[w] # place,
             \A v \in Worker \ {w} : wpc'[v] = wpc[v]
      PROVE  new(place) = old(place) + 1
  <2>1. Those(wpc', place) = Those(wpc, place) \cup {w} /\ w \notin Those(wpc, place)
    BY <1>3 DEF Those
  <2> QED  BY <1>2, <2>1, FS_AddElement
<1>4. ASSUME NEW place, wpc[w] = place, wpc'[w] # place,
             \A v \in Worker \ {w} : wpc'[v] = wpc[v]
      PROVE  new(place) = old(place) - 1
  <2>1. Those(wpc', place) = Those(wpc, place) \ {w} /\ w \in Those(wpc, place)
    BY <1>4 DEF Those
  <2> QED  BY <1>2, <2>1, FS_RemoveElement
<1>5. ASSUME NEW place, wpc[w] # place, wpc'[w] # place,
             \A v \in Worker \ {w} : wpc'[v] = wpc[v]
      PROVE  new(place) = old(place)
  <2>1. Those(wpc', place) = Those(wpc, place)
    BY <1>5 DEF Those
  <2> QED  BY <2>1
<1>6. /\ PoolLeft(queue, wpc) = 5 * Len(queue) + 4 * old("running") + 3 * old("callback")
      /\ PoolLeft(queue', wpc') = 5 * Len(queue') + 4 * new("running") + 3 * new("callback")
  BY DEF PoolLeft
<1>7. old("running") \in Nat /\ old("callback") \in Nat
  BY <1>2
<1> HIDE DEF old, new
<1>8. CASE Take(w)
  <2>1. /\ wpc[w] = "idle" /\ wpc'[w] = "running" /\ s2c' = s2c
        /\ \A v \in Worker \ {w} : wpc'[v] = wpc[v]
        /\ Len(queue') = Len(queue) - 1
    BY <1>t, <1>8 DEF Take, wireVars
  <2>2. new("running") = old("running") + 1 /\ new("callback") = old("callback")
    BY <1>3, <1>5, <2>1
  <2>3. PoolLeft(queue', wpc') = PoolLeft(queue, wpc) - 1
    BY <1>t, <1>6, <1>7, <2>1, <2>2
  <2> QED  BY <1>1, <1>2, <2>1, <2>3 DEF Left
<1>9. CASE Complete(w)
  <2>1. /\ wpc[w] = "running" /\ wpc'[w] \in {"idle", "callback"} /\ s2c' = s2c
        /\ \A v \in Worker \ {w} : wpc'[v] = wpc[v]
        /\ queue' = queue
    BY <1>t, <1>9 DEF Complete, wireVars
  <2>2. /\ new("running") = old("running") - 1
        /\ \/ new("callback") = old("callback")
           \/ new("callback") = old("callback") + 1
    BY <1>3, <1>4, <1>5, <2>1
  <2>3. \/ PoolLeft(queue', wpc') = PoolLeft(queue, wpc) - 1
        \/ PoolLeft(queue', wpc') = PoolLeft(queue, wpc) - 4
    BY <1>t, <1>6, <1>7, <2>1, <2>2
  <2> QED  BY <1>1, <1>2, <2>1, <2>3 DEF Left
<1>10. CASE WorkerReply(w)
  <2>1. /\ wpc[w] = "callback" /\ wpc'[w] \in {"idle", "dead"}
        /\ \A v \in Worker \ {w} : wpc'[v] = wpc[v]
        /\ queue' = queue
        /\ s2c' = s2c \/ Len(s2c') = Len(s2c) + 1
    BY <1>t, <1>10 DEF WorkerReply, SendReply
  <2>2. new("running") = old("running") /\ new("callback") = old("callback") - 1
    BY <1>4, <1>5, <2>1
  <2>3. PoolLeft(queue', wpc') = PoolLeft(queue, wpc) - 3
    BY <1>t, <1>6, <1>7, <2>1, <2>2
  <2>4. /\ WireLeft(c2s, s2c', emitted) \in Nat
        /\ WireLeft(c2s, s2c', emitted) <= WireLeft(c2s, s2c, emitted) + 1
    BY <1>t, <2>1, ReplyWritten
  <2> QED  BY <1>1, <1>2, <2>3, <2>4 DEF Left
<1> QED  BY <1>8, <1>9, <1>10 DEF WorkerStep

\* A log record, of which a call makes one.
LEMMA LogProgress ==
    ASSUME IsFiniteSet(Call), IsFiniteSet(Worker), Typed, UNCHANGED clientVars, Log
    PROVE  Left' < Left
<1>t. /\ s2c \in Seq(Message)
      /\ Len(c2s) \in Nat /\ Len(s2c) \in Nat /\ Len(queue) \in Nat
  BY DEF Typed, WireTypeOK, DaemonTypeOK
<1>1. UNCHANGED <<c2s, pc, main, queue, wpc, reader, chan, client>>
  BY DEF Log, clientVars, daemonVars
<1>2. /\ CallsLeft(pc) \in Nat /\ EndsLeft(reader, chan, client) \in Nat
      /\ MainLeft(main) \in Nat /\ PoolLeft(queue, wpc) \in Nat
      /\ WireLeft(c2s, s2c, emitted) \in Nat /\ Cardinality(Call \ emitted) \in Nat
  BY <1>t, CallsLeftType, EndsLeftType, MainLeftType, PoolLeftType, WireLeftType
<1>3. PICK c \in Call \ emitted : emitted' = emitted \cup {c}
  BY WireAssumption DEF Log
<1>4. Len(s2c') = Len(s2c) + 1
  BY <1>t DEF Log
<1>5. Cardinality(Call \ emitted') = Cardinality(Call \ emitted) - 1
  <2>1. Call \ emitted' = (Call \ emitted) \ {c}
    BY <1>3
  <2>2. Call \ emitted \in SUBSET Call
    OBVIOUS
  <2>3. IsFiniteSet(Call \ emitted)
    BY <2>2, FS_Subset
  <2> QED  BY <1>3, <2>1, <2>3, FS_RemoveElement
<1>6. WireLeft(c2s, s2c', emitted') = WireLeft(c2s, s2c, emitted) - 1
  BY <1>t, <1>2, <1>4, <1>5 DEF WireLeft
<1> QED  BY <1>1, <1>2, <1>6 DEF Left

(***************************************************************************)
(* Every step of the two processes is progress, whichever thread takes it  *)
(* and whatever the other side is doing: no thread polls, retries or       *)
(* passes work back and forth.  A number of calls is therefore over after  *)
(* a number of steps, and then WaitHasReason says who still waits, and     *)
(* for what.                                                               *)
(***************************************************************************)
THEOREM EveryStepIsProgress ==
    ASSUME IsFiniteSet(Call), IsFiniteSet(Worker)
    PROVE  Spec => [](Left \in Nat) /\ [][Left' < Left]_vars
<1>1. PairInv => Typed
  BY Types DEF PairInv, Inv, Typed
<1>2. Typed => Left \in Nat
  <2> SUFFICES ASSUME Typed PROVE Left \in Nat
    OBVIOUS
  <2>1. Len(c2s) \in Nat /\ Len(s2c) \in Nat /\ Len(queue) \in Nat
    BY DEF Typed, WireTypeOK, DaemonTypeOK
  <2>2. /\ CallsLeft(pc) \in Nat /\ WireLeft(c2s, s2c, emitted) \in Nat
        /\ MainLeft(main) \in Nat /\ PoolLeft(queue, wpc) \in Nat
        /\ EndsLeft(reader, chan, client) \in Nat
    BY <2>1, CallsLeftType, WireLeftType, MainLeftType, PoolLeftType, EndsLeftType
  <2> QED  BY <2>2 DEF Left
<1>3. Typed /\ [Next]_vars => [Left' < Left]_vars
  <2> SUFFICES ASSUME Typed, Next PROVE Left' < Left
    OBVIOUS
  <2>1. CASE ClientStep
    BY <2>1, CallerProgress, ReaderProgress, CloseProgress DEF ClientStep, CallerStep
  <2>2. CASE DaemonStep
    BY <2>2, MainProgress, WorkerProgress, LogProgress DEF DaemonStep, DaemonNext
  <2>3. CASE Death
    BY <2>3, CloseProgress
  <2> QED  BY <2>1, <2>2, <2>3 DEF Next
<1> QED  BY <1>1, <1>2, <1>3, PairInvariance, PTL DEF Spec
=============================================================================
