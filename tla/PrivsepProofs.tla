---------------------------- MODULE PrivsepProofs ----------------------------
(***************************************************************************)
(* Proofs that the two processes implement AnyPeer, AnyClient and          *)
(* RemoteCall, for any calls, ids, pool and capacity.  Every step of the   *)
(* one process is an environment step of the other, so what                *)
(* AnyClientProofs shows of the daemon and AnyPeerProofs of the client is  *)
(* true of the pair.                                                       *)
(***************************************************************************)
EXTENDS Privsep, SequenceTheorems, TLAPS

Elems(q) == {q[i] : i \in 1 .. Len(q)}

\* The calls whose request was written.
Sent == {m.call : m \in Written}

D == INSTANCE IdleProofs WITH sent <- Written
P == INSTANCE LogOrderProofs WITH pending <- Unanswered

\* What was sent is not sent again, and went with the id of its call.
Started == /\ \A c \in Sent : pc[c] \notin {"idle", "sending"} /\ c \notin Unserializable
           /\ \A m \in Written : m.id = msgid[m.call]

\* The call that sends has the lock, and the newest id.
Newest == \A c \in Call : /\ pc[c] # "idle" => msgid[c] \in MsgId
                          /\ pc[c] = "sending" => holder = {c} /\ msgid[c] = lastId

\* The socket lives as long as the daemon process.
PeerUp == main # "exited" => peer = "up"

Inv == /\ D!IInv /\ D!Kept
       /\ P!IInv /\ P!OnePlace /\ P!LogAhead /\ P!NeverForgotten
       /\ Started /\ Newest /\ PeerUp

-----------------------------------------------------------------------------
(* The three modules share their actions *)

\* The threads that call send_recv.
LEMMA SameCaller ==
    ASSUME NEW c \in Call
    PROVE  /\ P!Register(c) <=> Register(c)
           /\ P!CallerStep(c) <=> CallerStep(c)
           /\ Peer!Register(c) <=> Register(c)
           /\ Peer!CallerStep(c) <=> CallerStep(c)
  BY DEF Register, CallerStep, Send, SendFails, Expire, TimedOut, Wake, Finish, NewId,
         CanWrite, Room, wireVars,
         P!Register, P!CallerStep, P!Send, P!SendFails, P!Expire, P!TimedOut, P!Wake,
         P!Finish, P!NewId, P!CanWrite, P!Room, P!wireVars,
         Peer!Register, Peer!CallerStep, Peer!Send, Peer!SendFails, Peer!Expire,
         Peer!TimedOut, Peer!Wake, Peer!Finish, Peer!NewId, Peer!CanWrite, Peer!Room,
         Peer!wireVars

\* The reader thread.
LEMMA SameReader == (P!ReaderStep <=> ReaderStep) /\ (Peer!ReaderStep <=> ReaderStep)
  BY DEF ReaderStep, ReaderStart, ReaderLog, ReaderDeliver, ReaderEof, ReaderReset, AtEof,
         Notified, Mailbox, NoMsgId, wireVars,
         P!ReaderStep, P!ReaderStart, P!ReaderLog, P!ReaderDeliver, P!ReaderEof,
         P!ReaderReset, P!AtEof, P!Notified, P!Mailbox, P!NoMsgId, P!wireVars,
         Peer!ReaderStep, Peer!ReaderStart, Peer!ReaderLog, Peer!ReaderDeliver,
         Peer!ReaderEof, Peer!ReaderReset, Peer!AtEof, Peer!Notified, Peer!Mailbox,
         Peer!NoMsgId, Peer!wireVars

\* close.
LEMMA SameClose == /\ P!Close <=> Close
                   /\ P!Join <=> Join
                   /\ Peer!Close <=> Close
                   /\ Peer!Join <=> Join
  BY DEF Close, Join, clientVars, P!Close, P!Join, P!clientVars, Peer!Close, Peer!Join,
         Peer!clientVars

\* The peer and the initial state, in both instances of AnyPeer.
LEMMA SamePeer ==
    /\ P!Init <=> Peer!Init
    /\ P!PeerRead <=> Peer!PeerRead
    /\ P!PeerExit <=> Peer!PeerExit
    /\ \A m \in Unanswered : /\ P!PeerReply(m) <=> Peer!PeerReply(m)
                             /\ P!PeerLog(m) <=> Peer!PeerLog(m)
  BY DEF P!Init, P!ClientInit, P!WireInit, P!PeerRead, P!PeerExit, P!PeerReply, P!PeerLog,
         P!clientVars, P!PeerEnds, P!Room, P!LogRecord, P!NoMsgId,
         Peer!Init, Peer!ClientInit, Peer!WireInit, Peer!PeerRead, Peer!PeerExit,
         Peer!PeerReply, Peer!PeerLog, Peer!clientVars, Peer!PeerEnds, Peer!Room,
         Peer!LogRecord, Peer!NoMsgId

\* So the two instances have the same steps.
LEMMA SameNext == [P!Next]_(P!vars) <=> [Peer!Next]_(Peer!vars)
<1>1. P!vars = Peer!vars
  BY DEF P!vars, P!clientVars, P!wireVars, Peer!vars, Peer!clientVars, Peer!wireVars
<1>2. P!ClientNext <=> Peer!ClientNext
  BY SameCaller, SameReader, SameClose DEF P!ClientNext, Peer!ClientNext
<1>3. P!vars' = Peer!vars'
  BY DEF P!vars, P!clientVars, P!wireVars, Peer!vars, Peer!clientVars, Peer!wireVars
<1>4. P!Next <=> Peer!Next
  <2>1. /\ P!PeerRead <=> Peer!PeerRead
        /\ P!PeerExit <=> Peer!PeerExit
    BY SamePeer
  <2>2. (\E m \in Unanswered : P!PeerReply(m) \/ P!PeerLog(m))
           <=> (\E m \in Unanswered : Peer!PeerReply(m) \/ Peer!PeerLog(m))
    BY SamePeer
  <2> QED  BY <1>2, <2>1, <2>2 DEF P!Next, Peer!Next
<1> QED  BY <1>1, <1>3, <1>4

\* The daemon's main thread.
LEMMA SameMain == (D!MainStep <=> MainStep) /\ (Client!MainStep <=> MainStep)
  BY DEF MainStep, Accept, LoopError, LoopEof, AddCallback, InlineReply, Exit, StreamEnded,
         Raised, Finished, SendReply, WriteErrors, PoolJoined, Gone, PeerEnds, Room,
         wireVars,
         D!MainStep, D!Accept, D!LoopError, D!LoopEof, D!AddCallback, D!InlineReply,
         D!Exit, D!StreamEnded, D!Raised, D!Finished, D!SendReply, D!WriteErrors,
         D!PoolJoined, D!Gone, D!PeerEnds, D!Room, D!wireVars,
         Client!MainStep, Client!Accept, Client!LoopError, Client!LoopEof,
         Client!AddCallback, Client!InlineReply, Client!Exit, Client!StreamEnded,
         Client!Raised, Client!Finished, Client!SendReply, Client!WriteErrors,
         Client!PoolJoined, Client!Gone, Client!PeerEnds, Client!Room, Client!wireVars

\* Its pool.
LEMMA SameWorker ==
    ASSUME NEW w \in Worker
    PROVE  (D!WorkerStep(w) <=> WorkerStep(w)) /\ (Client!WorkerStep(w) <=> WorkerStep(w))
  BY DEF WorkerStep, Take, Complete, WorkerReply, SendReply, WriteErrors, Room, wireVars,
         Hooked,
         D!WorkerStep, D!Take, D!Complete, D!WorkerReply, D!SendReply, D!WriteErrors,
         D!Room, D!wireVars, D!Hooked,
         Client!WorkerStep, Client!Take, Client!Complete, Client!WorkerReply,
         Client!SendReply, Client!WriteErrors, Client!Room, Client!wireVars, Client!Hooked

\* In particular, it takes the same work from the queue.
LEMMA SameTake == ASSUME NEW w \in Worker PROVE Take(w) => D!Take(w)
  BY DEF Take, wireVars, D!Take, D!wireVars

\* The rest of the two processes.
LEMMA SameProcess == /\ (D!ExitEscapes <=> ExitEscapes) /\ (Client!ExitEscapes <=> ExitEscapes)
                     /\ (D!Crash <=> Crash) /\ (Client!Crash <=> Crash)
                     /\ (D!Log <=> Log) /\ (Client!Log <=> Log)
                     /\ (D!ClientDies <=> ClientDies) /\ (Client!ClientDies <=> ClientDies)
  BY DEF ExitEscapes, Crash, Log, ClientDies, Gone, PeerEnds, Room, wireVars, daemonVars,
         InHand, LogRecord, NoMsgId,
         D!ExitEscapes, D!Crash, D!Log, D!ClientDies, D!Gone, D!PeerEnds, D!Room,
         D!wireVars, D!daemonVars, D!InHand, D!LogRecord, D!NoMsgId,
         Client!ExitEscapes, Client!Crash, Client!Log, Client!ClientDies, Client!Gone,
         Client!PeerEnds, Client!Room, Client!wireVars, Client!daemonVars, Client!InHand,
         Client!LogRecord, Client!NoMsgId

\* The client and the initial state, in both instances of AnyClient.
LEMMA SameClient ==
    /\ D!Init <=> Client!Init
    /\ D!Collect <=> Client!Collect
    /\ D!CloseWrite <=> Client!CloseWrite
    /\ \A m : D!Request(m) <=> Client!Request(m)
<1>1. D!Init <=> Client!Init
  BY DEF D!Init, D!DaemonInit, D!WireInit, Client!Init, Client!DaemonInit, Client!WireInit
<1>2. (D!Collect <=> Client!Collect) /\ (D!CloseWrite <=> Client!CloseWrite)
  BY DEF D!Collect, D!CloseWrite, D!daemonVars, Client!Collect, Client!CloseWrite,
         Client!daemonVars
<1>3. ASSUME NEW m PROVE D!Request(m) <=> Client!Request(m)
  BY DEF D!Request, D!CanWrite, D!Room, D!daemonVars,
         Client!Request, Client!CanWrite, Client!Room, Client!daemonVars
<1> QED  BY <1>1, <1>2, <1>3

\* So these two have the same steps, too.
LEMMA SameDaemonNext == [D!Next]_(D!vars) <=> [Client!Next]_(Client!vars)
<1>1. D!vars = Client!vars
  BY DEF D!vars, D!daemonVars, D!wireVars, Client!vars, Client!daemonVars, Client!wireVars
<1>2. D!vars' = Client!vars'
  BY DEF D!vars, D!daemonVars, D!wireVars, Client!vars, Client!daemonVars, Client!wireVars
<1>3. D!DaemonNext <=> Client!DaemonNext
  BY SameMain, SameWorker, SameProcess DEF D!DaemonNext, Client!DaemonNext
<1>4. D!Next <=> Client!Next
  BY <1>3, SameProcess, SameClient DEF D!Next, Client!Next
<1> QED  BY <1>1, <1>2, <1>4

\* Types, in the pair's own terms.
LEMMA Types == /\ D!IInv => DaemonTypeOK /\ WireTypeOK /\ Sent \subseteq Call
               /\ P!IInv => ClientTypeOK
<1>1. D!IInv => DaemonTypeOK /\ WireTypeOK
  BY DEF D!IInv, D!TypeOK, D!DaemonTypeOK, D!WireTypeOK, D!Message, DaemonTypeOK,
         WireTypeOK, Message
<1>2. D!IInv => Sent \subseteq Call
  <2>1. D!IInv => Written \subseteq Message
    BY DEF D!IInv, D!TypeOK, D!Message, Message
  <2> QED  BY <2>1 DEF Sent, Message
<1>3. P!IInv => ClientTypeOK
  BY DEF P!IInv, P!TypeOK, P!ClientTypeOK, P!InCall, P!Outcome, ClientTypeOK, InCall,
         Outcome
<1> QED  BY <1>1, <1>2, <1>3
-----------------------------------------------------------------------------
(* The daemon's steps *)

\* What a FIFO holds, by its two ends.
LEMMA FifoEnds ==
    ASSUME NEW q \in Seq(Message)
    PROVE  /\ q # <<>> => Elems(q) = {Head(q)} \cup Elems(Tail(q))
           /\ \A m \in Message : Elems(Append(q, m)) = Elems(q) \cup {m}
<1>1. q # <<>> => Elems(q) = {Head(q)} \cup Elems(Tail(q))
  BY D!HeadAndTail, WireAssumption, DaemonAssumption DEF Elems, D!Elems, Message, D!Message
<1>2. ASSUME NEW m \in Message PROVE Elems(Append(q, m)) = Elems(q) \cup {m}
  <2>1. /\ Len(Append(q, m)) = Len(q) + 1 /\ Len(q) \in Nat
        /\ Append(q, m)[Len(q) + 1] = m
        /\ \A i \in 1 .. Len(q) : Append(q, m)[i] = q[i]
    BY AppendProperties
  <2> QED  BY <2>1 DEF Elems
<1> QED  BY <1>1, <1>2

\* Reading a request moves it, and nothing else of the daemon's requests any.
LEMMA SentKept ==
    ASSUME D!IInv, DaemonNext \/ ClientDies
    PROVE  UNCHANGED <<Written, Sent>>
<1>1. ASSUME c2s # <<>>, c2s' = Tail(c2s), taken' = taken \cup {Head(c2s)}
      PROVE  UNCHANGED <<Written, Sent>>
  <2>1. Elems(c2s) = {Head(c2s)} \cup Elems(c2s')
    BY <1>1, Types, FifoEnds DEF WireTypeOK
  <2>2. taken' \cup Elems(c2s') = taken \cup Elems(c2s)
    BY <1>1, <2>1
  <2> QED  BY <2>2 DEF Sent, Written, Elems
<1>2. ASSUME UNCHANGED <<c2s, taken>> PROVE UNCHANGED <<Written, Sent>>
  BY <1>2 DEF Sent, Written, Elems
<1>3. CASE Accept \/ LoopError
  BY <1>1, <1>3 DEF Accept, LoopError
<1>4. CASE LoopEof \/ AddCallback \/ InlineReply \/ Exit \/ ExitEscapes \/ Crash \/ Log
  BY <1>2, <1>4 DEF LoopEof, AddCallback, InlineReply, Exit, ExitEscapes, Crash, Log, Gone,
                    wireVars, daemonVars
<1>5. CASE ClientDies
  BY <1>2, <1>5 DEF ClientDies, wireVars
<1>6. ASSUME NEW w \in Worker, WorkerStep(w) PROVE UNCHANGED <<Written, Sent>>
  BY <1>2, <1>6 DEF WorkerStep, Take, Complete, WorkerReply, wireVars
<1> QED  BY <1>3, <1>4, <1>5, <1>6 DEF DaemonNext, MainStep

\* They are steps of AnyClient.
LEMMA DaemonActs ==
    ASSUME D!IInv, DaemonNext \/ ClientDies
    PROVE  D!Next
<1>1. D!DaemonNext \/ D!ClientDies
  BY SameMain, SameWorker, SameProcess DEF DaemonNext, D!DaemonNext
<1> QED  BY <1>1, SentKept DEF D!Next

\* A request in the hands of whoever answers it is not answered yet.
LEMMA InHandUnanswered == D!IInv => \A m \in InHand : m \in Unanswered
<1> SUFFICES ASSUME D!IInv, NEW m \in InHand PROVE m \in Unanswered
  OBVIOUS
<1> USE DEF D!IInv, D!InPool, D!OneCallback, D!Held
<1>1. ASSUME NEW w \in Worker, wpc[w] \in {"running", "callback"}, m \in job[w]
      PROVE  m \in taken /\ answered[m.call] = 0
  <2>1. m \in taken
    BY <1>1
  <2>2. m.call \in Call
    BY <2>1, Types DEF DaemonTypeOK, Message
  <2>3. CASE wpc[w] = "running"
    BY <1>1, <2>2, <2>3
  <2>4. CASE wpc[w] = "callback"
    BY <1>1, <2>4
  <2> QED  BY <1>1, <2>1, <2>3, <2>4
<1>2. ASSUME main = "inline", m \in cur
      PROVE  m \in taken /\ answered[m.call] = 0
  BY <1>2
<1> QED  BY <1>1, <1>2 DEF InHand, Unanswered

\* A callback is PeerReply, or fails and is nothing to the client.
LEMMA ReplySimulates ==
    ASSUME D!IInv, PeerUp, main # "exited", NEW m \in Unanswered, SendReply(m),
           UNCHANGED <<clientVars, taken, c2s, chan, peer, emitted>>
    PROVE  P!PeerReply(m) \/ UNCHANGED P!vars
<1>1. CASE /\ Room(s2c) /\ s2c' = Append(s2c, m)
           /\ answered' = [answered EXCEPT ![m.call] = @ + 1]
  <2>1. /\ answered \in [Call -> Nat] /\ taken \subseteq Message
        /\ \A k \in taken : k.call = m.call => k = m
    BY Types DEF DaemonTypeOK, D!IInv, D!Arrival, Unanswered
  <2>2. \A k \in taken : k.call \in Call
    BY <2>1 DEF Message
  <2>3. m \in taken /\ answered'[m.call] = 1
    BY <1>1, <2>1, <2>2 DEF Unanswered
  <2>4. \A k \in taken : k # m => answered'[k.call] = answered[k.call]
    BY <1>1, <2>1, <2>2, <2>3
  <2>5. Unanswered' = Unanswered \ {m}
    BY <2>3, <2>4 DEF Unanswered
  <2> QED  BY <1>1, <2>5 DEF P!PeerReply, PeerUp, Room, P!Room, clientVars, P!clientVars
<1>2. CASE UNCHANGED <<s2c, answered>>
  BY <1>2 DEF P!vars, P!clientVars, P!wireVars, clientVars, Unanswered
<1> QED  BY <1>1, <1>2 DEF SendReply

\* To the client, the daemon is a peer as AnyPeer has it.
LEMMA DaemonSimulates ==
    ASSUME D!IInv, PeerUp, DaemonNext \/ ClientDies, UNCHANGED clientVars
    PROVE  [P!Next]_(P!vars) /\ PeerUp'
<1>1. ASSUME main = "reading", c2s # <<>>, c2s' = Tail(c2s), taken' = taken \cup {Head(c2s)},
             UNCHANGED <<answered, s2c, chan, peer, emitted>>
      PROVE  P!PeerRead /\ PeerUp'
  <2>1. answered[Head(c2s).call] = 0
    BY <1>1, D!ReadOne, WireAssumption, DaemonAssumption
  <2>2. Unanswered' = Unanswered \cup {Head(c2s)}
    BY <1>1, <2>1 DEF Unanswered
  <2>3. peer = "up"
    BY <1>1 DEF PeerUp
  <2> QED  BY <1>1, <2>2, <2>3 DEF P!PeerRead, clientVars, P!clientVars, PeerUp
<1>2. ASSUME UNCHANGED <<wireVars, taken, answered>>
      PROVE  UNCHANGED P!vars
  BY <1>2 DEF P!vars, P!clientVars, P!wireVars, clientVars, wireVars, Unanswered
<1>3. CASE Accept \/ LoopError
  BY <1>1, <1>3 DEF Accept, LoopError, P!Next
<1>4. CASE LoopEof \/ AddCallback \/ ExitEscapes \/ ClientDies
  BY <1>2, <1>4 DEF LoopEof, AddCallback, ExitEscapes, ClientDies, wireVars, PeerUp
<1>5. CASE InlineReply
  <2>1. /\ main = "inline" /\ peer' = peer
        /\ UNCHANGED <<taken, c2s, chan, peer, emitted>>
    BY <1>5 DEF InlineReply
  <2>2. PICK m \in cur : SendReply(m) \/ UNCHANGED <<s2c, answered>>
    BY <1>5 DEF InlineReply
  <2>3. m \in Unanswered
    BY <2>1, <2>2, InHandUnanswered DEF InHand
  <2>4. P!PeerReply(m) \/ UNCHANGED P!vars
    <3>1. CASE SendReply(m)
      BY <2>1, <2>3, <3>1, ReplySimulates
    <3>2. CASE UNCHANGED <<s2c, answered>>
      BY <1>2, <2>1, <3>2 DEF wireVars
    <3> QED  BY <2>2, <3>1, <3>2
  <2> QED  BY <2>1, <2>3, <2>4 DEF P!Next, PeerUp
<1>6. ASSUME NEW w \in Worker, WorkerReply(w) PROVE [P!Next]_(P!vars) /\ PeerUp'
  <2>1. /\ main # "exited" /\ wpc[w] = "callback" /\ main' = main
        /\ UNCHANGED <<taken, c2s, chan, peer, emitted>>
    BY <1>6 DEF WorkerReply
  <2>2. PICK m \in job[w] : SendReply(m) \/ UNCHANGED <<s2c, answered>>
    BY <1>6 DEF WorkerReply
  <2>3. m \in Unanswered
    BY <2>1, <2>2, InHandUnanswered DEF InHand
  <2>4. P!PeerReply(m) \/ UNCHANGED P!vars
    <3>1. CASE SendReply(m)
      BY <2>1, <2>3, <3>1, ReplySimulates
    <3>2. CASE UNCHANGED <<s2c, answered>>
      BY <1>2, <2>1, <3>2 DEF wireVars
    <3> QED  BY <2>2, <3>1, <3>2
  <2> QED  BY <2>1, <2>3, <2>4 DEF P!Next, PeerUp
<1>7. CASE Exit \/ Crash
  <2>1. Gone /\ UNCHANGED Unanswered
    BY <1>7 DEF Exit, Crash, Gone, Unanswered
  <2>2. P!PeerExit /\ main' = "exited"
    BY <2>1 DEF Gone, PeerEnds, P!PeerExit, P!PeerEnds, clientVars, P!clientVars
  <2> QED  BY <2>2 DEF P!Next, PeerUp
<1>8. CASE Log
  <2>1. PICK m \in InHand : /\ m.call \in Logging \ emitted
                            /\ emitted' = emitted \cup {m.call}
                            /\ s2c' = Append(s2c, LogRecord(m.call))
    BY <1>8 DEF Log
  <2>2. m \in Unanswered /\ UNCHANGED Unanswered
    BY <1>8, InHandUnanswered DEF Log, daemonVars, Unanswered
  <2>3. P!PeerLog(m)
    BY <1>8, <2>1, <2>2 DEF Log, P!PeerLog, PeerUp, Room, P!Room, LogRecord, P!LogRecord,
                            NoMsgId, P!NoMsgId, clientVars, P!clientVars
  <2> QED  BY <1>8, <2>2, <2>3 DEF P!Next, PeerUp, Log, daemonVars
<1>9. ASSUME NEW w \in Worker, Take(w) \/ Complete(w) PROVE [P!Next]_(P!vars) /\ PeerUp'
  BY <1>2, <1>9 DEF Take, Complete, wireVars, PeerUp
<1> QED  BY <1>3, <1>4, <1>5, <1>6, <1>7, <1>8, <1>9 DEF DaemonNext, MainStep, WorkerStep
-----------------------------------------------------------------------------
(* The client's steps *)

\* They are ClientChannel's, which AnyPeer has without restriction.
LEMMA ClientSimulates ==
    ASSUME ClientStep
    PROVE  P!ClientNext /\ UNCHANGED Unanswered
<1>1. UNCHANGED Unanswered
  BY DEF ClientStep, daemonVars, Unanswered
<1>2. P!ClientNext
  BY SameCaller, SameReader, SameClose DEF ClientStep, Request, P!ClientNext
<1> QED  BY <1>1, <1>2

\* What a step of the client leaves alone.
LEMMA ClientLeaves == ClientStep => UNCHANGED <<main, peer, taken>>
  BY DEF ClientStep, daemonVars, Request, Register, CallerStep, Send, SendFails, Expire,
         TimedOut, Wake, Finish, ReaderStep, ReaderStart, ReaderLog, ReaderDeliver,
         ReaderEof, ReaderReset, Close, Join, wireVars

\* A call is registered, which the daemon does not see.
LEMMA RegisterActs ==
    ASSUME D!IInv, P!IInv, Started, Newest, UNCHANGED daemonVars, NEW c \in Call, Register(c)
    PROVE  UNCHANGED D!vars /\ Started' /\ Newest'
<1>1. ClientTypeOK /\ Sent \subseteq Call
  BY Types
<1>2. /\ pc[c] = "idle" /\ holder = {} /\ NewId \in MsgId /\ holder' = {c} /\ lastId' = NewId
      /\ msgid' = [msgid EXCEPT ![c] = NewId] /\ pc' = [pc EXCEPT ![c] = "sending"]
      /\ UNCHANGED wireVars
  BY DEF Register
<1>3. UNCHANGED <<Written, Sent>>
  BY <1>2 DEF Written, Sent, Elems, daemonVars, wireVars
<1>4. UNCHANGED D!vars
  BY <1>2, <1>3 DEF D!vars, D!daemonVars, D!wireVars, daemonVars, wireVars
<1>5. Newest'
  BY <1>1, <1>2 DEF Newest, ClientTypeOK
<1>6. c \notin Sent /\ \A m \in Written : m.call \in Sent
  BY <1>2 DEF Started, Sent
<1>7. Started'
  BY <1>1, <1>2, <1>3, <1>6 DEF Started, ClientTypeOK
<1> QED  BY <1>4, <1>5, <1>7

\* A request is written: the first of its call, with an id that was drawn after all
\* those that were written before.
LEMMA SendActs ==
    ASSUME D!IInv, P!IInv, Started, Newest, client = "alive", UNCHANGED daemonVars,
           NEW c \in Call, Send(c)
    PROVE  D!Next /\ Started' /\ Newest'
<1> DEFINE m == [id |-> msgid[c], call |-> c]
<1>1. /\ pc[c] = "sending" /\ c \notin Unserializable /\ CanWrite /\ Room(c2s)
      /\ c2s' = Append(c2s, m) /\ pc' = [pc EXCEPT ![c] = "waiting"] /\ holder' = {}
      /\ UNCHANGED <<lastId, msgid, s2c, chan, peer, emitted>>
  BY DEF Send
<1>2. ClientTypeOK /\ c2s \in Seq(Message) /\ taken \subseteq Message /\ Sent \subseteq Call
  BY Types DEF WireTypeOK, DaemonTypeOK
<1>3. m \in Message /\ m.call = c /\ m.id = msgid[c] /\ m.id = lastId /\ m.id \in MsgId
  BY <1>1, <1>2 DEF ClientTypeOK, Message, Newest
<1>4. m = [id |-> msgid[c], call |-> c]
  OBVIOUS
<1> HIDE DEF m
<1>5. Elems(c2s') = Elems(c2s) \cup {m}
  BY <1>1, <1>2, <1>3, FifoEnds
<1>6. Written' = Written \cup {m}
  BY <1>5 DEF Written, Elems, daemonVars
<1>7. Sent' = Sent \cup {c}
  BY <1>3, <1>6 DEF Sent
<1>8. ASSUME NEW r \in Written PROVE r.call # m.call /\ r.id < m.id
  <2>1. r.call \in Sent
    BY DEF Sent
  <2>2. r.call \in Call /\ r.call # c /\ r.id = msgid[r.call] /\ pc[r.call] # "idle"
    BY <1>1, <1>2, <2>1 DEF Started
  <2>3. msgid[r.call] # 0 /\ msgid[r.call] <= lastId /\ msgid[r.call] # msgid[c]
    BY <2>2 DEF P!IInv, P!Ids, P!NoMsgId
  <2>4. msgid[r.call] \in Nat /\ lastId \in Nat /\ msgid[c] = lastId
    BY <1>1, <1>2, <2>2 DEF ClientTypeOK, Newest
  <2>5. r.id < m.id
    BY <1>3, <2>2, <2>3, <2>4
  <2> QED  BY <1>3, <2>2, <2>5
<1>9. D!Request(m)
  BY <1>1, <1>6, <1>8 DEF D!Request, D!CanWrite, D!Room, D!daemonVars, CanWrite, Room, daemonVars
<1>10. D!Next
  BY <1>3, <1>4, <1>9 DEF D!Next
<1>11. Started'
  <2>1. pc'[c] = "waiting" /\ \A d \in Call \ {c} : pc'[d] = pc[d]
    BY <1>1, <1>2 DEF ClientTypeOK
  <2> QED  BY <1>1, <1>2, <1>3, <1>6, <1>7, <2>1 DEF Started
<1>12. Newest'
  BY <1>1, <1>2 DEF Newest, ClientTypeOK
<1> QED  BY <1>10, <1>11, <1>12

\* All steps of the client are steps of AnyClient, or nothing to the daemon.
LEMMA ClientActs ==
    ASSUME D!IInv, P!IInv, Started, Newest, ClientStep
    PROVE  [D!Next]_(D!vars) /\ Started' /\ Newest'
<1>1. UNCHANGED daemonVars /\ client = "alive"
  BY DEF ClientStep
<1>2. ClientTypeOK /\ Sent \subseteq Call
  BY Types
<1>3. ASSUME UNCHANGED <<c2s, msgid, lastId>>,
             \A c \in Call : pc'[c] = pc[c] \/ (pc[c] # "idle" /\ pc'[c] \notin {"idle", "sending"}),
             \A c \in Call : pc'[c] = "sending" => holder' = holder
      PROVE  Started' /\ Newest' /\ UNCHANGED Written
  <2>1. UNCHANGED <<Written, Sent>>
    BY <1>1, <1>3 DEF Written, Sent, Elems, daemonVars
  <2>2. Started'
    BY <1>2, <1>3, <2>1 DEF Started
  <2>3. Newest'
    BY <1>3 DEF Newest
  <2> QED  BY <2>1, <2>2, <2>3
<1>4. ASSUME NEW c \in Call, SendFails(c) \/ Expire(c) \/ TimedOut(c) \/ Wake(c)
      PROVE  [D!Next]_(D!vars) /\ Started' /\ Newest'
  <2>1. PICK o \in {"senderror", "expired", "timeout", "eof", "reply"} :
           pc' = [pc EXCEPT ![c] = o]
    BY <1>4 DEF SendFails, Expire, TimedOut, Wake, Finish
  <2>2. /\ UNCHANGED <<wireVars, msgid, lastId>>
        /\ pc[c] # "idle" /\ (holder' = holder \/ pc[c] = "sending")
    BY <1>4 DEF SendFails, Expire, TimedOut, Wake, Finish
  <2>3. \A d \in Call : pc'[d] = IF d = c THEN o ELSE pc[d]
    BY <1>2, <2>1 DEF ClientTypeOK
  <2>4. \A d \in Call : pc'[d] = "sending" => holder' = holder
    BY <2>1, <2>2, <2>3 DEF Newest
  <2>5. Started' /\ Newest' /\ UNCHANGED Written
    BY <1>3, <2>1, <2>2, <2>3, <2>4 DEF wireVars
  <2> QED  BY <1>1, <2>2, <2>5 DEF D!vars, D!daemonVars, D!wireVars, daemonVars, wireVars
<1>5. CASE ReaderStep
  <2>1. UNCHANGED <<c2s, msgid, lastId, holder, chan, peer, emitted>>
    BY <1>5 DEF ReaderStep, ReaderStart, ReaderLog, ReaderDeliver, ReaderEof, ReaderReset,
                wireVars
  <2>2. pc' = pc \/ \E calls : pc' = Notified(calls)
    BY <1>5 DEF ReaderStep, ReaderStart, ReaderLog, ReaderDeliver, ReaderEof, ReaderReset
  <2>3. Started' /\ Newest' /\ UNCHANGED Written
    BY <1>3, <2>1, <2>2 DEF Notified
  <2>4. s2c' = s2c \/ (s2c # <<>> /\ s2c' = Tail(s2c))
    BY <1>5 DEF ReaderStep, ReaderStart, ReaderLog, ReaderDeliver, ReaderEof, ReaderReset,
                wireVars
  <2>5. D!Collect \/ UNCHANGED D!vars
    BY <1>1, <2>1, <2>3, <2>4 DEF D!Collect, D!vars, D!daemonVars, D!wireVars, daemonVars
  <2> QED  BY <2>3, <2>5 DEF D!Next
<1>6. CASE Close \/ Join
  <2>1. /\ UNCHANGED <<clientVars, c2s, s2c, peer, emitted>>
        /\ \/ chan = "open" /\ chan' = "shut"
           \/ chan = "shut" /\ chan' = "joined"
    BY <1>6 DEF Close, Join
  <2>2. Started' /\ Newest' /\ UNCHANGED Written
    BY <1>3, <2>1 DEF clientVars
  <2>3. D!CloseWrite
    BY <1>1, <2>1, <2>2 DEF D!CloseWrite, D!daemonVars, daemonVars
  <2> QED  BY <2>2, <2>3 DEF D!Next
<1>7. ASSUME NEW c \in Call, Request(c) \/ CallerStep(c)
      PROVE  [D!Next]_(D!vars) /\ Started' /\ Newest'
  BY <1>1, <1>4, <1>7, RegisterActs, SendActs DEF Request, CallerStep
<1> QED  BY <1>5, <1>6, <1>7 DEF ClientStep

-----------------------------------------------------------------------------
(* Together *)

\* Every step of the pair is one of AnyPeer, or nothing to it.
LEMMA Simulates == Inv /\ [Next]_vars => [P!Next]_(P!vars)
<1> SUFFICES ASSUME Inv, [Next]_vars PROVE [P!Next]_(P!vars)
  OBVIOUS
<1>1. CASE ClientStep
  BY <1>1, ClientSimulates DEF P!Next
<1>2. CASE DaemonStep \/ Death
  BY <1>2, DaemonSimulates DEF DaemonStep, Death, Inv
<1>3. CASE UNCHANGED vars
  BY <1>3 DEF vars, clientVars, daemonVars, wireVars, P!vars, P!clientVars, P!wireVars,
              Unanswered
<1> QED  BY <1>1, <1>2, <1>3 DEF Next

\* And one of AnyClient, or nothing to it.
LEMMA Acts == Inv /\ [Next]_vars => [D!Next]_(D!vars) /\ Started' /\ Newest'
<1> SUFFICES ASSUME Inv, [Next]_vars PROVE [D!Next]_(D!vars) /\ Started' /\ Newest'
  OBVIOUS
<1>1. CASE ClientStep
  BY <1>1, ClientActs DEF Inv
<1>2. CASE DaemonStep \/ Death
  <2>1. UNCHANGED <<Written, Sent>>
    BY <1>2, SentKept DEF DaemonStep, Death, Inv
  <2>2. UNCHANGED clientVars
    BY <1>2 DEF DaemonStep, Death
  <2>3. Started' /\ Newest'
    BY <2>1, <2>2 DEF Inv, Started, Newest, clientVars
  <2> QED  BY <1>2, <2>3, DaemonActs DEF DaemonStep, Death, Inv
<1>3. CASE UNCHANGED vars
  <2>1. UNCHANGED <<Written, Sent>> /\ UNCHANGED clientVars
    BY <1>3 DEF vars, daemonVars, wireVars, Written, Sent, Elems
  <2>2. Started' /\ Newest'
    BY <2>1 DEF Inv, Started, Newest, clientVars
  <2>3. UNCHANGED D!vars
    BY <1>3, <2>1 DEF vars, daemonVars, wireVars, D!vars, D!daemonVars, D!wireVars
  <2> QED  BY <2>2, <2>3
<1> QED  BY <1>1, <1>2, <1>3 DEF Next

\* Initially nothing was sent.
LEMMA InitInv == Init => Inv /\ P!Init /\ D!Init
<1> SUFFICES ASSUME Init PROVE Inv /\ P!Init /\ D!Init
  OBVIOUS
<1>1. taken \cup Elems(c2s) = {}
  BY DEF Init, DaemonInit, WireInit, Elems
<1>2. Sent = {} /\ Written = {}
  BY <1>1 DEF Sent, Written, Elems
<1>3. D!Init
  BY <1>2 DEF Init, DaemonInit, WireInit, D!Init, D!DaemonInit, D!WireInit
<1>4. Unanswered = {}
  BY DEF Init, DaemonInit, Unanswered
<1>5. P!Init
  BY <1>4 DEF Init, ClientInit, WireInit, P!Init, P!ClientInit, P!WireInit
<1>6. D!IInv
  BY <1>3, D!InitIInv, WireAssumption, DaemonAssumption
<1>7. P!LogInv
  BY <1>5, P!LogInit, WireAssumption, ClientAssumption
<1>8. D!Kept
  BY <1>3, D!InitKept, WireAssumption, DaemonAssumption
<1>9. P!NeverForgotten /\ Newest
  BY DEF Init, ClientInit, P!NeverForgotten, Newest
<1> QED
  BY <1>2, <1>3, <1>5, <1>6, <1>7, <1>8, <1>9 DEF Inv, P!LogInv, Started, PeerUp, Init, WireInit

\* The invariants of the two halves are preserved together.
LEMMA StepInv == Inv /\ [Next]_vars => Inv'
<1> SUFFICES ASSUME Inv, [Next]_vars PROVE Inv'
  OBVIOUS
<1>1. P!IInv' /\ P!OnePlace' /\ P!LogAhead' /\ P!NeverForgotten'
  <2>1. [P!Next]_(P!vars)
    BY Simulates
  <2>2. P!LogInv'
    BY <2>1, P!LogStep, WireAssumption, ClientAssumption DEF Inv, P!LogInv
  <2>3. P!NeverForgotten'
    BY <2>1, P!ForgottenStep, WireAssumption, ClientAssumption DEF Inv
  <2> QED  BY <2>2, <2>3 DEF P!LogInv
<1>2. D!IInv' /\ D!Kept'
  BY Acts, D!IdleStep, WireAssumption, DaemonAssumption DEF Inv, D!IdleInv
<1>3. PeerUp'
  <2>1. CASE ClientStep
    BY <2>1, ClientLeaves DEF Inv, PeerUp
  <2>2. CASE DaemonStep \/ Death
    BY <2>2, DaemonSimulates DEF DaemonStep, Death, Inv
  <2>3. CASE UNCHANGED vars
    BY <2>3 DEF vars, daemonVars, wireVars, Inv, PeerUp
  <2> QED  BY <2>1, <2>2, <2>3 DEF Next
<1> QED  BY <1>1, <1>2, <1>3, Acts DEF Inv

\* What holds of either process with the most general partner holds of the pair.
THEOREM Invariance == Spec => []Inv
  BY InitInv, StepInv, PTL DEF Spec

(***************************************************************************)
(* The daemon, whatever its threads do and however it ends, is a peer that *)
(* keeps the protocol: it answers what it read, at most once each, with    *)
(* the msgid of the request, and logs before it answers.                   *)
(***************************************************************************)
THEOREM DaemonIsAPeer == Spec => ImplementsAnyPeer
<1>1. Init => Peer!Init
  BY InitInv, SamePeer
<1>2. Inv /\ [Next]_vars => [Peer!Next]_(Peer!vars)
  BY Simulates, SameNext
<1> QED  BY <1>1, <1>2, Invariance, PTL DEF Spec, ImplementsAnyPeer, Peer!Spec

(***************************************************************************)
(* The threads of ClientChannel, whatever they do, are a client as         *)
(* AnyClient has it: one request for each call, under an id of its own,    *)
(* none after close(), and everything that the daemon writes is read.      *)
(***************************************************************************)
THEOREM ClientIsAClient == Spec => ImplementsAnyClient
<1>1. Init => Client!Init
  BY InitInv, SameClient
<1>2. Inv /\ [Next]_vars => [Client!Next]_(Client!vars)
  BY Acts, SameDaemonNext
<1> QED  BY <1>1, <1>2, Invariance, PTL DEF Spec, ImplementsAnyClient, Client!Spec

-----------------------------------------------------------------------------
(* The promise to the caller.  A reply that reached the client was written *)
(* by the daemon, and by then the function had been run.                   *)

Delivered == /\ \A m \in Elems(s2c) : m.id # NoMsgId => answered[m.call] # 0
             /\ \A c \in Call : \A d \in data[c] : answered[d] # 0

\* A request that leaves the queue is run once, unless it is refused.
LEMMA TakeRuns ==
    ASSUME D!IInv, NEW w \in Worker, Take(w)
    PROVE  LET h == Head(queue) IN
           /\ h \in taken /\ h.call \in Call
           /\ future[h.call] = "pending" /\ executed[h.call] = 0
           /\ executed' = [executed EXCEPT ![h.call] = IF h.call \in NoFunction THEN 0 ELSE 1]
  BY SameTake, D!TakeRuns, WireAssumption, DaemonAssumption

\* No reply is on its way, or in a Future, that the daemon did not count.
LEMMA DeliveredStep == Inv /\ Delivered /\ [Next]_vars => Delivered'
<1> SUFFICES ASSUME Inv, Delivered, [Next]_vars PROVE Delivered'
  OBVIOUS
<1>1. /\ s2c \in Seq(Message) /\ data \in [Call -> SUBSET Call] /\ answered \in [Call -> Nat]
      /\ taken \subseteq Message
  BY Types DEF Inv, DaemonTypeOK, WireTypeOK, ClientTypeOK
\* A callback's reply is counted as it is written.
<1>2. ASSUME NEW m \in Unanswered, SendReply(m), UNCHANGED data PROVE Delivered'
  <2>1. m \in Message /\ m.call \in Call
    BY <1>1 DEF Unanswered, Message
  <2>2. CASE /\ s2c' = Append(s2c, m)
             /\ answered' = [answered EXCEPT ![m.call] = @ + 1]
    <3>1. Elems(s2c') = Elems(s2c) \cup {m}
      BY <1>1, <2>1, <2>2, FifoEnds
    <3>2. answered'[m.call] # 0
      BY <1>1, <2>1, <2>2
    <3>3. \A c \in Call : answered[c] # 0 => answered'[c] # 0
      BY <1>1, <2>1, <2>2
    <3>4. \A k \in Elems(s2c) : k.call \in Call
      <4>1. \A i \in 1 .. Len(s2c) : s2c[i] \in Message
        BY <1>1
      <4>2. \A i \in 1 .. Len(s2c) : s2c[i].call \in Call
        BY <4>1 DEF Message
      <4> QED  BY <4>2 DEF Elems
    <3>5. \A k \in Elems(s2c') : k.id # NoMsgId => answered'[k.call] # 0
      BY <3>1, <3>2, <3>3, <3>4 DEF Delivered
    <3>6. \A c \in Call : \A d \in data[c] : answered'[d] # 0
      BY <1>1, <3>3 DEF Delivered
    <3> QED  BY <1>2, <3>5, <3>6 DEF Delivered
  <2>3. CASE UNCHANGED <<s2c, answered>>
    BY <1>2, <2>3 DEF Delivered, Elems
  <2> QED  BY <1>2, <2>2, <2>3 DEF SendReply
<1>3. ASSUME UNCHANGED <<s2c, answered, data>> PROVE Delivered'
  BY <1>3 DEF Delivered, Elems
<1>4. CASE DaemonStep
  <2>1. UNCHANGED data
    BY <1>4 DEF DaemonStep, clientVars
  <2>2. CASE Log
    <3>1. PICK m \in InHand : m.call \in Logging /\ s2c' = Append(s2c, LogRecord(m.call))
      BY <2>2 DEF Log
    <3>2. LogRecord(m.call) \in Message /\ LogRecord(m.call).id = NoMsgId
      BY <3>1, WireAssumption DEF LogRecord, Message, NoMsgId
    <3>3. Elems(s2c') = Elems(s2c) \cup {LogRecord(m.call)}
      BY <1>1, <3>1, <3>2, FifoEnds
    <3>4. answered' = answered
      BY <2>2 DEF Log, daemonVars
    <3> QED  BY <2>1, <3>2, <3>3, <3>4 DEF Delivered
  <2>3. CASE InlineReply
    <3>1. PICK m \in cur : SendReply(m) \/ UNCHANGED <<s2c, answered>>
      BY <2>3 DEF InlineReply
    <3>2. m \in Unanswered
      BY <2>3, <3>1, InHandUnanswered DEF InlineReply, InHand, Inv
    <3> QED  BY <1>2, <1>3, <2>1, <3>1, <3>2
  <2>4. ASSUME NEW w \in Worker, WorkerReply(w) PROVE Delivered'
    <3>1. PICK m \in job[w] : SendReply(m) \/ UNCHANGED <<s2c, answered>>
      BY <2>4 DEF WorkerReply
    <3>2. m \in Unanswered
      BY <2>4, <3>1, InHandUnanswered DEF WorkerReply, InHand, Inv
    <3> QED  BY <1>2, <1>3, <2>1, <3>1, <3>2
  <2>5. ASSUME Accept \/ LoopError \/ LoopEof \/ AddCallback \/ Exit \/ ExitEscapes \/ Crash
        PROVE  Delivered'
    BY <1>3, <2>1, <2>5 DEF Accept, LoopError, LoopEof, AddCallback, Exit, ExitEscapes, Crash,
                            Gone, wireVars
  <2>6. ASSUME NEW w \in Worker, Take(w) \/ Complete(w) PROVE Delivered'
    BY <1>3, <2>1, <2>6 DEF Take, Complete, wireVars
  <2> QED
    BY <1>4, <2>2, <2>3, <2>4, <2>5, <2>6 DEF DaemonStep, DaemonNext, MainStep, WorkerStep
<1>5. CASE Death \/ UNCHANGED vars
  BY <1>3, <1>5 DEF Death, ClientDies, vars, clientVars, daemonVars, wireVars
<1>6. CASE ClientStep
  <2>1. answered' = answered
    BY <1>6 DEF ClientStep, daemonVars
  <2>2. CASE ReaderLog \/ ReaderDeliver
    <3>1. Elems(s2c) = {Head(s2c)} \cup Elems(s2c')
      BY <1>1, <2>2, FifoEnds DEF ReaderLog, ReaderDeliver
    <3>2. CASE ReaderLog
      BY <2>1, <3>1, <3>2 DEF ReaderLog, Delivered
    <3>3. CASE ReaderDeliver
      <4>1. answered[Head(s2c).call] # 0
        BY <3>1, <3>3 DEF ReaderDeliver, Delivered
      <4>2. \A c \in Call : data'[c] = {Head(s2c).call} \/ data'[c] = data[c]
        BY <3>3 DEF ReaderDeliver
      <4> QED  BY <2>1, <3>1, <4>1, <4>2 DEF Delivered
    <3> QED  BY <2>2, <3>2, <3>3
  <2>3. ASSUME ReaderStart \/ ReaderEof \/ ReaderReset \/ Close \/ Join PROVE Delivered'
    BY <1>3, <2>1, <2>3 DEF ReaderStart, ReaderEof, ReaderReset, Close, Join, clientVars, wireVars
  <2>4. ASSUME NEW c \in Call, Register(c) \/ CallerStep(c) PROVE Delivered'
    BY <1>3, <2>1, <2>4 DEF Register, CallerStep, Send, SendFails, Expire, TimedOut, Wake,
                            Finish, wireVars
  <2> QED  BY <1>6, <2>2, <2>3, <2>4 DEF ClientStep, Request, ReaderStep
<1> QED  BY <1>4, <1>5, <1>6 DEF Next
\* A call that has its reply was sent, and its function was run or refused.
LEMMA ReplyIsLate ==
    ASSUME Inv, Delivered, NEW c \in Call,
           pc[c] = "reply" \/ (pc[c] = "notified" /\ ~error[c])
    PROVE  /\ executed[c] = 1 \/ c \in NoFunction
           /\ c \notin Unserializable
           /\ future[c] # "pending"
<1>1. data[c] = {c}
  BY DEF Inv, P!IInv, P!OwnReply, P!Mail
<1>2. answered[c] # 0
  BY <1>1 DEF Delivered
<1>3. future[c] # "pending"
  BY <1>2 DEF Inv, D!IInv, D!OneCallback
<1>4. c \in Sent
  BY <1>3 DEF Inv, D!IInv, D!Arrival, Sent, Written
<1> QED  BY <1>3, <1>4 DEF Inv, D!Kept, D!Ran, Started

\* The caller's view of a step of its thread.
LEMMA StatusOfStep ==
    ASSUME ClientTypeOK, NEW c \in Call, NEW o \in {"idle"} \cup InCall \cup Outcome,
           pc' = [pc EXCEPT ![c] = o]
    PROVE  /\ \A d \in Call : d # c => CallStatus(d)' = CallStatus(d)
           /\ o \in InCall => CallStatus(c)' = "open"
           /\ o = "reply" => CallStatus(c)' = "returned"
           /\ o \in Outcome \ {"reply"} => CallStatus(c)' = "failed"
<1>1. pc'[c] = o /\ \A d \in Call : d # c => pc'[d] = pc[d]
  BY DEF ClientTypeOK
<1> QED  BY <1>1 DEF CallStatus, InCall, Outcome

\* Every step of the pair is one of the promise, or out of the caller's sight.
LEMMA KeepsPromise ==
    Inv /\ Delivered /\ [Next]_vars => [Promise!Next]_(Promise!vars)
<1> SUFFICES ASSUME Inv, Delivered, [Next]_vars
             PROVE  [Promise!Next]_(Promise!vars)
  OBVIOUS
<1>1. ClientTypeOK /\ DaemonTypeOK
  BY Types DEF Inv
<1>2. ASSUME \A c \in Call : CallStatus(c)' = CallStatus(c), executed' = executed
      PROVE  UNCHANGED Promise!vars
  BY <1>2 DEF Promise!vars
<1>3. ASSUME UNCHANGED <<pc, executed>> PROVE UNCHANGED Promise!vars
  BY <1>2, <1>3 DEF CallStatus
<1>4. ASSUME NEW c \in Call, Register(c), executed' = executed PROVE Promise!Begin(c)
  <2>1. CallStatus(c) = "idle" /\ pc' = [pc EXCEPT ![c] = "sending"]
    BY <1>4 DEF Register, CallStatus, InCall
  <2>2. CallStatus(c)' = "open" /\ \A d \in Call : d # c => CallStatus(d)' = CallStatus(d)
    BY <1>1, <2>1, StatusOfStep DEF InCall
  <2> QED  BY <1>4, <2>1, <2>2 DEF Promise!Begin
<1>5. ASSUME NEW c \in Call, Send(c) \/ Expire(c), executed' = executed
      PROVE  UNCHANGED Promise!vars
  <2>1. /\ CallStatus(c) = "open"
        /\ pc' = [pc EXCEPT ![c] = "waiting"] \/ pc' = [pc EXCEPT ![c] = "expired"]
    BY <1>5 DEF Send, Expire, CallStatus, InCall
  <2>2. CallStatus(c)' = "open" /\ \A d \in Call : d # c => CallStatus(d)' = CallStatus(d)
    BY <1>1, <2>1, StatusOfStep DEF InCall
  <2> QED  BY <1>2, <1>5, <2>1, <2>2
<1>6. ASSUME NEW c \in Call, SendFails(c) \/ TimedOut(c) \/ (Wake(c) /\ error[c]),
             executed' = executed
      PROVE  Promise!Fail(c)
  <2>1. PICK o \in Outcome \ {"reply"} : pc' = [pc EXCEPT ![c] = o]
    BY <1>6 DEF SendFails, TimedOut, Wake, Finish, Outcome
  <2>2. CallStatus(c) = "open"
    BY <1>6 DEF SendFails, TimedOut, Wake, CallStatus, InCall
  <2>3. CallStatus(c)' = "failed" /\ \A d \in Call : d # c => CallStatus(d)' = CallStatus(d)
    BY <1>1, <2>1, StatusOfStep
  <2> QED  BY <1>6, <2>2, <2>3 DEF Promise!Fail
<1>7. ASSUME NEW c \in Call, Wake(c), ~error[c], executed' = executed
      PROVE  Promise!Return(c)
  <2>1. pc' = [pc EXCEPT ![c] = "reply"] /\ pc[c] = "notified"
    BY <1>7 DEF Wake, Finish
  <2>2. CallStatus(c) = "open"
    BY <2>1 DEF CallStatus, InCall
  <2>3. /\ CallStatus(c)' = "returned"
        /\ \A d \in Call : d # c => CallStatus(d)' = CallStatus(d)
    BY <1>1, <2>1, StatusOfStep DEF Outcome
  <2>4. (executed[c] = 1 \/ c \in NoFunction) /\ c \notin Unserializable
    BY <1>7, <2>1, ReplyIsLate
  <2> QED  BY <1>7, <2>2, <2>3, <2>4 DEF Promise!Return
<1>8. CASE ClientStep
  <2>1. executed' = executed
    BY <1>8 DEF ClientStep, daemonVars
  <2>2. CASE ReaderStep
    <3>1. pc' = pc \/ \E calls : pc' = Notified(calls)
      BY <2>2 DEF ReaderStep, ReaderStart, ReaderLog, ReaderDeliver, ReaderEof, ReaderReset
    <3>2. \A c \in Call : CallStatus(c)' = CallStatus(c)
      BY <3>1 DEF Notified, CallStatus, InCall
    <3> QED  BY <1>2, <2>1, <3>2
  <2>3. CASE Close \/ Join
    BY <1>3, <2>1, <2>3 DEF Close, Join, clientVars
  <2>4. ASSUME NEW c \in Call, Request(c) \/ CallerStep(c)
        PROVE  [Promise!Next]_(Promise!vars)
    BY <1>4, <1>5, <1>6, <1>7, <2>1, <2>4 DEF Request, CallerStep, Promise!Next
  <2> QED  BY <1>8, <2>2, <2>3, <2>4 DEF ClientStep
<1>9. CASE DaemonStep
  <2>1. pc' = pc
    BY <1>9 DEF DaemonStep, clientVars
  <2>2. ASSUME NEW w \in Worker, Take(w) PROVE [Promise!Next]_(Promise!vars)
    <3> DEFINE c == Head(queue).call
    <3>1. /\ Head(queue) \in taken /\ c \in Call
          /\ future[c] = "pending" /\ executed[c] = 0
          /\ executed' = [executed EXCEPT ![c] = IF c \in NoFunction THEN 0 ELSE 1]
      BY <2>2, TakeRuns DEF Inv
    <3> HIDE DEF c
    <3>2. CASE c \in NoFunction
      <4>1. executed' = executed
        BY <1>1, <3>1, <3>2 DEF DaemonTypeOK
      <4> QED  BY <1>3, <2>1, <4>1
    <3>3. CASE c \notin NoFunction
      <4>1. c \in Sent
        BY <3>1 DEF Sent, Written, c
      <4>2. pc[c] \notin {"idle", "reply"} /\ c \notin Unserializable
        BY <3>1, <4>1, ReplyIsLate DEF Inv, Started
      <4>3. CallStatus(c) \in {"open", "failed"}
        BY <4>2 DEF CallStatus
      <4>4. \A d \in Call : CallStatus(d)' = CallStatus(d)
        BY <2>1 DEF CallStatus
      <4>5. Promise!Run(c)
        BY <3>1, <3>3, <4>2, <4>3, <4>4 DEF Promise!Run
      <4> QED  BY <3>1, <4>5 DEF Promise!Next
    <3> QED  BY <3>2, <3>3
  <2>3. ASSUME executed' = executed PROVE [Promise!Next]_(Promise!vars)
    BY <1>3, <2>1, <2>3
  <2>4. CASE MainStep \/ ExitEscapes \/ Crash \/ Log
    BY <2>3, <2>4 DEF MainStep, Accept, LoopError, LoopEof, AddCallback, InlineReply, Exit,
                      ExitEscapes, Crash, Gone, Log, daemonVars
  <2>5. ASSUME NEW w \in Worker, Complete(w) \/ WorkerReply(w)
        PROVE  [Promise!Next]_(Promise!vars)
    BY <2>3, <2>5 DEF Complete, WorkerReply
  <2> QED  BY <1>9, <2>2, <2>4, <2>5 DEF DaemonStep, DaemonNext, WorkerStep
<1>10. CASE Death \/ UNCHANGED vars
  BY <1>3, <1>10 DEF Death, ClientDies, vars, clientVars, daemonVars
<1> QED  BY <1>8, <1>9, <1>10 DEF Next

(***************************************************************************)
(* A function runs at most once, and a call returns only after it ran, or  *)
(* was refused; never for a request that could not be written.  A reply    *)
(* that nobody waits for changes nothing.                                  *)
(***************************************************************************)
THEOREM PromiseKept == Spec => ImplementsRemoteCall
<1>1. Init => Delivered /\ Promise!Init
  <2> SUFFICES ASSUME Init PROVE Delivered /\ Promise!Init
    OBVIOUS
  <2>1. Delivered
    BY DEF Init, WireInit, ClientInit, Delivered, Elems
  <2>2. Promise!Init
    BY DEF Init, DaemonInit, ClientInit, Promise!Init, CallStatus, InCall
  <2> QED  BY <2>1, <2>2
<1> QED
  BY <1>1, DeliveredStep, KeepsPromise, Invariance, PTL
     DEF Spec, ImplementsRemoteCall, Promise!Spec

(***************************************************************************)
(* So the pair has what the halves were shown to have: every call returns  *)
(* its own reply, after its log record, and leaves no entry behind; nobody *)
(* waits for nothing or after EOF; no request is served twice, forgotten,  *)
(* or left lying by a daemon at rest.                                      *)
(***************************************************************************)
THEOREM PairIsSafe ==
    Spec => [](/\ Peer!OwnReply /\ Peer!OutstandingExact /\ Peer!NoneStranded
               /\ Peer!NeverForgotten /\ Peer!LoggedBeforeReply
               /\ D!ServedOnce /\ D!AnswerOwed /\ D!IdleIsDone)
<1>1. Inv => /\ Peer!OwnReply /\ Peer!OutstandingExact /\ Peer!NoneStranded
             /\ D!ServedOnce /\ D!AnswerOwed
  BY DEF Inv, P!IInv, D!IInv, P!OwnReply, P!OutstandingExact, P!NoneStranded, P!InCall,
         Peer!OwnReply, Peer!OutstandingExact, Peer!NoneStranded, Peer!InCall
<1>2. Inv => Peer!NeverForgotten
  BY DEF Inv, P!NeverForgotten, Peer!NeverForgotten, P!NoMsgId, Peer!NoMsgId
<1>3. Inv => Peer!LoggedBeforeReply
  <2> SUFFICES ASSUME Inv, NEW c \in emitted, pc[c] = "reply", c \notin logged
               PROVE  FALSE
    BY DEF Peer!LoggedBeforeReply
  <2>1. data[c] = {}
    BY DEF Inv, P!LogAhead
  <2>2. data[c] = {c}
    BY Types DEF Inv, P!IInv, P!OwnReply, WireTypeOK
  <2> QED  BY <2>1, <2>2
<1>4. Inv => D!IdleIsDone
  BY D!IdleMeansDone, WireAssumption, DaemonAssumption DEF Inv, D!IdleInv
<1> QED  BY <1>1, <1>2, <1>3, <1>4, Invariance, PTL

(***************************************************************************)
(* The helper's daemon answers all that it has read before it exits, when  *)
(* its client is ClientChannel: what AnyClientProofs shows for any client. *)
(***************************************************************************)
THEOREM PairDrains == Spec => Client!DrainsBeforeExit
<1>1. Init => D!Init
  BY InitInv
<1>2. Inv /\ [Next]_vars => [D!Next]_(D!vars)
  BY Acts
<1>3. D!Spec => D!DrainsBeforeExit
  BY D!AnswersBeforeExit, WireAssumption, DaemonAssumption
<1>4. Spec => D!Spec
  BY <1>1, <1>2, Invariance, PTL DEF Spec, D!Spec
<1> DEFINE Drained == D!Exit /\ Method = "ROOTWRAP" /\ client = "alive" =>
              \/ \A w \in Worker : wpc[w] = "dead"
              \/ \A m \in taken : answered[m.call] = 1 \/ future[m.call] = "fatal"
           Drains == Client!Exit /\ Method = "ROOTWRAP" /\ client = "alive" =>
              \/ \A w \in Worker : wpc[w] = "dead"
              \/ \A m \in taken : answered[m.call] = 1 \/ future[m.call] = "fatal"
<1>5. [Drained]_(D!vars) => [Drains]_(Client!vars)
  <2>1. D!Exit <=> Client!Exit
    BY DEF D!Exit, D!Gone, D!PeerEnds, D!PoolJoined, Client!Exit, Client!Gone,
           Client!PeerEnds, Client!PoolJoined
  <2>2. UNCHANGED D!vars => UNCHANGED Client!vars
    BY DEF D!vars, D!daemonVars, D!wireVars, Client!vars, Client!daemonVars, Client!wireVars
  <2> QED  BY <2>1, <2>2
<1> QED  BY <1>3, <1>4, <1>5, PTL DEF D!DrainsBeforeExit, Client!DrainsBeforeExit
=============================================================================
