--------------------------- MODULE AnyClientProofs ---------------------------
(***************************************************************************)
(* Proofs about the daemon for any client, any calls and any pool: where a *)
(* request and the duty to answer it are, from the socket to the reply.    *)
(***************************************************************************)
EXTENDS AnyClient, SequenceTheorems, TLAPS

Elems(q) == {q[i] : i \in 1 .. Len(q)}
Distinct(q) == \A i, j \in 1 .. Len(q) : q[i].call = q[j].call => i = j

\* The request is in this thread's hands.
Held(w) == wpc[w] \in {"running", "callback"}

\* A call is requested once and read once.
Arrival == /\ Distinct(c2s)
           /\ \A m \in Elems(c2s) : /\ m \in sent
                                    /\ \A k \in taken : k.call # m.call
           /\ \A m \in taken : m \in sent
           /\ \A k, m \in taken : k.call = m.call => k = m
           /\ \A c \in Call : (\A m \in taken : m.call # c) =>
                 c \notin hooked /\ future[c] = "pending" /\ executed[c] = 0

\* It is then in the pool's queue or with one of its threads, at most once.
InPool == /\ Distinct(queue)
          /\ \A m \in Elems(queue) :
                /\ m \in taken /\ future[m.call] = "pending" /\ executed[m.call] = 0
                /\ \A w \in Worker : Held(w) => m \notin job[w]
          /\ \A w \in Worker : Held(w) => \E m \in taken : job[w] = {m}
          /\ \A v, w \in Worker : Held(v) /\ Held(w) /\ job[v] = job[w] => v = w
          /\ \A w \in Worker : wpc[w] = "running" =>
                \A m \in job[w] : future[m.call] = "pending"

\* Main thread or pool thread: one of them is to answer it.
OneCallback ==
    /\ cur \subseteq taken
    /\ main = "reading" => cur = {}
    /\ main \in {"submitted", "inline"} => \E m \in taken : cur = {m}
    /\ main \in {"submitted", "inline"} =>
          \A m \in cur : m.call \notin hooked /\ answered[m.call] = 0
    /\ main = "inline" => \A m \in cur : future[m.call] # "pending"
    /\ \A w \in Worker : wpc[w] = "callback" =>
          \A m \in job[w] : /\ m.call \in hooked /\ future[m.call] # "pending"
                            /\ answered[m.call] = 0
    /\ \A c \in Call : future[c] = "pending" => answered[c] = 0
    /\ \A m \in Elems(queue) : m.call \in hooked \/ m \in cur
    /\ \A w \in Worker : wpc[w] = "running" =>
          \A m \in job[w] : m.call \in hooked \/ m \in cur

IInv == TypeOK /\ Arrival /\ InPool /\ OneCallback /\ ServedOnce /\ AnswerOwed

-----------------------------------------------------------------------------
\* What is left of a FIFO when its head is taken.
LEMMA TakeHead ==
    ASSUME NEW q \in Seq(Message), q # <<>>, Distinct(q)
    PROVE  /\ Tail(q) \in Seq(Message) /\ Len(Tail(q)) = Len(q) - 1
           /\ Distinct(Tail(q))
           /\ Head(q) \in Message /\ Head(q) \in Elems(q)
           /\ Elems(Tail(q)) \subseteq Elems(q)
           /\ \A m \in Elems(Tail(q)) : m.call # Head(q).call
<1>1. /\ Tail(q) \in Seq(Message) /\ Len(Tail(q)) = Len(q) - 1
      /\ Len(q) \in Nat /\ Len(q) >= 1
      /\ \A i \in 1 .. (Len(q) - 1) : Tail(q)[i] = q[i + 1]
      /\ Head(q) = q[1] /\ Head(q) \in Message
  BY HeadTailProperties
<1>2. ASSUME NEW i \in 1 .. Len(Tail(q))
      PROVE  /\ i + 1 \in 1 .. Len(q) /\ Tail(q)[i] = q[i + 1]
             /\ Tail(q)[i] \in Elems(q) /\ Tail(q)[i].call # Head(q).call
  BY <1>1, <1>2 DEF Elems, Distinct
<1>3. Distinct(Tail(q))
  BY <1>1, <1>2 DEF Distinct
<1>4. Head(q) \in Elems(q)
  BY <1>1 DEF Elems
<1> QED  BY <1>1, <1>2, <1>3, <1>4 DEF Elems

\* What a FIFO holds when a message has been appended.
LEMMA PutLast ==
    ASSUME NEW q \in Seq(Message), NEW m \in Message, Distinct(q),
           \A k \in Elems(q) : k.call # m.call
    PROVE  /\ Append(q, m) \in Seq(Message) /\ Len(Append(q, m)) = Len(q) + 1
           /\ Distinct(Append(q, m))
           /\ Elems(Append(q, m)) = Elems(q) \cup {m}
<1>1. /\ Append(q, m) \in Seq(Message) /\ Len(Append(q, m)) = Len(q) + 1
      /\ Len(q) \in Nat
      /\ Append(q, m)[Len(q) + 1] = m
      /\ \A i \in 1 .. Len(q) : Append(q, m)[i] = q[i]
  BY AppendProperties
<1>2. \A i \in 1 .. Len(q) : q[i].call # m.call
  BY DEF Elems
<1>3. Distinct(Append(q, m))
  BY <1>1, <1>2 DEF Distinct
<1>4. Elems(Append(q, m)) = Elems(q) \cup {m}
  BY <1>1 DEF Elems
<1> QED  BY <1>1, <1>3, <1>4

\* The initial state satisfies the invariant.
LEMMA InitIInv == Init => IInv
<1> SUFFICES ASSUME Init PROVE IInv
  OBVIOUS
<1> USE DEF Init, DaemonInit, WireInit
<1>1. /\ <<>> \in Seq(Message) /\ Len(<<>>) = 0 /\ Len(<<>>) <= Capacity
      /\ Elems(<<>>) = {} /\ Distinct(<<>>)
  BY WireAssumption DEF Elems, Distinct
<1>2. TypeOK
  BY <1>1 DEF TypeOK, DaemonTypeOK, WireTypeOK
<1>3. Arrival
  BY <1>1 DEF Arrival
<1>4. InPool
  BY <1>1 DEF InPool, Held
<1>5. OneCallback
  BY <1>1 DEF OneCallback
<1>6. ServedOnce /\ AnswerOwed
  BY DEF ServedOnce, AnswerOwed
<1> QED  BY <1>2, <1>3, <1>4, <1>5, <1>6 DEF IInv

-----------------------------------------------------------------------------
(* The steps that leave the requests where they are *)

books == <<cur, queue, wpc, job, future, hooked, commErr, taken, executed, answered>>

\* The main thread comes to its end, or nothing of this happens at all.
LEMMA QuietStep ==
    ASSUME IInv, UNCHANGED books, UNCHANGED c2s, UNCHANGED sent,
           main' \in {main, "ended", "escaped", "exited"}
    PROVE  Arrival' /\ InPool' /\ OneCallback' /\ ServedOnce' /\ AnswerOwed'
<1> USE DEF IInv, books
<1>1. Arrival'
  BY DEF Arrival
<1>2. InPool'
  BY DEF InPool, Held
<1>3. OneCallback'
  BY DEF OneCallback
<1>4. ServedOnce' /\ AnswerOwed'
  BY DEF ServedOnce, AnswerOwed
<1> QED  BY <1>1, <1>2, <1>3, <1>4

\* The end of the loop and of either process.
LEMMA EndStep ==
    ASSUME IInv, UNCHANGED sent,
           LoopEof \/ Exit \/ ExitEscapes \/ Crash \/ ClientDies
    PROVE  IInv'
<1>1. TypeOK'
  BY DEF IInv, TypeOK, DaemonTypeOK, WireTypeOK, LoopEof, Exit, ExitEscapes, Crash,
         ClientDies, Gone, PeerEnds, Raised, wireVars
<1>2. /\ UNCHANGED books /\ UNCHANGED c2s
      /\ main' \in {main, "ended", "escaped", "exited"}
  BY DEF LoopEof, Exit, ExitEscapes, Crash, ClientDies, Gone, Raised, books, wireVars
<1> QED  BY <1>1, <1>2, QuietStep DEF IInv

\* What either side writes or reads beside the requests.
LEMMA WireStep ==
    ASSUME IInv, (Log /\ UNCHANGED sent) \/ Collect \/ CloseWrite
    PROVE  IInv'
<1>1. UNCHANGED books /\ UNCHANGED c2s /\ UNCHANGED sent /\ UNCHANGED main /\ UNCHANGED client
  BY DEF Log, Collect, CloseWrite, books, daemonVars
<1>2. TypeOK'
  <2>1. CASE Log /\ UNCHANGED sent
    <3>1. PICK m \in InHand : /\ m.call \in Logging \ emitted
                              /\ emitted' = emitted \cup {m.call}
                              /\ s2c' = Append(s2c, LogRecord(m.call))
      BY <2>1 DEF Log
    <3>2. m.call \in Call
      BY <3>1, WireAssumption
    <3>3. LogRecord(m.call) \in Message
      BY <3>2 DEF LogRecord, Message, NoMsgId
    <3>4. s2c' \in Seq(Message) /\ Len(s2c') <= Capacity
      BY <2>1, <3>1, <3>3, WireAssumption, AppendProperties
         DEF Log, Room, IInv, TypeOK, WireTypeOK
    <3> QED
      BY <1>1, <2>1, <3>1, <3>2, <3>4
         DEF Log, IInv, TypeOK, DaemonTypeOK, WireTypeOK, books
  <2>2. CASE Collect
    <3>1. s2c' \in Seq(Message) /\ Len(s2c') <= Capacity
      BY <2>2, WireAssumption, HeadTailProperties DEF Collect, IInv, TypeOK, WireTypeOK
    <3> QED
      BY <1>1, <2>2, <3>1 DEF Collect, IInv, TypeOK, DaemonTypeOK, WireTypeOK, books
  <2>3. CASE CloseWrite
    BY <1>1, <2>3 DEF CloseWrite, IInv, TypeOK, DaemonTypeOK, WireTypeOK, books
  <2> QED  BY <2>1, <2>2, <2>3
<1> QED  BY <1>1, <1>2, QuietStep DEF IInv

-----------------------------------------------------------------------------
(* The way of a request *)

\* The client writes a request whose call has not been used.
LEMMA RequestStep ==
    ASSUME IInv, NEW m \in Message, Request(m)
    PROVE  IInv'
<1> USE DEF IInv
<1>1. /\ UNCHANGED books /\ UNCHANGED <<main, client, s2c, chan, peer, emitted>>
      /\ c2s' = Append(c2s, m) /\ sent' = sent \cup {m} /\ Room(c2s)
      /\ \A k \in sent : k.call # m.call
  BY DEF Request, daemonVars, books
<1>2. /\ \A k \in Elems(c2s) : k.call # m.call
      /\ \A k \in taken : k.call # m.call
  BY <1>1 DEF Arrival
<1>3. /\ c2s' \in Seq(Message) /\ Len(c2s') = Len(c2s) + 1
      /\ Distinct(c2s') /\ Elems(c2s') = Elems(c2s) \cup {m}
  <2>1. c2s \in Seq(Message) /\ Distinct(c2s)
    BY DEF TypeOK, WireTypeOK, Arrival
  <2> QED  BY <1>1, <1>2, <2>1, PutLast
<1>4. TypeOK'
  BY <1>1, <1>3, WireAssumption DEF TypeOK, DaemonTypeOK, WireTypeOK, Room, books
<1>5. Arrival'
  <2>1. \A k \in Elems(c2s') : k \in sent' /\ \A j \in taken' : j.call # k.call
    BY <1>1, <1>2, <1>3 DEF Arrival, books
  <2> QED  BY <1>1, <1>3, <2>1 DEF Arrival, books
<1>6. InPool'
  BY <1>1 DEF InPool, Held, books
<1>7. OneCallback'
  BY <1>1 DEF OneCallback, books
<1>8. ServedOnce' /\ AnswerOwed'
  BY <1>1 DEF ServedOnce, AnswerOwed, books
<1> QED  BY <1>4, <1>5, <1>6, <1>7, <1>8

\* The main thread reads one: what it knows of it.
LEMMA ReadOne ==
    ASSUME IInv, c2s # <<>>
    PROVE  LET h == Head(c2s) IN
           /\ h \in Message /\ Tail(c2s) \in Seq(Message) /\ Len(Tail(c2s)) <= Capacity
           /\ \A m \in taken : m.call # h.call
           /\ h.call \notin hooked /\ future[h.call] = "pending"
           /\ executed[h.call] = 0 /\ answered[h.call] = 0
           /\ h \in sent
           /\ Distinct(Tail(c2s))
           /\ \A m \in Elems(Tail(c2s)) :
                 /\ m \in sent /\ \A k \in taken \cup {h} : k.call # m.call
<1> DEFINE h == Head(c2s)
<1>1. c2s \in Seq(Message) /\ Len(c2s) <= Capacity /\ Distinct(c2s)
  BY DEF IInv, TypeOK, WireTypeOK, Arrival
<1>2. /\ Tail(c2s) \in Seq(Message) /\ Len(Tail(c2s)) = Len(c2s) - 1
      /\ Distinct(Tail(c2s))
      /\ h \in Message /\ h \in Elems(c2s)
      /\ Elems(Tail(c2s)) \subseteq Elems(c2s)
      /\ \A m \in Elems(Tail(c2s)) : m.call # h.call
  BY <1>1, TakeHead
<1>3. Len(Tail(c2s)) <= Capacity
  BY <1>1, <1>2, WireAssumption
<1>4. h \in sent /\ \A m \in taken : m.call # h.call
  BY <1>2 DEF IInv, Arrival
<1>5. h.call \in Call
  BY <1>2 DEF Message
<1>6. /\ h.call \notin hooked /\ future[h.call] = "pending"
      /\ executed[h.call] = 0 /\ answered[h.call] = 0
  BY <1>4, <1>5 DEF IInv, Arrival, OneCallback
<1>7. \A m \in Elems(Tail(c2s)) :
         /\ m \in sent /\ \A k \in taken \cup {h} : k.call # m.call
  BY <1>2 DEF IInv, Arrival
<1> QED  BY <1>2, <1>3, <1>4, <1>6, <1>7

\* It goes to the pool, and is in the main thread's hands.
LEMMA AcceptStep ==
    ASSUME IInv, Accept, UNCHANGED sent
    PROVE  IInv'
<1> DEFINE h == Head(c2s)
<1>1. /\ main = "reading" /\ c2s # <<>> /\ c2s' = Tail(c2s) /\ cur' = {h}
      /\ taken' = taken \cup {h} /\ queue' = Append(queue, h) /\ main' = "submitted"
      /\ UNCHANGED <<wpc, job, future, hooked, commErr, client, executed, answered,
                     s2c, chan, peer, emitted>>
  BY DEF Accept
<1>2. /\ h \in Message /\ Tail(c2s) \in Seq(Message) /\ Len(Tail(c2s)) <= Capacity
      /\ \A m \in taken : m.call # h.call
      /\ h.call \notin hooked /\ future[h.call] = "pending"
      /\ executed[h.call] = 0 /\ answered[h.call] = 0
      /\ h \in sent /\ Distinct(Tail(c2s))
      /\ \A m \in Elems(Tail(c2s)) :
            m \in sent /\ \A k \in taken \cup {h} : k.call # m.call
  BY <1>1, ReadOne
<1> HIDE DEF h
<1>3. cur = {} /\ h \notin taken
  BY <1>1, <1>2 DEF IInv, OneCallback
<1>4. /\ queue' \in Seq(Message) /\ Distinct(queue') /\ Elems(queue') = Elems(queue) \cup {h}
  <2>1. queue \in Seq(Message) /\ Distinct(queue)
    BY DEF IInv, TypeOK, DaemonTypeOK, InPool
  <2>2. \A k \in Elems(queue) : k.call # h.call
    BY <1>2 DEF IInv, InPool
  <2> QED  BY <1>1, <1>2, <2>1, <2>2, PutLast
<1>5. TypeOK'
  BY <1>1, <1>2, <1>4 DEF IInv, TypeOK, DaemonTypeOK, WireTypeOK
<1>6. Arrival'
  BY <1>1, <1>2 DEF IInv, Arrival
<1>7. InPool'
  <2>1. \A w \in Worker : Held(w) => h \notin job[w]
    BY <1>3 DEF IInv, InPool
  <2>2. \A m \in Elems(queue') :
           /\ m \in taken' /\ future'[m.call] = "pending" /\ executed'[m.call] = 0
           /\ \A w \in Worker : Held(w)' => m \notin job'[w]
    BY <1>1, <1>2, <1>4, <2>1 DEF IInv, InPool, Held
  <2>3. /\ \A w \in Worker : Held(w)' => \E m \in taken' : job'[w] = {m}
        /\ \A v, w \in Worker : Held(v)' /\ Held(w)' /\ job'[v] = job'[w] => v = w
        /\ \A w \in Worker : wpc'[w] = "running" =>
              \A m \in job'[w] : future'[m.call] = "pending"
    BY <1>1 DEF IInv, InPool, Held
  <2> QED  BY <1>4, <2>2, <2>3 DEF InPool
<1>8. OneCallback'
  BY <1>1, <1>2, <1>3, <1>4 DEF IInv, OneCallback
<1>9. ServedOnce' /\ AnswerOwed'
  <2>1. ServedOnce'
    BY <1>1 DEF IInv, ServedOnce
  <2>2. AnswerOwed'
    BY <1>1, <1>2, <1>3 DEF IInv, AnswerOwed
  <2> QED  BY <2>1, <2>2
<1> QED  BY <1>5, <1>6, <1>7, <1>8, <1>9 DEF IInv

\* Or it is dropped, because a callback met a write error.
LEMMA LoopErrorStep ==
    ASSUME IInv, LoopError, UNCHANGED sent
    PROVE  IInv'
<1> DEFINE h == Head(c2s)
<1>1. /\ main = "reading" /\ c2s # <<>> /\ c2s' = Tail(c2s) /\ taken' = taken \cup {h}
      /\ main' \in {"ended", "escaped"}
      /\ UNCHANGED <<cur, queue, wpc, job, future, hooked, commErr, client, executed,
                     answered, s2c, chan, peer, emitted>>
  BY DEF LoopError, Raised
<1>2. /\ h \in Message /\ Tail(c2s) \in Seq(Message) /\ Len(Tail(c2s)) <= Capacity
      /\ \A m \in taken : m.call # h.call
      /\ future[h.call] = "pending" /\ h \in sent /\ Distinct(Tail(c2s))
      /\ \A m \in Elems(Tail(c2s)) :
            m \in sent /\ \A k \in taken \cup {h} : k.call # m.call
  BY <1>1, ReadOne
<1> HIDE DEF h
<1>3. TypeOK'
  BY <1>1, <1>2 DEF IInv, TypeOK, DaemonTypeOK, WireTypeOK
<1>4. Arrival'
  BY <1>1, <1>2 DEF IInv, Arrival
<1>5. InPool'
  BY <1>1 DEF IInv, InPool, Held
<1>6. OneCallback'
  BY <1>1 DEF IInv, OneCallback
<1>7. ServedOnce' /\ AnswerOwed'
  BY <1>1, <1>2 DEF IInv, ServedOnce, AnswerOwed
<1> QED  BY <1>3, <1>4, <1>5, <1>6, <1>7 DEF IInv

\* The callback is registered, or the main thread will run it.
LEMMA AddCallbackStep ==
    ASSUME IInv, AddCallback, UNCHANGED sent
    PROVE  IInv'
<1>1. PICK m \in cur : IF Finished(m)
                       THEN main' = "inline" /\ UNCHANGED <<hooked, cur>>
                       ELSE /\ hooked' = hooked \cup {m.call}
                            /\ cur' = {} /\ main' = "reading"
  BY DEF AddCallback
<1>2. /\ main = "submitted"
      /\ UNCHANGED <<queue, wpc, job, future, commErr, client, taken, executed,
                     answered, wireVars>>
  BY DEF AddCallback
<1>3. /\ m \in taken /\ m \in Message /\ m.call \in Call /\ cur = {m}
      /\ m.call \notin hooked /\ answered[m.call] = 0
  <2>1. m \in Message
    BY DEF IInv, TypeOK, DaemonTypeOK
  <2> QED  BY <1>2, <2>1 DEF IInv, OneCallback, Message
<1>4. TypeOK'
  BY <1>1, <1>2, <1>3 DEF IInv, TypeOK, DaemonTypeOK, WireTypeOK, wireVars
<1>5. Arrival'
  BY <1>1, <1>2, <1>3 DEF IInv, Arrival, wireVars
<1>6. InPool'
  BY <1>2 DEF IInv, InPool, Held
<1>7. OneCallback'
  <2>1. CASE Finished(m)
    BY <1>1, <1>2, <1>3, <2>1 DEF IInv, OneCallback, Finished
  <2>2. CASE ~Finished(m)
    BY <1>1, <1>2, <1>3, <2>2 DEF IInv, OneCallback, Finished
  <2> QED  BY <2>1, <2>2
<1>8. ServedOnce' /\ AnswerOwed'
  <2>1. ServedOnce'
    BY <1>2 DEF IInv, ServedOnce
  <2>2. AnswerOwed'
    BY <1>1, <1>2, <1>3 DEF IInv, AnswerOwed, Finished
  <2> QED  BY <2>1, <2>2
<1> QED  BY <1>4, <1>5, <1>6, <1>7, <1>8 DEF IInv

-----------------------------------------------------------------------------
(* The pool *)

\* A pool thread takes the next request and enters its function.
LEMMA TakeStep ==
    ASSUME IInv, NEW w \in Worker, Take(w), UNCHANGED sent
    PROVE  IInv'
<1> DEFINE h == Head(queue)
<1>1. /\ wpc[w] = "idle" /\ queue # <<>> /\ job' = [job EXCEPT ![w] = {h}]
      /\ wpc' = [wpc EXCEPT ![w] = "running"] /\ queue' = Tail(queue)
      /\ executed' = [executed EXCEPT ![h.call] =
                         IF h.call \in NoFunction THEN @ ELSE @ + 1]
      /\ UNCHANGED <<main, cur, future, hooked, commErr, client, taken, answered, wireVars>>
  BY DEF Take
<1>2. /\ Tail(queue) \in Seq(Message) /\ Distinct(Tail(queue))
      /\ h \in Message /\ h \in Elems(queue) /\ Elems(Tail(queue)) \subseteq Elems(queue)
      /\ \A m \in Elems(Tail(queue)) : m.call # h.call
  <2>1. queue \in Seq(Message) /\ Distinct(queue)
    BY DEF IInv, TypeOK, DaemonTypeOK, InPool
  <2> QED  BY <1>1, <2>1, TakeHead
<1> HIDE DEF h
<1>3. /\ h \in taken /\ h.call \in Call /\ future[h.call] = "pending"
      /\ executed[h.call] = 0 /\ (h.call \in hooked \/ h \in cur)
      /\ \A v \in Worker : Held(v) => h \notin job[v]
  BY <1>2 DEF IInv, InPool, OneCallback, Message
<1>4. /\ job'[w] = {h} /\ wpc'[w] = "running"
      /\ \A v \in Worker \ {w} : job'[v] = job[v] /\ wpc'[v] = wpc[v]
  BY <1>1 DEF IInv, TypeOK, DaemonTypeOK
<1>5. /\ executed' \in [Call -> Nat] /\ executed'[h.call] <= 1
      /\ \A c \in Call : c # h.call => executed'[c] = executed[c]
  BY <1>1, <1>3 DEF IInv, TypeOK, DaemonTypeOK
<1>6. TypeOK'
  BY <1>1, <1>2, <1>5 DEF IInv, TypeOK, DaemonTypeOK, WireTypeOK, wireVars
<1>7. Arrival'
  BY <1>1, <1>3, <1>5 DEF IInv, Arrival, wireVars
<1>8. InPool'
  <2>1. \A m \in Elems(queue') :
           /\ m \in taken' /\ future'[m.call] = "pending" /\ executed'[m.call] = 0
           /\ \A v \in Worker : Held(v)' => m \notin job'[v]
    <3> SUFFICES ASSUME NEW m \in Elems(queue')
                 PROVE  /\ m \in taken' /\ future'[m.call] = "pending"
                        /\ executed'[m.call] = 0
                        /\ \A v \in Worker : Held(v)' => m \notin job'[v]
      OBVIOUS
    <3>1. m \in Elems(queue) /\ m.call # h.call
      BY <1>1, <1>2
    <3>2. m \in Message /\ m.call \in Call
      BY <3>1 DEF IInv, InPool, TypeOK, DaemonTypeOK, Message
    <3>3. /\ m \in taken /\ future[m.call] = "pending" /\ executed[m.call] = 0
          /\ \A v \in Worker : Held(v) => m \notin job[v]
      BY <3>1 DEF IInv, InPool
    <3> QED  BY <1>1, <1>4, <1>5, <3>1, <3>2, <3>3 DEF Held
  <2>2. \A v \in Worker : Held(v)' => \E m \in taken' : job'[v] = {m}
    BY <1>1, <1>3, <1>4 DEF IInv, InPool, Held
  <2>3. \A u, v \in Worker : Held(u)' /\ Held(v)' /\ job'[u] = job'[v] => u = v
    BY <1>3, <1>4 DEF IInv, InPool, Held
  <2>4. \A v \in Worker : wpc'[v] = "running" =>
           \A m \in job'[v] : future'[m.call] = "pending"
    BY <1>1, <1>3, <1>4 DEF IInv, InPool
  <2> QED  BY <1>1, <1>2, <2>1, <2>2, <2>3, <2>4 DEF InPool
<1>9. OneCallback'
  BY <1>1, <1>2, <1>3, <1>4 DEF IInv, OneCallback
<1>10. ServedOnce' /\ AnswerOwed'
  <2>1. ServedOnce'
    BY <1>1, <1>5 DEF IInv, ServedOnce
  <2>2. AnswerOwed'
    BY <1>1, <1>4 DEF IInv, AnswerOwed
  <2> QED  BY <2>1, <2>2
<1> QED  BY <1>6, <1>7, <1>8, <1>9, <1>10 DEF IInv

\* A function returns or raises: with the callback registered, this thread runs
\* it; without, the main thread has the request and will find it finished.
LEMMA CompleteStep ==
    ASSUME IInv, NEW w \in Worker, Complete(w), UNCHANGED sent
    PROVE  IInv'
<1>1. /\ wpc[w] = "running"
      /\ UNCHANGED <<main, cur, queue, hooked, commErr, client, taken, executed,
                     answered, wireVars>>
  BY DEF Complete
<1>2. PICK m \in job[w] :
         /\ future' = [future EXCEPT ![m.call] = IF m.call \in Fatal THEN "fatal" ELSE "done"]
         /\ IF Hooked(m)
            THEN wpc' = [wpc EXCEPT ![w] = "callback"] /\ UNCHANGED job
            ELSE /\ wpc' = [wpc EXCEPT ![w] = "idle"]
                 /\ job' = [job EXCEPT ![w] = {}]
  BY DEF Complete
<1>3. /\ job[w] = {m} /\ m \in taken /\ m \in Message /\ m.call \in Call
      /\ future[m.call] = "pending" /\ answered[m.call] = 0
      /\ (m.call \in hooked \/ m \in cur)
  <2>1. m \in Message /\ m.call \in Call
    BY DEF IInv, TypeOK, DaemonTypeOK, Message
  <2> QED  BY <1>1, <1>2, <2>1 DEF IInv, InPool, OneCallback, Held
<1>4. /\ future' \in [Call -> {"pending", "done", "fatal"}]
      /\ future'[m.call] # "pending"
      /\ \A c \in Call : c # m.call => future'[c] = future[c]
  BY <1>2, <1>3 DEF IInv, TypeOK, DaemonTypeOK
<1>5. /\ \A v \in Worker \ {w} : job'[v] = job[v] /\ wpc'[v] = wpc[v]
      /\ \/ wpc'[w] = "callback" /\ job'[w] = {m} /\ m.call \in hooked
         \/ wpc'[w] = "idle" /\ job'[w] = {} /\ m.call \notin hooked
      /\ wpc' \in [Worker -> {"idle", "running", "callback", "dead"}]
      /\ job' \in [Worker -> SUBSET Message]
  BY <1>2, <1>3 DEF IInv, TypeOK, DaemonTypeOK, Hooked
\* The others have other calls.
<1>6. \A k \in taken : k.call = m.call => k = m
  BY <1>3 DEF IInv, Arrival
<1>7. \A v \in Worker \ {w} : Held(v) => \A k \in job[v] : k \in taken /\ k.call # m.call
  <2> SUFFICES ASSUME NEW v \in Worker \ {w}, Held(v), NEW k \in job[v]
               PROVE  k \in taken /\ k.call # m.call
    OBVIOUS
  <2>1. k \in taken /\ job[v] = {k}
    BY DEF IInv, InPool
  <2>2. Held(w) /\ job[w] = {m}
    BY <1>1, <1>3 DEF Held
  <2>3. k # m
    BY <2>1, <2>2 DEF IInv, InPool
  <2> QED  BY <1>6, <2>1, <2>3
<1>8. \A k \in Elems(queue) : k \in taken /\ k.call # m.call
  <2> SUFFICES ASSUME NEW k \in Elems(queue) PROVE k \in taken /\ k.call # m.call
    OBVIOUS
  <2>1. Held(w)
    BY <1>1 DEF Held
  <2>2. k \in taken /\ k \notin job[w]
    BY <2>1 DEF IInv, InPool
  <2>3. k # m
    BY <1>3, <2>2
  <2> QED  BY <1>6, <2>2, <2>3
<1>9. TypeOK'
  BY <1>1, <1>4, <1>5 DEF IInv, TypeOK, DaemonTypeOK, WireTypeOK, wireVars
<1>10. Arrival'
  BY <1>1, <1>3, <1>4 DEF IInv, Arrival, wireVars
<1>11. taken \subseteq Message
  BY DEF IInv, TypeOK, DaemonTypeOK
<1>12. InPool'
  <2>1. \A k \in Elems(queue') :
           /\ k \in taken' /\ future'[k.call] = "pending" /\ executed'[k.call] = 0
           /\ \A v \in Worker : Held(v)' => k \notin job'[v]
    <3> SUFFICES ASSUME NEW k \in Elems(queue)
                 PROVE  /\ k \in taken /\ future'[k.call] = "pending"
                        /\ executed[k.call] = 0
                        /\ \A v \in Worker : Held(v)' => k \notin job'[v]
      BY <1>1
    <3>1. /\ k \in taken /\ k.call # m.call /\ k.call \in Call
          /\ future[k.call] = "pending" /\ executed[k.call] = 0
          /\ \A v \in Worker : Held(v) => k \notin job[v]
      BY <1>8, <1>11 DEF IInv, InPool, Message
    <3> QED  BY <1>4, <1>5, <3>1 DEF Held
  <2>2. \A v \in Worker : Held(v)' => \E k \in taken' : job'[v] = {k}
    BY <1>1, <1>3, <1>5 DEF IInv, InPool, Held
  <2>3. \A u, v \in Worker : Held(u)' /\ Held(v)' /\ job'[u] = job'[v] => u = v
    <3>1. \A v \in Worker : Held(v)' => Held(v) /\ job'[v] = job[v]
      BY <1>1, <1>3, <1>5 DEF Held
    <3> QED  BY <3>1 DEF IInv, InPool
  <2>4. \A v \in Worker : wpc'[v] = "running" =>
           \A k \in job'[v] : future'[k.call] = "pending"
    <3> SUFFICES ASSUME NEW v \in Worker, wpc'[v] = "running", NEW k \in job'[v]
                 PROVE  future'[k.call] = "pending"
      OBVIOUS
    <3>1. v # w /\ wpc[v] = "running" /\ k \in job[v]
      BY <1>5
    <3>2. k.call \in Call /\ k.call # m.call /\ future[k.call] = "pending"
      BY <1>7, <1>11, <3>1 DEF IInv, InPool, Held, Message
    <3> QED  BY <1>4, <3>2
  <2> QED  BY <1>1, <2>1, <2>2, <2>3, <2>4 DEF IInv, InPool
<1>13. OneCallback'
  <2>1. \A v \in Worker : wpc'[v] = "callback" =>
           \A k \in job'[v] : /\ k.call \in hooked' /\ future'[k.call] # "pending"
                              /\ answered'[k.call] = 0
    <3> SUFFICES ASSUME NEW v \in Worker, wpc'[v] = "callback", NEW k \in job'[v]
                 PROVE  /\ k.call \in hooked /\ future'[k.call] # "pending"
                        /\ answered[k.call] = 0
      BY <1>1
    <3>1. CASE v = w
      BY <1>3, <1>4, <1>5, <3>1
    <3>2. CASE v # w
      <4>1. wpc[v] = "callback" /\ k \in job[v]
        BY <1>5, <3>2
      <4>2. k.call \in Call /\ k.call # m.call
        BY <1>7, <1>11, <3>2, <4>1 DEF Held, Message
      <4> QED  BY <1>4, <4>1, <4>2 DEF IInv, OneCallback
    <3> QED  BY <3>1, <3>2
  <2>2. main' = "inline" => \A k \in cur' : future'[k.call] # "pending"
    <3> SUFFICES ASSUME main = "inline", NEW k \in cur PROVE future'[k.call] # "pending"
      BY <1>1
    <3>1. k \in taken /\ future[k.call] # "pending" /\ k.call \in Call
      BY <1>11 DEF IInv, OneCallback, Message
    <3> QED  BY <1>4, <3>1
  <2>3. \A c \in Call : future'[c] = "pending" => answered'[c] = 0
    BY <1>1, <1>4 DEF IInv, OneCallback
  <2>4. \A v \in Worker : wpc'[v] = "running" =>
           \A k \in job'[v] : k.call \in hooked' \/ k \in cur'
    BY <1>1, <1>5 DEF IInv, OneCallback
  <2> QED  BY <1>1, <2>1, <2>2, <2>3, <2>4 DEF IInv, OneCallback
<1>14. ServedOnce'
  BY <1>1 DEF IInv, ServedOnce
<1>15. AnswerOwed'
  <2> SUFFICES ASSUME NEW k \in taken, future'[k.call] = "done", answered[k.call] = 0
               PROVE  \/ k \in cur
                      \/ \E v \in Worker : wpc'[v] = "callback" /\ k \in job'[v]
                      \/ commErr # "none"
    BY <1>1 DEF AnswerOwed
  <2>1. CASE k = m
    BY <1>3, <1>5, <2>1
  <2>2. CASE k # m
    <3>1. k.call \in Call /\ k.call # m.call
      BY <1>6, <1>11, <2>2 DEF Message
    <3>2. \/ k \in cur
          \/ \E v \in Worker : wpc[v] = "callback" /\ k \in job[v]
          \/ commErr # "none"
      BY <1>4, <3>1 DEF IInv, AnswerOwed
    <3> QED  BY <1>1, <1>5, <3>2
  <2> QED  BY <2>1, <2>2
<1> QED  BY <1>9, <1>10, <1>12, <1>13, <1>14, <1>15 DEF IInv

-----------------------------------------------------------------------------
(* The reply *)

\* Whoever writes the reply: it is the first one to its call, or a write error
\* is noted.
LEMMA ReplyTypes ==
    ASSUME IInv, NEW m \in taken, SendReply(m), answered[m.call] = 0
    PROVE  /\ m \in Message /\ m.call \in Call
           /\ s2c' \in Seq(Message) /\ Len(s2c') <= Capacity
           /\ answered' \in [Call -> Nat] /\ answered'[m.call] <= 1
           /\ \A c \in Call : c # m.call => answered'[c] = answered[c]
           /\ commErr' \in {"none", "EPIPE", "other"}
           /\ answered'[m.call] = 1 \/ commErr' # "none"
           /\ commErr # "none" => commErr' # "none"
<1>1. m \in Message /\ m.call \in Call
  BY DEF IInv, TypeOK, DaemonTypeOK, Message
<1> USE <1>1 DEF IInv, TypeOK, DaemonTypeOK, WireTypeOK
<1>2. CASE client = "alive"
  <2>1. /\ Room(s2c) /\ s2c' = Append(s2c, m) /\ UNCHANGED commErr
        /\ answered' = [answered EXCEPT ![m.call] = @ + 1]
    BY <1>2 DEF SendReply
  <2>2. s2c' \in Seq(Message) /\ Len(s2c') <= Capacity
    BY <2>1, WireAssumption, AppendProperties DEF Room
  <2> QED  BY <2>1, <2>2
<1>3. CASE client # "alive"
  BY <1>3 DEF SendReply, WriteErrors
<1> QED  BY <1>2, <1>3

\* The main thread's callback.
LEMMA InlineStep ==
    ASSUME IInv, InlineReply, UNCHANGED sent
    PROVE  IInv'
<1>1. PICK m \in cur :
         \/ /\ future[m.call] = "done" /\ SendReply(m)
            /\ cur' = {} /\ main' = "reading"
         \/ /\ future[m.call] = "fatal" /\ main' = Raised
            /\ UNCHANGED <<cur, s2c, answered, commErr>>
  BY DEF InlineReply
<1>2. /\ main = "inline"
      /\ UNCHANGED <<queue, wpc, job, future, hooked, client, taken, executed, c2s,
                     chan, peer, emitted>>
  BY DEF InlineReply
<1>3. /\ m \in taken /\ cur = {m} /\ m.call \notin hooked /\ answered[m.call] = 0
      /\ m.call \in Call /\ taken \subseteq Message
  BY <1>2 DEF IInv, OneCallback, TypeOK, DaemonTypeOK, Message
<1>4. CASE future[m.call] = "fatal"
  <2>1. /\ main' \in {"ended", "escaped"}
        /\ UNCHANGED <<cur, s2c, answered, commErr>>
    BY <1>1, <1>4 DEF Raised
  <2>2. TypeOK'
    BY <1>2, <2>1 DEF IInv, TypeOK, DaemonTypeOK, WireTypeOK
  <2> QED  BY <1>2, <2>1, <2>2, QuietStep DEF IInv, books
<1>5. CASE future[m.call] = "done"
  <2>1. SendReply(m) /\ cur' = {} /\ main' = "reading"
    BY <1>1, <1>5
  <2>2. /\ s2c' \in Seq(Message) /\ Len(s2c') <= Capacity
        /\ answered' \in [Call -> Nat] /\ answered'[m.call] <= 1
        /\ \A c \in Call : c # m.call => answered'[c] = answered[c]
        /\ commErr' \in {"none", "EPIPE", "other"}
        /\ answered'[m.call] = 1 \/ commErr' # "none"
        /\ commErr # "none" => commErr' # "none"
    BY <1>3, <2>1, ReplyTypes
  <2>3. TypeOK'
    BY <1>2, <2>1, <2>2 DEF IInv, TypeOK, DaemonTypeOK, WireTypeOK
  <2>4. Arrival' /\ InPool'
    BY <1>2 DEF IInv, Arrival, InPool, Held
  <2>5. OneCallback'
    <3>1. \A w \in Worker : wpc[w] = "callback" =>
             \A k \in job[w] : /\ k.call \in hooked /\ future[k.call] # "pending"
                               /\ answered'[k.call] = 0
      <4> SUFFICES ASSUME NEW w \in Worker, wpc[w] = "callback", NEW k \in job[w]
                   PROVE  /\ k.call \in hooked /\ future[k.call] # "pending"
                          /\ answered'[k.call] = 0
        OBVIOUS
      <4>1. k.call \in hooked /\ future[k.call] # "pending" /\ answered[k.call] = 0
        BY DEF IInv, OneCallback
      <4>2. k.call \in Call
        BY DEF IInv, TypeOK, DaemonTypeOK, Message
      <4> QED  BY <1>3, <2>2, <4>1, <4>2
    <3>2. \A c \in Call : future[c] = "pending" => answered'[c] = 0
      BY <1>5, <2>2 DEF IInv, OneCallback
    <3>3. /\ \A k \in Elems(queue) : k.call \in hooked
          /\ \A w \in Worker : wpc[w] = "running" => \A k \in job[w] : k.call \in hooked
      BY <1>3, <1>5 DEF IInv, InPool, OneCallback
    <3> QED  BY <1>2, <2>1, <3>1, <3>2, <3>3 DEF OneCallback
  <2>6. ServedOnce'
    BY <1>2, <2>2 DEF IInv, ServedOnce
  <2>7. AnswerOwed'
    <3> SUFFICES ASSUME NEW k \in taken, future[k.call] = "done", answered'[k.call] = 0
                 PROVE  \/ \E w \in Worker : wpc[w] = "callback" /\ k \in job[w]
                        \/ commErr' # "none"
      BY <1>2 DEF AnswerOwed
    <3>1. k.call \in Call
      BY <1>3 DEF Message
    <3>2. CASE k.call = m.call
      BY <2>2, <3>2
    <3>3. CASE k.call # m.call
      BY <1>3, <2>2, <3>1, <3>3 DEF IInv, AnswerOwed
    <3> QED  BY <3>2, <3>3
  <2> QED  BY <2>3, <2>4, <2>5, <2>6, <2>7 DEF IInv
<1> QED  BY <1>1, <1>4, <1>5

\* A pool thread's callback.
LEMMA WorkerReplyStep ==
    ASSUME IInv, NEW w \in Worker, WorkerReply(w), UNCHANGED sent
    PROVE  IInv'
<1>1. PICK m \in job[w] :
         \/ /\ future[m.call] = "done" /\ SendReply(m)
            /\ wpc' = [wpc EXCEPT ![w] = "idle"]
            /\ job' = [job EXCEPT ![w] = {}]
         \/ /\ future[m.call] = "fatal"
            /\ wpc' = [wpc EXCEPT ![w] = "dead"]
            /\ UNCHANGED <<job, s2c, answered, commErr>>
  BY DEF WorkerReply
<1>2. /\ wpc[w] = "callback"
      /\ UNCHANGED <<main, cur, queue, future, hooked, client, taken, executed, c2s,
                     chan, peer, emitted>>
  BY DEF WorkerReply
<1>3. /\ m \in taken /\ job[w] = {m} /\ m.call \in hooked /\ answered[m.call] = 0
      /\ m.call \in Call /\ taken \subseteq Message
  <2>1. m.call \in Call /\ taken \subseteq Message
    BY DEF IInv, TypeOK, DaemonTypeOK, Message
  <2>2. m \in taken /\ job[w] = {m}
    BY <1>2 DEF IInv, InPool, Held
  <2> QED  BY <1>2, <2>1, <2>2 DEF IInv, OneCallback
\* In either case the thread lets go of the request, and the others keep theirs.
<1>4. /\ wpc'[w] \in {"idle", "dead"}
      /\ \A v \in Worker \ {w} : wpc'[v] = wpc[v] /\ job'[v] = job[v]
      /\ wpc' \in [Worker -> {"idle", "running", "callback", "dead"}]
      /\ job' \in [Worker -> SUBSET Message]
  BY <1>1 DEF IInv, TypeOK, DaemonTypeOK
<1>5. \A v \in Worker : Held(v)' => v # w /\ Held(v) /\ job'[v] = job[v]
  BY <1>4 DEF Held
<1>6. Arrival'
  BY <1>2 DEF IInv, Arrival
<1>7. InPool'
  <2>1. \A k \in Elems(queue) : \A v \in Worker : Held(v)' => k \notin job'[v]
    BY <1>5 DEF IInv, InPool
  <2>2. \A v \in Worker : Held(v)' => \E k \in taken : job'[v] = {k}
    BY <1>5 DEF IInv, InPool
  <2>3. \A u, v \in Worker : Held(u)' /\ Held(v)' /\ job'[u] = job'[v] => u = v
    BY <1>5 DEF IInv, InPool
  <2>4. \A v \in Worker : wpc'[v] = "running" => \A k \in job'[v] : future[k.call] = "pending"
    BY <1>4 DEF IInv, InPool
  <2> QED  BY <1>2, <2>1, <2>2, <2>3, <2>4 DEF IInv, InPool
<1>8. CASE future[m.call] = "fatal"
  <2>1. UNCHANGED <<job, s2c, answered, commErr>>
    BY <1>1, <1>8
  <2>2. TypeOK'
    BY <1>2, <1>4, <2>1 DEF IInv, TypeOK, DaemonTypeOK, WireTypeOK
  <2>3. OneCallback'
    BY <1>2, <1>4, <2>1 DEF IInv, OneCallback
  <2>4. ServedOnce'
    BY <1>2, <2>1 DEF IInv, ServedOnce
  <2>5. AnswerOwed'
    BY <1>2, <1>3, <1>4, <1>8, <2>1 DEF IInv, AnswerOwed
  <2> QED  BY <1>6, <1>7, <2>2, <2>3, <2>4, <2>5 DEF IInv
<1>9. CASE future[m.call] = "done"
  <2>1. SendReply(m)
    BY <1>1, <1>9
  <2>2. /\ s2c' \in Seq(Message) /\ Len(s2c') <= Capacity
        /\ answered' \in [Call -> Nat] /\ answered'[m.call] <= 1
        /\ \A c \in Call : c # m.call => answered'[c] = answered[c]
        /\ commErr' \in {"none", "EPIPE", "other"}
        /\ answered'[m.call] = 1 \/ commErr' # "none"
        /\ commErr # "none" => commErr' # "none"
    BY <1>3, <2>1, ReplyTypes
  <2>3. TypeOK'
    BY <1>2, <1>4, <2>2 DEF IInv, TypeOK, DaemonTypeOK, WireTypeOK
  <2>4. OneCallback'
    <3>1. main \in {"submitted", "inline"} =>
             \A k \in cur : k.call \notin hooked /\ answered'[k.call] = 0
      <4> SUFFICES ASSUME main \in {"submitted", "inline"}, NEW k \in cur
                   PROVE  k.call \notin hooked /\ answered'[k.call] = 0
        OBVIOUS
      <4>1. k.call \notin hooked /\ answered[k.call] = 0
        BY DEF IInv, OneCallback
      <4>2. k.call \in Call /\ k.call # m.call
        BY <1>3, <4>1 DEF IInv, TypeOK, DaemonTypeOK, Message
      <4> QED  BY <2>2, <4>1, <4>2
    <3>2. \A v \in Worker : wpc'[v] = "callback" =>
             \A k \in job'[v] : /\ k.call \in hooked /\ future[k.call] # "pending"
                                /\ answered'[k.call] = 0
      <4> SUFFICES ASSUME NEW v \in Worker, wpc'[v] = "callback", NEW k \in job'[v]
                   PROVE  /\ k.call \in hooked /\ future[k.call] # "pending"
                          /\ answered'[k.call] = 0
        OBVIOUS
      <4>1. v # w /\ wpc[v] = "callback" /\ k \in job[v]
        BY <1>4
      <4>2. k.call \in hooked /\ future[k.call] # "pending" /\ answered[k.call] = 0
        BY <4>1 DEF IInv, OneCallback
      <4>3. k \in taken /\ k # m
        <5>1. Held(v) /\ Held(w)
          BY <1>2, <4>1 DEF Held
        <5>2. job[v] # job[w]
          BY <4>1, <5>1 DEF IInv, InPool
        <5>3. PICK n \in taken : job[v] = {n}
          BY <5>1 DEF IInv, InPool
        <5> QED  BY <1>3, <4>1, <5>2, <5>3
      <4>4. k.call \in Call /\ k.call # m.call
        BY <1>3, <4>3 DEF IInv, Arrival, Message
      <4> QED  BY <2>2, <4>2, <4>4
    <3>3. \A c \in Call : future[c] = "pending" => answered'[c] = 0
      BY <1>9, <2>2 DEF IInv, OneCallback
    <3>4. \A v \in Worker : wpc'[v] = "running" =>
             \A k \in job'[v] : k.call \in hooked \/ k \in cur
      BY <1>4 DEF IInv, OneCallback
    <3> QED  BY <1>2, <3>1, <3>2, <3>3, <3>4 DEF IInv, OneCallback
  <2>5. ServedOnce'
    BY <1>2, <2>2 DEF IInv, ServedOnce
  <2>6. AnswerOwed'
    <3> SUFFICES ASSUME NEW k \in taken, future[k.call] = "done", answered'[k.call] = 0
                 PROVE  \/ k \in cur
                        \/ \E v \in Worker : wpc'[v] = "callback" /\ k \in job'[v]
                        \/ commErr' # "none"
      BY <1>2 DEF AnswerOwed
    <3>1. k.call \in Call
      BY <1>3 DEF Message
    <3>2. CASE k.call = m.call
      BY <2>2, <3>2
    <3>3. CASE k.call # m.call
      <4>1. k \notin job[w]
        BY <1>3, <3>3
      <4>2. \/ k \in cur
            \/ \E v \in Worker : wpc[v] = "callback" /\ k \in job[v]
            \/ commErr # "none"
        BY <2>2, <3>1, <3>3 DEF IInv, AnswerOwed
      <4> QED  BY <1>4, <2>2, <4>1, <4>2
    <3> QED  BY <3>2, <3>3
  <2> QED  BY <1>6, <1>7, <2>3, <2>4, <2>5, <2>6 DEF IInv
<1> QED  BY <1>1, <1>8, <1>9

-----------------------------------------------------------------------------
\* Every step preserves the invariant.
LEMMA StepIInv == IInv /\ [Next]_vars => IInv'
<1> SUFFICES ASSUME IInv, [Next]_vars PROVE IInv'
  OBVIOUS
<1>1. CASE MainStep /\ UNCHANGED sent
  BY <1>1, AcceptStep, LoopErrorStep, EndStep, AddCallbackStep, InlineStep DEF MainStep
<1>2. CASE (ExitEscapes \/ Crash \/ ClientDies) /\ UNCHANGED sent
  BY <1>2, EndStep
<1>3. CASE (Log /\ UNCHANGED sent) \/ Collect \/ CloseWrite
  BY <1>3, WireStep
<1>4. ASSUME NEW w \in Worker, WorkerStep(w), UNCHANGED sent PROVE IInv'
  BY <1>4, TakeStep, CompleteStep, WorkerReplyStep DEF WorkerStep
<1>5. ASSUME NEW id \in MsgId, NEW c \in Call, Request([id |-> id, call |-> c]) PROVE IInv'
  <2>1. [id |-> id, call |-> c] \in Message
    BY WireAssumption DEF Message
  <2> QED  BY <1>5, <2>1, RequestStep
<1>6. CASE UNCHANGED vars
  <2>1. UNCHANGED books /\ UNCHANGED c2s /\ UNCHANGED sent /\ UNCHANGED main
    BY <1>6 DEF vars, daemonVars, wireVars, books
  <2>2. TypeOK'
    BY <1>6 DEF vars, daemonVars, wireVars, IInv, TypeOK, DaemonTypeOK, WireTypeOK
  <2> QED  BY <2>1, <2>2, QuietStep DEF IInv
<1> QED  BY <1>1, <1>2, <1>3, <1>4, <1>5, <1>6 DEF Next, DaemonNext

\* The invariant holds in every reachable state, for any calls and pool.
THEOREM Invariance == Spec => []IInv
  BY InitIInv, StepIInv, PTL DEF Spec

\* Types hold; in particular neither direction of the socket is overfilled,
\* whichever thread writes to it.
THEOREM TypeCorrect == Spec => []TypeOK
  BY Invariance, PTL DEF IInv

(***************************************************************************)
(* No function is run twice for one request, and no request is answered    *)
(* twice, whoever wins the race between set_result and add_done_callback.  *)
(***************************************************************************)
THEOREM NeverTwice == Spec => []ServedOnce
  BY Invariance, PTL DEF IInv

(***************************************************************************)
(* No request is forgotten: one that was executed has a thread that will   *)
(* answer it, was answered, or met a write error.                          *)
(***************************************************************************)
THEOREM AlwaysOwed == Spec => []AnswerOwed
  BY Invariance, PTL DEF IInv
-----------------------------------------------------------------------------
(* The end of the daemon.  Where the unfinished requests are, and what the *)
(* main thread leaves behind when it comes to its end.                     *)

NotLost == \A m \in taken : future[m.call] = "pending" =>
              \/ m \in Elems(queue)
              \/ \E w \in Worker : wpc[w] = "running" /\ m \in job[w]
              \/ commErr # "none"

CleanEnd == /\ commErr # "none" => client # "alive"
            /\ main = "ended" => \A m \in cur : future[m.call] = "fatal"

\* A FIFO is its head and what follows it.
LEMMA HeadAndTail ==
    ASSUME NEW q \in Seq(Message), q # <<>>
    PROVE  Elems(q) = {Head(q)} \cup Elems(Tail(q))
<1>1. /\ Tail(q) \in Seq(Message) /\ Len(Tail(q)) = Len(q) - 1
      /\ Len(q) \in Nat /\ Len(q) >= 1 /\ Head(q) = q[1]
      /\ \A i \in 1 .. (Len(q) - 1) : Tail(q)[i] = q[i + 1]
  BY HeadTailProperties
<1>2. Elems(q) \subseteq {Head(q)} \cup Elems(Tail(q))
  <2> SUFFICES ASSUME NEW i \in 1 .. Len(q), i # 1 PROVE q[i] \in Elems(Tail(q))
    BY <1>1 DEF Elems
  <2>1. i - 1 \in 1 .. (Len(q) - 1) /\ Tail(q)[i - 1] = q[i]
    BY <1>1
  <2> QED  BY <1>1, <2>1 DEF Elems
<1>3. {Head(q)} \cup Elems(Tail(q)) \subseteq Elems(q)
  <2>1. Head(q) \in Elems(q)
    BY <1>1 DEF Elems
  <2>2. ASSUME NEW i \in 1 .. Len(Tail(q)) PROVE Tail(q)[i] \in Elems(q)
    <3>1. i + 1 \in 1 .. Len(q) /\ Tail(q)[i] = q[i + 1]
      BY <1>1
    <3> QED  BY <3>1 DEF Elems
  <2> QED  BY <2>1, <2>2 DEF Elems
<1> QED  BY <1>2, <1>3

\* The main thread's steps and the wire's lose no request.
LEMMA MainKeeps ==
    ASSUME IInv, NotLost, CleanEnd, MainStep \/ ExitEscapes \/ Crash \/ ClientDies \/ Log
    PROVE  NotLost' /\ CleanEnd'
<1>1. CASE Accept
  <2>1. queue \in Seq(Message) /\ Head(c2s) \in Message
    BY <1>1, ReadOne DEF IInv, TypeOK, DaemonTypeOK, Accept
  <2>2. Elems(queue') = Elems(queue) \cup {Head(c2s)}
    <3>1. /\ Len(queue') = Len(queue) + 1 /\ Len(queue) \in Nat
          /\ queue'[Len(queue) + 1] = Head(c2s)
          /\ \A i \in 1 .. Len(queue) : queue'[i] = queue[i]
      BY <1>1, <2>1, AppendProperties DEF Accept
    <3> QED  BY <3>1 DEF Elems
  <2> QED  BY <1>1, <2>2 DEF Accept, NotLost, CleanEnd
<1>2. CASE LoopError
  BY <1>2 DEF LoopError, NotLost, CleanEnd, IInv, OneCallback
<1>3. CASE LoopEof
  BY <1>3 DEF LoopEof, NotLost, CleanEnd, IInv, OneCallback
<1>4. CASE AddCallback
  BY <1>4 DEF AddCallback, NotLost, CleanEnd
<1>5. CASE InlineReply
  <2>1. PICK m \in cur :
           \/ /\ SendReply(m) /\ main' = "reading"
           \/ /\ future[m.call] = "fatal" /\ UNCHANGED <<cur, commErr>>
    BY <1>5 DEF InlineReply
  <2>2. /\ commErr # "none" => commErr' # "none"
        /\ commErr' # "none" => client # "alive"
    BY <2>1 DEF SendReply, WriteErrors, CleanEnd
  <2>3. cur = {m}
    BY <1>5, <2>1 DEF InlineReply, IInv, OneCallback
  <2> QED  BY <1>5, <2>1, <2>2, <2>3 DEF InlineReply, NotLost, CleanEnd
<1>6. CASE Exit \/ ExitEscapes \/ Crash
  BY <1>6 DEF Exit, ExitEscapes, Crash, Gone, NotLost, CleanEnd
<1>7. CASE ClientDies \/ Log
  BY <1>7 DEF ClientDies, Log, daemonVars, NotLost, CleanEnd
<1> QED  BY <1>1, <1>2, <1>3, <1>4, <1>5, <1>6, <1>7 DEF MainStep

\* Nor do those of the pool.
LEMMA WorkerKeeps ==
    ASSUME IInv, NotLost, CleanEnd, NEW w \in Worker, WorkerStep(w)
    PROVE  NotLost' /\ CleanEnd'
<1>1. /\ wpc \in [Worker -> {"idle", "running", "callback", "dead"}]
      /\ job \in [Worker -> SUBSET Message] /\ future \in [Call -> {"pending", "done", "fatal"}]
      /\ queue \in Seq(Message) /\ taken \subseteq Message
  BY DEF IInv, TypeOK, DaemonTypeOK
<1>2. CASE Take(w)
  <2>1. /\ Elems(queue) = {Head(queue)} \cup Elems(queue')
        /\ job'[w] = {Head(queue)} /\ wpc'[w] = "running" /\ wpc[w] = "idle"
        /\ \A v \in Worker \ {w} : job'[v] = job[v] /\ wpc'[v] = wpc[v]
    BY <1>1, <1>2, HeadAndTail DEF Take
  <2>2. UNCHANGED <<main, cur, future, commErr, client, taken>>
    BY <1>2 DEF Take
  <2>3. NotLost'
    <3> SUFFICES ASSUME NEW m \in taken, future[m.call] = "pending", commErr = "none",
                        m \notin Elems(queue')
                 PROVE  \E v \in Worker : wpc'[v] = "running" /\ m \in job'[v]
      BY <2>2 DEF NotLost
    <3>1. CASE m = Head(queue)
      BY <2>1, <3>1
    <3>2. CASE m # Head(queue)
      <4>1. PICK v \in Worker : wpc[v] = "running" /\ m \in job[v]
        BY <2>1, <3>2 DEF NotLost
      <4> QED  BY <2>1, <4>1
    <3> QED  BY <3>1, <3>2
  <2> QED  BY <2>2, <2>3 DEF CleanEnd
<1>3. CASE Complete(w)
  <2>1. PICK m \in job[w] :
          /\ future' = [future EXCEPT ![m.call] = IF m.call \in Fatal THEN "fatal" ELSE "done"]
          /\ \/ wpc' = [wpc EXCEPT ![w] = "callback"] /\ UNCHANGED job
             \/ /\ wpc' = [wpc EXCEPT ![w] = "idle"]
                /\ job' = [job EXCEPT ![w] = {}]
    BY <1>3 DEF Complete
  <2>2. wpc[w] = "running" /\ UNCHANGED <<main, cur, queue, commErr, client, taken>>
    BY <1>3 DEF Complete
  <2>3. /\ job[w] = {m} /\ m \in taken /\ future[m.call] = "pending"
    BY <2>1, <2>2 DEF IInv, InPool, Held
  <2>4. m.call \in Call
    BY <1>1, <2>3 DEF Message
  <2>5. /\ future'[m.call] # "pending"
        /\ \A c \in Call : c # m.call => future'[c] = future[c]
        /\ \A v \in Worker \ {w} : job'[v] = job[v] /\ wpc'[v] = wpc[v]
    BY <1>1, <2>1, <2>4
  <2>6. NotLost'
    <3> SUFFICES ASSUME NEW k \in taken, future'[k.call] = "pending", commErr = "none",
                        k \notin Elems(queue)
                 PROVE  \E v \in Worker : wpc'[v] = "running" /\ k \in job'[v]
      BY <2>2 DEF NotLost
    <3>1. k.call # m.call /\ future[k.call] = "pending"
      BY <1>1, <2>5 DEF Message
    <3>2. PICK v \in Worker : wpc[v] = "running" /\ k \in job[v]
      BY <3>1 DEF NotLost
    <3>3. v # w
      BY <2>3, <3>1, <3>2
    <3> QED  BY <2>5, <3>2, <3>3
  <2>7. CleanEnd'
    <3> SUFFICES ASSUME main = "ended", NEW k \in cur PROVE future'[k.call] = "fatal"
      BY <2>2 DEF CleanEnd
    <3>1. future[k.call] = "fatal" /\ k.call \in Call
      BY DEF CleanEnd, IInv, TypeOK, DaemonTypeOK, Message
    <3> QED  BY <2>3, <2>5, <3>1
  <2> QED  BY <2>6, <2>7
<1>4. CASE WorkerReply(w)
  <2>1. /\ wpc[w] = "callback" /\ \A v \in Worker \ {w} : job'[v] = job[v] /\ wpc'[v] = wpc[v]
    BY <1>1, <1>4 DEF WorkerReply
  <2>2. /\ commErr # "none" => commErr' # "none"
        /\ commErr' # "none" => client # "alive"
    BY <1>4 DEF WorkerReply, SendReply, WriteErrors, CleanEnd
  <2>3. UNCHANGED <<main, cur, queue, future, client, taken>>
    BY <1>4 DEF WorkerReply
  <2>4. NotLost'
    <3> SUFFICES ASSUME NEW k \in taken, future[k.call] = "pending", commErr = "none",
                        k \notin Elems(queue)
                 PROVE  \E v \in Worker : wpc'[v] = "running" /\ k \in job'[v]
      BY <2>2, <2>3 DEF NotLost
    <3>1. PICK v \in Worker : wpc[v] = "running" /\ k \in job[v]
      BY DEF NotLost
    <3> QED  BY <2>1, <3>1
  <2> QED  BY <2>2, <2>3, <2>4 DEF CleanEnd
<1> QED  BY <1>2, <1>3, <1>4 DEF WorkerStep

\* Both hold in every reachable state.
LEMMA EndInvariance == Spec => [](IInv /\ NotLost /\ CleanEnd)
<1>1. Init => NotLost /\ CleanEnd
  BY DEF Init, DaemonInit, NotLost, CleanEnd
<1>2. IInv /\ NotLost /\ CleanEnd /\ [Next]_vars => NotLost' /\ CleanEnd'
  <2> SUFFICES ASSUME IInv, NotLost, CleanEnd, [Next]_vars
               PROVE  NotLost' /\ CleanEnd'
    OBVIOUS
  <2>1. CASE Collect \/ CloseWrite \/ (\E m : Request(m)) \/ UNCHANGED vars
    BY <2>1 DEF Collect, CloseWrite, Request, vars, daemonVars, NotLost, CleanEnd
  <2>2. ASSUME NEW w \in Worker, WorkerStep(w) PROVE NotLost' /\ CleanEnd'
    BY <2>2, WorkerKeeps
  <2> QED  BY <2>1, <2>2, MainKeeps DEF Next, DaemonNext
<1> QED  BY <1>1, <1>2, InitIInv, StepIInv, PTL DEF Spec

(***************************************************************************)
(* sys.exit of a daemon that the helper started comes after every answer   *)
(* to what was read, as long as a thread of the pool is left.              *)
(***************************************************************************)
THEOREM AnswersBeforeExit == Spec => DrainsBeforeExit
<1> DEFINE Drained == Exit /\ Method = "ROOTWRAP" /\ client = "alive" =>
              \/ \A w \in Worker : wpc[w] = "dead"
              \/ \A m \in taken : answered[m.call] = 1 \/ future[m.call] = "fatal"
<1>1. IInv /\ NotLost /\ CleanEnd => Drained
  <2> SUFFICES ASSUME IInv, NotLost, CleanEnd, Exit, Method = "ROOTWRAP", client = "alive",
                      ~ \A w \in Worker : wpc[w] = "dead", NEW m \in taken
               PROVE  answered[m.call] = 1 \/ future[m.call] = "fatal"
    OBVIOUS
  <2>1. main = "ended" /\ PoolJoined /\ commErr = "none"
    BY DEF Exit, CleanEnd
  <2>2. queue = <<>> /\ \A w \in Worker : wpc[w] \in {"idle", "dead"}
    BY <2>1 DEF PoolJoined
  <2>3. m.call \in Call
    BY DEF IInv, TypeOK, DaemonTypeOK, Message
  <2>4. future[m.call] # "pending"
    BY <2>1, <2>2 DEF NotLost, Elems
  <2>5. CASE future[m.call] = "done"
    <3>1. m \notin cur
      BY <2>1, <2>5 DEF CleanEnd
    <3>2. answered[m.call] # 0
      BY <2>1, <2>2, <2>5, <3>1 DEF IInv, AnswerOwed
    <3>3. answered[m.call] \in Nat /\ answered[m.call] <= 1
      BY <2>3 DEF IInv, ServedOnce, TypeOK, DaemonTypeOK
    <3> QED  BY <3>2, <3>3
  <2> QED  BY <2>3, <2>4, <2>5 DEF IInv, TypeOK, DaemonTypeOK
<1> QED  BY <1>1, EndInvariance, PTL DEF DrainsBeforeExit
=============================================================================
