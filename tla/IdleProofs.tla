----------------------------- MODULE IdleProofs -----------------------------
(***************************************************************************)
(* What a daemon has done when all its threads wait.  The proof of         *)
(* AnyClient's IdleIsDone: what can be shown of RequestAnswered without    *)
(* fairness.  And what it takes to use up the pool.                        *)
(***************************************************************************)
EXTENDS AnyClientProofs, FiniteSetTheorems, FunctionTheorems

\* A function was entered before its future was finished.
Ran == /\ \A c \in Call : future[c] # "pending" => executed[c] = 1 \/ c \in NoFunction
       /\ \A w \in Worker : wpc[w] = "running" =>
             \A m \in job[w] : executed[m.call] = 1 \/ m.call \in NoFunction

\* A function that raised SystemExit was entered.
FatalRan == \E c \in Fatal : executed[c] # 0

\* Why a thread of the daemon has come to its end.
Ends == /\ \A c \in Call : future[c] = "fatal" => c \in Fatal
        /\ main = "escaped" => \A m \in cur : future[m.call] = "fatal"
        /\ main = "escaped" => client # "alive" \/ FatalRan
        /\ main = "ended" => chan # "open" \/ client # "alive" \/ FatalRan
        /\ \A w \in Worker : wpc[w] = "dead" => FatalRan

Kept == NotLost /\ CleanEnd /\ Ran /\ Ends

IdleInv == IInv /\ Kept

-----------------------------------------------------------------------------
\* A request that leaves the queue is run once, unless it is refused.
LEMMA TakeRuns ==
    ASSUME IInv, NEW w \in Worker, Take(w)
    PROVE  LET h == Head(queue) IN
           /\ h \in taken /\ h.call \in Call
           /\ future[h.call] = "pending" /\ executed[h.call] = 0
           /\ executed' = [executed EXCEPT ![h.call] = IF h.call \in NoFunction THEN 0 ELSE 1]
<1> DEFINE h == Head(queue)
<1>1. h \in Elems(queue) /\ h \in Message
  <2>1. queue \in Seq(Message) /\ queue # <<>> /\ Distinct(queue)
    BY DEF IInv, TypeOK, DaemonTypeOK, InPool, Take
  <2> QED  BY <2>1, TakeHead
<1>2. executed' = [executed EXCEPT ![h.call] = IF h.call \in NoFunction THEN @ ELSE @ + 1]
  BY DEF Take
<1> HIDE DEF h
<1>3. h \in taken /\ future[h.call] = "pending" /\ executed[h.call] = 0
  BY <1>1 DEF IInv, InPool
<1>4. h.call \in Call
  BY <1>1 DEF Message
<1> QED  BY <1>2, <1>3, <1>4 DEF h

\* The types that the steps below need.
LEMMA WorkTypes ==
    ASSUME IInv
    PROVE  /\ wpc \in [Worker -> {"idle", "running", "callback", "dead"}]
           /\ job \in [Worker -> SUBSET Message] /\ cur \subseteq Message
           /\ future \in [Call -> {"pending", "done", "fatal"}]
           /\ executed \in [Call -> Nat] /\ taken \subseteq Message
  BY DEF IInv, TypeOK, DaemonTypeOK

\* No future is finished whose function was not entered.
LEMMA RanStep ==
    ASSUME IInv, Ran, DaemonNext \/ UNCHANGED daemonVars \/ ClientDies
    PROVE  Ran'
<1>1. ASSUME UNCHANGED <<future, executed, wpc, job>> PROVE Ran'
  BY <1>1 DEF Ran
<1>2. CASE MainStep \/ ExitEscapes \/ Crash \/ Log \/ UNCHANGED daemonVars \/ ClientDies
  BY <1>1, <1>2 DEF MainStep, Accept, LoopError, LoopEof, AddCallback, InlineReply, Exit,
                    ExitEscapes, Crash, Gone, Log, ClientDies, daemonVars
<1>3. wpc \in [Worker -> {"idle", "running", "callback", "dead"}]
      /\ job \in [Worker -> SUBSET Message] /\ future \in [Call -> {"pending", "done", "fatal"}]
      /\ executed \in [Call -> Nat]
  BY WorkTypes
<1>4. ASSUME NEW w \in Worker, Take(w) PROVE Ran'
  <2> DEFINE h == Head(queue)
  <2>1. /\ h.call \in Call /\ future[h.call] = "pending"
        /\ executed' = [executed EXCEPT ![h.call] = IF h.call \in NoFunction THEN 0 ELSE 1]
        /\ future' = future /\ job' = [job EXCEPT ![w] = {h}]
        /\ wpc' = [wpc EXCEPT ![w] = "running"]
    BY <1>4, TakeRuns DEF Take
  <2> HIDE DEF h
  <2>2. ASSUME NEW c \in Call, executed[c] = 1 \/ c \in NoFunction
        PROVE  executed'[c] = 1 \/ c \in NoFunction
    BY <1>3, <2>1, <2>2
  <2>3. executed'[h.call] = 1 \/ h.call \in NoFunction
    BY <1>3, <2>1
  <2>4. ASSUME NEW v \in Worker, wpc'[v] = "running", NEW m \in job'[v]
        PROVE  executed'[m.call] = 1 \/ m.call \in NoFunction
    <3>1. CASE v = w
      BY <1>3, <2>1, <2>3, <3>1
    <3>2. CASE v # w
      <4>1. wpc[v] = "running" /\ m \in job[v]
        BY <1>3, <2>1, <2>4, <3>2
      <4>2. m.call \in Call /\ (executed[m.call] = 1 \/ m.call \in NoFunction)
        BY <1>3, <4>1 DEF Ran, Message
      <4> QED  BY <2>2, <4>2
    <3> QED  BY <3>1, <3>2
  <2> QED  BY <2>1, <2>2, <2>4 DEF Ran
<1>5. ASSUME NEW w \in Worker, Complete(w) PROVE Ran'
  <2>1. PICK m \in job[w] :
          /\ future' = [future EXCEPT ![m.call] = IF m.call \in Fatal THEN "fatal" ELSE "done"]
          /\ \/ wpc' = [wpc EXCEPT ![w] = "callback"] /\ UNCHANGED job
             \/ /\ wpc' = [wpc EXCEPT ![w] = "idle"]
                /\ job' = [job EXCEPT ![w] = {}]
    BY <1>5 DEF Complete
  <2>2. executed' = executed /\ (executed[m.call] = 1 \/ m.call \in NoFunction)
    BY <1>5, <2>1 DEF Complete, Ran
  <2>3. \A v \in Worker : wpc'[v] = "running" => wpc[v] = "running" /\ job'[v] = job[v]
    BY <1>3, <2>1
  <2>4. \A c \in Call : future'[c] # "pending" => c = m.call \/ future[c] # "pending"
    BY <1>3, <2>1
  <2> QED  BY <2>2, <2>3, <2>4 DEF Ran
<1>6. ASSUME NEW w \in Worker, WorkerReply(w) PROVE Ran'
  <2>1. \A v \in Worker : wpc'[v] = "running" => wpc[v] = "running" /\ job'[v] = job[v]
    BY <1>3, <1>6 DEF WorkerReply
  <2> QED  BY <1>6, <2>1 DEF WorkerReply, Ran
<1> QED  BY <1>2, <1>4, <1>5, <1>6 DEF DaemonNext, WorkerStep

\* A future that holds SystemExit belongs to a function that was entered.
LEMMA FatalEntered ==
    ASSUME IInv, Ran, Ends, NEW c \in Call, future[c] = "fatal"
    PROVE  FatalRan
<1>1. c \in Fatal
  BY DEF Ends
<1>2. executed[c] = 1
  BY <1>1, DaemonAssumption DEF Ran
<1> QED  BY <1>1, <1>2 DEF FatalRan

\* Threads come to their end for one of the reasons that Ends gives.
LEMMA EndsStep ==
    ASSUME IInv, CleanEnd, Ran, Ends, DaemonNext \/ ClientDies
    PROVE  Ends'
<1>t. /\ wpc \in [Worker -> {"idle", "running", "callback", "dead"}]
      /\ job \in [Worker -> SUBSET Message] /\ cur \subseteq Message
      /\ future \in [Call -> {"pending", "done", "fatal"}]
      /\ executed \in [Call -> Nat] /\ taken \subseteq Message
  BY WorkTypes
\* Nothing but main, chan and client changes.
<1>1. ASSUME UNCHANGED <<wpc, future, executed, chan>>,
             client # "alive" => client' # "alive",
             main' = "escaped" => \A m \in cur' : future[m.call] = "fatal",
             main' = "escaped" => client' # "alive" \/ FatalRan,
             main' = "ended" => chan # "open" \/ client' # "alive" \/ FatalRan
      PROVE  Ends'
  <2>1. FatalRan' <=> FatalRan
    BY <1>1 DEF FatalRan
  <2> QED  BY <1>1, <2>1 DEF Ends
<1>2. CASE Accept
  BY <1>1, <1>2 DEF Accept
<1>3. CASE LoopError
  <2>1. client # "alive" /\ cur' = {}
    BY <1>3 DEF LoopError, CleanEnd, IInv, OneCallback
  <2> QED  BY <1>1, <1>3, <2>1 DEF LoopError
<1>4. CASE LoopEof
  <2>1. cur' = {} /\ (chan # "open" \/ client # "alive") /\ (main' = "escaped" => client = "reset")
    BY <1>4 DEF LoopEof, StreamEnded, IInv, OneCallback
  <2> QED  BY <1>1, <1>4, <2>1 DEF LoopEof, wireVars
<1>5. CASE AddCallback
  BY <1>1, <1>5 DEF AddCallback, wireVars
<1>6. CASE InlineReply
  <2>1. PICK m \in cur :
           \/ main' = "reading"
           \/ future[m.call] = "fatal" /\ cur' = cur /\ main' = Raised
    BY <1>6 DEF InlineReply
  <2>2. cur = {m} /\ m.call \in Call
    BY <1>6, <1>t, <2>1 DEF InlineReply, IInv, OneCallback, Message
  <2>3. main' # "reading" => FatalRan /\ \A k \in cur' : future[k.call] = "fatal"
    BY <2>1, <2>2, FatalEntered
  <2> QED  BY <1>1, <1>6, <2>1, <2>3 DEF InlineReply, Raised
<1>7. CASE Exit \/ Crash
  BY <1>1, <1>7 DEF Exit, Crash, Gone
<1>8. CASE ExitEscapes
  <2>1. \A m \in cur' : future[m.call] = "fatal"
    BY <1>8 DEF ExitEscapes, CleanEnd
  <2> QED  BY <1>1, <1>8, <2>1 DEF ExitEscapes, wireVars
<1>9. CASE ClientDies
  BY <1>1, <1>9 DEF ClientDies, wireVars, Ends
<1>10. CASE Log
  BY <1>1, <1>10 DEF Log, daemonVars, Ends
<1>11. ASSUME NEW w \in Worker, Take(w) PROVE Ends'
  <2> DEFINE h == Head(queue)
  <2>1. /\ h.call \in Call /\ executed[h.call] = 0
        /\ executed' = [executed EXCEPT ![h.call] = IF h.call \in NoFunction THEN 0 ELSE 1]
    BY <1>11, TakeRuns
  <2> HIDE DEF h
  <2>2. FatalRan => FatalRan'
    <3> SUFFICES ASSUME NEW c \in Fatal, executed[c] # 0 PROVE executed'[c] # 0
      BY DEF FatalRan
    <3> QED  BY <1>t, <2>1
  <2>3. /\ UNCHANGED <<main, cur, future, client, chan>>
        /\ \A v \in Worker : wpc'[v] = "dead" => wpc[v] = "dead"
    BY <1>11, <1>t DEF Take, wireVars
  <2> QED  BY <2>2, <2>3 DEF Ends
<1>12. ASSUME NEW w \in Worker, Complete(w) PROVE Ends'
  <2>1. PICK m \in job[w] :
          future' = [future EXCEPT ![m.call] = IF m.call \in Fatal THEN "fatal" ELSE "done"]
    BY <1>12 DEF Complete
  <2>2. /\ UNCHANGED <<main, cur, client, chan, executed>> /\ (FatalRan' <=> FatalRan)
        /\ \A v \in Worker : wpc'[v] = "dead" => wpc[v] = "dead"
    BY <1>12, <1>t DEF Complete, wireVars, FatalRan
  <2>3. m.call \in Call /\ future[m.call] = "pending"
    BY <1>12, <1>t, <2>1 DEF Complete, IInv, InPool, Held, Message
  <2>4. /\ \A c \in Call : future'[c] = "fatal" => c \in Fatal
        /\ \A c \in Call : future[c] = "fatal" => future'[c] = "fatal"
    BY <1>t, <2>1, <2>3 DEF Ends
  <2>5. main = "escaped" => \A k \in cur : future'[k.call] = "fatal"
    BY <1>t, <2>4 DEF Ends, Message
  <2> QED  BY <2>2, <2>4, <2>5 DEF Ends
<1>13. ASSUME NEW w \in Worker, WorkerReply(w) PROVE Ends'
  <2>1. PICK m \in job[w] : \/ wpc' = [wpc EXCEPT ![w] = "idle"]
                            \/ /\ future[m.call] = "fatal"
                               /\ wpc' = [wpc EXCEPT ![w] = "dead"]
    BY <1>13 DEF WorkerReply
  <2>2. /\ UNCHANGED <<main, cur, client, chan, executed, future>>
        /\ (FatalRan' <=> FatalRan)
    BY <1>13 DEF WorkerReply, FatalRan
  <2>3. m.call \in Call
    BY <1>t, <2>1 DEF Message
  <2>4. \A v \in Worker : wpc'[v] = "dead" => wpc[v] = "dead" \/ FatalRan
    BY <1>t, <2>1, <2>3, FatalEntered
  <2> QED  BY <2>2, <2>4 DEF Ends
<1> QED
  BY <1>2, <1>3, <1>4, <1>5, <1>6, <1>7, <1>8, <1>9, <1>10, <1>11, <1>12, <1>13
     DEF DaemonNext, MainStep, WorkerStep

-----------------------------------------------------------------------------
(* The steps, in a form that any module with this daemon can use. *)

\* The daemon's own.
LEMMA DaemonKept ==
    ASSUME IInv, Kept, DaemonNext \/ ClientDies
    PROVE  Kept'
<1>1. NotLost' /\ CleanEnd'
  BY MainKeeps, WorkerKeeps DEF DaemonNext, Kept
<1> QED  BY <1>1, RanStep, EndsStep DEF Kept

\* Those of its client, which may end its stream but not take it up again.
LEMMA ClientKept ==
    ASSUME IInv, Kept, UNCHANGED daemonVars, chan # "open" => chan' # "open"
    PROVE  Kept'
<1>1. NotLost' /\ CleanEnd'
  BY DEF Kept, daemonVars, NotLost, CleanEnd
<1>2. Ends'
  BY DEF Kept, daemonVars, Ends, FatalRan
<1> QED  BY <1>1, <1>2, RanStep DEF Kept

\* Nothing has happened yet.
LEMMA InitKept == Init => Kept
  BY DEF Init, DaemonInit, Kept, NotLost, CleanEnd, Ran, Ends

\* All of it is preserved by every step.
LEMMA IdleStep == IdleInv /\ [Next]_vars => IdleInv'
<1> SUFFICES ASSUME IdleInv, [Next]_vars PROVE IdleInv'
  OBVIOUS
<1>1. IInv'
  BY StepIInv DEF IdleInv
<1>2. CASE DaemonNext \/ ClientDies
  BY <1>1, <1>2, DaemonKept DEF IdleInv
<1>3. CASE Collect \/ CloseWrite \/ (\E m : Request(m)) \/ UNCHANGED vars
  <2>1. UNCHANGED daemonVars /\ (chan # "open" => chan' # "open")
    BY <1>3 DEF Collect, CloseWrite, Request, vars, wireVars
  <2> QED  BY <1>1, <2>1, ClientKept DEF IdleInv
<1> QED  BY <1>2, <1>3 DEF Next

LEMMA IdleInvariance == Spec => []IdleInv
  BY InitIInv, InitKept, IdleStep, PTL DEF Spec, IdleInv

-----------------------------------------------------------------------------
\* When no thread can move, what was read is with none of them.
LEMMA IdleMeansDone == IdleInv => IdleIsDone
<1> SUFFICES ASSUME IdleInv, DaemonWaits, main # "exited", client = "alive", Room(s2c),
                    NEW v \in Worker, wpc[v] = "idle", NEW m \in taken
             PROVE  \/ answered[m.call] = 1
                    \/ m.call \in Fatal \cup Hanging /\ executed[m.call] = 1
  BY DEF IdleIsDone
<1>1. queue = <<>> /\ commErr = "none"
  BY DEF DaemonWaits, WorkerWaits, IdleInv, Kept, CleanEnd
<1>2. m.call \in Call /\ future[m.call] \in {"pending", "done", "fatal"}
  BY WorkTypes DEF IdleInv, Message
<1>3. CASE future[m.call] = "pending"
  <2>1. PICK w \in Worker : wpc[w] = "running" /\ m \in job[w]
    BY <1>1, <1>3 DEF IdleInv, Kept, NotLost, Elems
  <2>2. job[w] = {m}
    BY <2>1 DEF IdleInv, IInv, InPool, Held
  <2>3. m.call \in Hanging
    BY <2>1, <2>2 DEF DaemonWaits, WorkerWaits
  <2>4. executed[m.call] = 1
    BY <2>1, <2>3, DaemonAssumption DEF IdleInv, Kept, Ran
  <2> QED  BY <2>3, <2>4
<1>4. CASE future[m.call] = "done"
  <2>1. CASE answered[m.call] # 0
    <3>1. answered[m.call] \in Nat /\ answered[m.call] <= 1
      BY <1>2 DEF IdleInv, IInv, ServedOnce, TypeOK, DaemonTypeOK
    <3> QED  BY <2>1, <3>1
  <2>2. CASE answered[m.call] = 0
    <3>1. ASSUME m \in cur PROVE FALSE
      <4>1. main \in {"inline", "ended", "escaped"}
        BY <3>1 DEF DaemonWaits, MainWaits, IdleInv, IInv, OneCallback
      <4>2. main # "inline"
        BY DEF DaemonWaits, MainWaits, ReplyBlocked
      <4> QED  BY <1>4, <3>1, <4>1, <4>2 DEF IdleInv, Kept, CleanEnd, Ends
    <3>2. ASSUME NEW w \in Worker, wpc[w] = "callback" PROVE FALSE
      BY <3>2 DEF DaemonWaits, WorkerWaits, ReplyBlocked
    <3> QED  BY <1>1, <1>4, <2>2, <3>1, <3>2 DEF IdleInv, IInv, AnswerOwed
  <2> QED  BY <2>1, <2>2
<1>5. CASE future[m.call] = "fatal"
  <2>1. m.call \in Fatal
    BY <1>2, <1>5 DEF IdleInv, Kept, Ends
  <2>2. executed[m.call] = 1
    BY <1>2, <1>5, <2>1, DaemonAssumption DEF IdleInv, Kept, Ran
  <2> QED  BY <2>1, <2>2
<1> QED  BY <1>2, <1>3, <1>4, <1>5

(***************************************************************************)
(* No request is left lying: as long as one pool thread is free and the    *)
(* client reads, a daemon at rest has answered whatever it can answer.     *)
(***************************************************************************)
THEOREM NothingLeftLying == Spec => []IdleIsDone
  BY IdleInvariance, IdleMeansDone, PTL

\* After the end of the channel, and with no function running, only main's last
\* two states are left to a daemon at rest.
OnlyHangingStays ==
    /\ DaemonWaits /\ (chan # "open" \/ client # "alive")
    /\ client = "alive" => Room(s2c)
    /\ \A w \in Worker : wpc[w] # "running"
    => main \in {"exited", "escaped"}

LEMMA OnlyHangingCanStay == TypeOK => OnlyHangingStays
<1> SUFFICES ASSUME TypeOK, DaemonWaits, chan # "open" \/ client # "alive",
                    client = "alive" => Room(s2c),
                    \A w \in Worker : wpc[w] # "running",
                    main \notin {"exited", "escaped"}
             PROVE  FALSE
  BY DEF OnlyHangingStays
<1>1. main = "ended" /\ ~PoolJoined
  BY DEF DaemonWaits, MainWaits, StreamEnded, ReplyBlocked
<1>2. \A w \in Worker : wpc[w] = "dead" \/ (wpc[w] = "idle" /\ queue = <<>>)
  BY DEF DaemonWaits, WorkerWaits, ReplyBlocked
<1> QED  BY <1>1, <1>2 DEF PoolJoined

-----------------------------------------------------------------------------
(* What it takes to use up the pool *)

\* The functions that are at fault when a daemon stands still.
Culprits == {c \in Fatal \cup Hanging : executed[c] = 1}

\* No pool thread is left that could take another request.
PoolUsedUp == \A w \in Worker : \/ wpc[w] = "dead"
                                \/ wpc[w] = "running" /\ \E m \in job[w] : m.call \in Hanging

\* A pool thread that has ended did so with a call that no other one had.
Spent == /\ \A w \in Worker : wpc[w] = "dead" =>
               \E m \in taken : job[w] = {m} /\ future[m.call] = "fatal"
         /\ \A v, w \in Worker :
               wpc[v] # "idle" /\ wpc[w] # "idle" /\ job[v] = job[w] => v = w

\* loop() is only left over unread requests by a function that raised.
ReadAll == main = "ended" => client # "alive" \/ FatalRan \/ (c2s = <<>> /\ chan # "open")

PoolInv == IdleInv /\ Spent /\ ReadAll

\* Each thread keeps to its own call, and dies with it.
LEMMA SpentStep ==
    ASSUME IInv, Spent, DaemonNext \/ UNCHANGED daemonVars \/ ClientDies
    PROVE  Spent'
<1>t. /\ wpc \in [Worker -> {"idle", "running", "callback", "dead"}]
      /\ job \in [Worker -> SUBSET Message]
      /\ future \in [Call -> {"pending", "done", "fatal"}] /\ taken \subseteq Message
  BY WorkTypes
<1>h. \A w \in Worker : wpc[w] \notin {"idle", "dead"} => \E m \in taken : job[w] = {m}
  BY <1>t DEF IInv, InPool, Held
<1>1. ASSUME UNCHANGED <<wpc, job, future>>, taken \subseteq taken' PROVE Spent'
  BY <1>1 DEF Spent
<1>2. CASE MainStep \/ ExitEscapes \/ Crash \/ Log \/ UNCHANGED daemonVars \/ ClientDies
  BY <1>1, <1>2 DEF MainStep, Accept, LoopError, LoopEof, AddCallback, InlineReply, Exit,
                    ExitEscapes, Crash, Gone, Log, ClientDies, daemonVars
<1>3. ASSUME NEW w \in Worker, Take(w) PROVE Spent'
  <2> DEFINE h == Head(queue)
  <2>1. /\ wpc[w] = "idle" /\ job' = [job EXCEPT ![w] = {h}]
        /\ wpc' = [wpc EXCEPT ![w] = "running"] /\ UNCHANGED <<future, taken>>
    BY <1>3 DEF Take
  <2>2. queue \in Seq(Message) /\ queue # <<>> /\ Distinct(queue)
    BY <1>3 DEF IInv, TypeOK, DaemonTypeOK, InPool, Take
  <2>3. h \in Elems(queue)
    BY <2>2, TakeHead
  <2>4. future[h.call] = "pending" /\ \A v \in Worker : Held(v) => h \notin job[v]
    BY <2>3 DEF IInv, InPool
  <2> HIDE DEF h
  <2>5. \A v \in Worker : wpc[v] # "idle" => h \notin job[v]
    <3> SUFFICES ASSUME NEW v \in Worker, wpc[v] = "dead" PROVE h \notin job[v]
      BY <1>t, <2>4 DEF Held
    <3> QED  BY <2>4 DEF Spent
  <2> QED  BY <1>t, <2>1, <2>5 DEF Spent
<1>4. ASSUME NEW w \in Worker, Complete(w) PROVE Spent'
  <2>1. PICK m \in job[w] :
          /\ future' = [future EXCEPT ![m.call] = IF m.call \in Fatal THEN "fatal" ELSE "done"]
          /\ \/ wpc' = [wpc EXCEPT ![w] = "callback"] /\ UNCHANGED job
             \/ /\ wpc' = [wpc EXCEPT ![w] = "idle"]
                /\ job' = [job EXCEPT ![w] = {}]
    BY <1>4 DEF Complete
  <2>2. wpc[w] = "running" /\ future[m.call] = "pending" /\ taken' = taken
    BY <1>4, <2>1 DEF Complete, IInv, InPool
  <2>3. \A v \in Worker : wpc'[v] # "idle" => wpc[v] # "idle" /\ job'[v] = job[v]
    BY <1>t, <2>1, <2>2
  <2>4. \A v \in Worker : wpc'[v] = "dead" => wpc[v] = "dead"
    BY <1>t, <2>1
  <2>5. \A k \in taken : future[k.call] = "fatal" => future'[k.call] = "fatal"
    BY <1>t, <2>1, <2>2 DEF Message
  <2> QED  BY <2>2, <2>3, <2>4, <2>5 DEF Spent
<1>5. ASSUME NEW w \in Worker, WorkerReply(w) PROVE Spent'
  <2>1. PICK m \in job[w] :
          \/ wpc' = [wpc EXCEPT ![w] = "idle"] /\ job' = [job EXCEPT ![w] = {}]
          \/ future[m.call] = "fatal" /\ wpc' = [wpc EXCEPT ![w] = "dead"] /\ job' = job
    BY <1>5 DEF WorkerReply
  <2>2. wpc[w] = "callback" /\ UNCHANGED <<future, taken>>
    BY <1>5 DEF WorkerReply
  <2>3. \A v \in Worker : wpc'[v] # "idle" => wpc[v] # "idle" /\ job'[v] = job[v]
    BY <1>t, <2>1, <2>2
  <2>4. \A v \in Worker : wpc'[v] = "dead" =>
           wpc[v] = "dead" \/ (v = w /\ future[m.call] = "fatal" /\ job[w] = {m} /\ m \in taken)
    BY <1>t, <1>h, <2>1, <2>2
  <2> QED  BY <2>2, <2>3, <2>4 DEF Spent
<1> QED  BY <1>2, <1>3, <1>4, <1>5 DEF DaemonNext, WorkerStep

\* A function that was entered stays entered.
LEMMA FatalStays ==
    ASSUME IInv, FatalRan, DaemonNext \/ UNCHANGED daemonVars \/ ClientDies
    PROVE  FatalRan'
<1>1. CASE executed' = executed
  BY <1>1 DEF FatalRan
<1>2. ASSUME NEW w \in Worker, Take(w) PROVE FatalRan'
  <2> DEFINE h == Head(queue)
  <2>1. /\ h.call \in Call /\ executed[h.call] = 0
        /\ executed' = [executed EXCEPT ![h.call] = IF h.call \in NoFunction THEN 0 ELSE 1]
    BY <1>2, TakeRuns
  <2> HIDE DEF h
  <2>2. PICK c \in Fatal : executed[c] # 0
    BY DEF FatalRan
  <2>3. executed'[c] # 0
    BY <2>1, <2>2, WorkTypes
  <2> QED  BY <2>3 DEF FatalRan
<1>3. CASE MainStep \/ ExitEscapes \/ Crash \/ Log \/ UNCHANGED daemonVars \/ ClientDies
  BY <1>1, <1>3 DEF MainStep, Accept, LoopError, LoopEof, AddCallback, InlineReply, Exit,
                    ExitEscapes, Crash, Gone, Log, ClientDies, daemonVars
<1>4. ASSUME NEW w \in Worker, Complete(w) \/ WorkerReply(w) PROVE FatalRan'
  BY <1>1, <1>4 DEF Complete, WorkerReply
<1> QED  BY <1>2, <1>3, <1>4 DEF DaemonNext, WorkerStep

\* The main thread reads to the end of its stream.
LEMMA ReadAllStep == IdleInv /\ ReadAll /\ [Next]_vars => ReadAll'
<1> SUFFICES ASSUME IdleInv, ReadAll, [Next]_vars PROVE ReadAll'
  OBVIOUS
<1>1. IInv /\ CleanEnd /\ Ran /\ Ends
  BY DEF IdleInv, Kept
<1>2. FatalRan => FatalRan'
  BY <1>1, FatalStays DEF Next, Collect, CloseWrite, Request, vars
<1>3. ASSUME main = "ended", c2s' = c2s \/ (chan = "open"), chan # "open" => chan' # "open",
             client # "alive" => client' # "alive"
      PROVE  ReadAll'
  BY <1>2, <1>3 DEF ReadAll
<1>4. CASE LoopError
  BY <1>1, <1>4 DEF LoopError, CleanEnd, ReadAll
<1>5. CASE LoopEof
  BY <1>5 DEF LoopEof, StreamEnded, wireVars, ReadAll
<1>6. CASE InlineReply
  <2>1. PICK m \in cur : main' = "reading" \/ (main' = Raised /\ future[m.call] = "fatal")
    BY <1>6 DEF InlineReply
  <2>2. m.call \in Call
    BY <1>1, WorkTypes DEF Message
  <2> QED  BY <1>1, <1>2, <2>1, <2>2, FatalEntered DEF ReadAll
<1>7. CASE Accept \/ AddCallback \/ Exit \/ ExitEscapes \/ Crash
  BY <1>7 DEF Accept, AddCallback, Exit, ExitEscapes, Crash, Gone, ReadAll
<1>8. CASE Log \/ ClientDies \/ Collect \/ CloseWrite \/ (\E m : Request(m)) \/ UNCHANGED vars
  <2>1. main' = main
    BY <1>8 DEF Log, ClientDies, Collect, CloseWrite, Request, vars, daemonVars
  <2>2. /\ c2s' = c2s \/ chan = "open"
        /\ chan # "open" => chan' # "open"
        /\ client # "alive" => client' # "alive"
    BY <1>8 DEF Log, ClientDies, Collect, CloseWrite, Request, CanWrite, vars, daemonVars, wireVars
  <2> QED  BY <1>3, <2>1, <2>2 DEF ReadAll
<1>9. ASSUME NEW w \in Worker, WorkerStep(w) PROVE ReadAll'
  <2>1. UNCHANGED <<main, c2s, chan, client>>
    BY <1>9 DEF WorkerStep, Take, Complete, WorkerReply, wireVars
  <2> QED  BY <1>3, <2>1 DEF ReadAll
<1> QED
  BY <1>4, <1>5, <1>6, <1>7, <1>8, <1>9 DEF Next, DaemonNext, MainStep

\* PoolInv holds in every reachable state.
LEMMA PoolInvariance == Spec => []PoolInv
<1>1. Init => Spent /\ ReadAll
  BY DEF Init, DaemonInit, Spent, ReadAll
<1>2. IdleInv /\ Spent /\ ReadAll /\ [Next]_vars => Spent' /\ ReadAll'
  <2> SUFFICES ASSUME IdleInv, Spent, ReadAll, [Next]_vars PROVE Spent'
    BY ReadAllStep
  <2> QED  BY SpentStep DEF IdleInv, Next, Collect, CloseWrite, Request, vars
<1> QED  BY <1>1, <1>2, IdleInvariance, PTL DEF PoolInv, Spec

\* A used up pool has a culprit for each thread.
LEMMA OneEach ==
    ASSUME IdleInv, Spent, PoolUsedUp
    PROVE  \E f \in [Worker -> Culprits] : \A v, w \in Worker : f[v] = f[w] => v = w
<1>1. ASSUME NEW w \in Worker
      PROVE  /\ wpc[w] # "idle"
             /\ \E m \in taken : job[w] = {m} /\ m.call \in Culprits
  <2>1. CASE wpc[w] = "dead"
    <3>1. PICK m \in taken : job[w] = {m} /\ future[m.call] = "fatal"
      BY <2>1 DEF Spent
    <3>2. m.call \in Call
      BY WorkTypes DEF IdleInv, Message
    <3>3. m.call \in Fatal
      BY <3>1, <3>2 DEF IdleInv, Kept, Ends
    <3>4. executed[m.call] = 1
      BY <3>1, <3>2, <3>3, DaemonAssumption DEF IdleInv, Kept, Ran
    <3> QED  BY <2>1, <3>1, <3>3, <3>4 DEF Culprits
  <2>2. CASE wpc[w] = "running" /\ \E m \in job[w] : m.call \in Hanging
    <3>1. PICK m \in taken : job[w] = {m}
      BY <2>2 DEF IdleInv, IInv, InPool, Held
    <3>2. executed[m.call] = 1
      BY <2>2, <3>1, DaemonAssumption DEF IdleInv, Kept, Ran
    <3> QED  BY <2>2, <3>1, <3>2 DEF Culprits
  <2> QED  BY <2>1, <2>2 DEF PoolUsedUp
<1>2. \A k, m \in taken : k.call = m.call => k = m
  BY DEF IdleInv, IInv, Arrival
<1> DEFINE Blame == [w \in Worker |-> (CHOOSE m \in taken : job[w] = {m}).call]
<1>3. ASSUME NEW w \in Worker
      PROVE  \E m \in taken : job[w] = {m} /\ Blame[w] = m.call /\ m.call \in Culprits
  <2>1. PICK m \in taken : job[w] = {m} /\ m.call \in Culprits
    BY <1>1
  <2>2. (CHOOSE k \in taken : job[w] = {k}) = m
    BY <2>1
  <2> QED  BY <2>1, <2>2
<1>4. Blame \in [Worker -> Culprits]
  BY <1>3
<1>5. ASSUME NEW v \in Worker, NEW w \in Worker, Blame[v] = Blame[w] PROVE v = w
  <2>1. job[v] = job[w]
    BY <1>2, <1>3, <1>5
  <2> QED  BY <1>1, <2>1 DEF Spent
<1> HIDE DEF Blame
<1> QED  BY <1>4, <1>5

(***************************************************************************)
(* The pool of a daemon survives all but as many functions as it has       *)
(* threads: executor threads that an exception ends are not replaced, and  *)
(* a function that hangs keeps its thread, but no function costs two, and  *)
(* none costs a thread without having run.                                 *)
(***************************************************************************)
THEOREM PoolSurvives ==
    Spec => [](IsFiniteSet(Culprits) /\ PoolUsedUp =>
                   Cardinality(Worker) <= Cardinality(Culprits))
<1>1. PoolInv => (IsFiniteSet(Culprits) /\ PoolUsedUp =>
                     Cardinality(Worker) <= Cardinality(Culprits))
  <2> SUFFICES ASSUME PoolInv, IsFiniteSet(Culprits), PoolUsedUp
               PROVE  Cardinality(Worker) <= Cardinality(Culprits)
    OBVIOUS
  <2>1. PICK f \in [Worker -> Culprits] : \A v, w \in Worker : f[v] = f[w] => v = w
    BY OneEach DEF PoolInv
  <2>2. f \in Injection(Worker, Culprits)
    BY <2>1, Fun_IsInj
  <2> QED  BY <2>2, FS_Injection
<1> QED  BY <1>1, PoolInvariance, PTL
=============================================================================
