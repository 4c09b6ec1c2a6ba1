------------------------------- MODULE Daemon -------------------------------
(***************************************************************************)
(* daemon.Daemon: the main thread, which runs loop(), and the threads of   *)
(* its ThreadPoolExecutor, which run _process_cmd and, usually, the done   *)
(* callback that writes the reply.  When a future is finished before       *)
(* loop() gets to add_done_callback, the callback runs in the main thread. *)
(* The lifetime of the process is part of it: a daemon started by fork()   *)
(* ends with os._exit, one started by the helper with sys.exit, which      *)
(* joins the pool.                                                         *)
(*                                                                         *)
(* channel.send is one step, taken when the FIFO has room: wlock lets one  *)
(* thread at a time into sendall.                                          *)
(***************************************************************************)
EXTENDS Wire

CONSTANTS Worker,       \* the threads of the pool: thread_pool_size of them
          Method,       \* priv_context.Method: how the daemon was started
          NoFunction,   \* requests that run none: PING, names not exported
          Fatal,        \* calls whose function raises SystemExit or the like
          Hanging       \* calls whose function never returns

ASSUME DaemonAssumption == /\ Worker # {}
                           /\ Method \in {"FORK", "ROOTWRAP"}
                           /\ NoFunction \subseteq Call
                           /\ Fatal \subseteq Call \ NoFunction
                           /\ Hanging \subseteq Call \ NoFunction

VARIABLES main,       \* the main thread
          cur,        \* {} or the request that loop() has in hand
          queue,      \* the pool's work queue
          wpc, job,   \* each pool thread, and {} or the request it serves
          future,     \* the concurrent.futures.Future of each call
          hooked,     \* calls whose callback a pool thread will run
          commErr,    \* self.communication_error
          client,     \* the client process: alive, or how recv reports its end
          taken,      \* history: the requests read from the socket
          executed,   \* history: how often each call's function was entered
          answered    \* history: how many replies to each call were written

daemonVars == <<main, cur, queue, wpc, job, future, hooked, commErr, client,
                taken, executed, answered>>

DaemonInit == /\ main = "reading"
              /\ cur = {}
              /\ queue = <<>>
              /\ wpc = [w \in Worker |-> "idle"]
              /\ job = [w \in Worker |-> {}]
              /\ future = [c \in Call |-> "pending"]
              /\ hooked = {}
              /\ commErr = "none"
              /\ client = "alive"
              /\ taken = {}
              /\ executed = [c \in Call |-> 0]
              /\ answered = [c \in Call |-> 0]

DaemonTypeOK ==
    /\ main \in {"reading", "submitted", "inline", "ended", "escaped", "exited"}
    /\ cur \in SUBSET Message
    /\ queue \in Seq(Message)
    /\ wpc \in [Worker -> {"idle", "running", "callback", "dead"}]
    /\ job \in [Worker -> SUBSET Message]
    /\ future \in [Call -> {"pending", "done", "fatal"}]
    /\ hooked \in SUBSET Call
    /\ commErr \in {"none", "EPIPE", "other"}
    /\ client \in {"alive", "closed", "reset"}
    /\ taken \in SUBSET Message
    /\ executed \in [Call -> Nat]
    /\ answered \in [Call -> Nat]

-----------------------------------------------------------------------------
(* loop: the main thread *)

\* An exception that leaves loop().  helper_main ends the process; in the child
\* of fork() it also leaves Daemon.run, past os._exit, and __init__ of the
\* ForkingClientChannel: the child goes on in the caller's code.
Raised == IF Method = "FORK" THEN "escaped" ELSE "ended"

\* One turn up to thread_pool.submit.
Accept == /\ main = "reading" /\ c2s # <<>> /\ commErr = "none"
          /\ c2s' = Tail(c2s)
          /\ cur' = {Head(c2s)}
          /\ taken' = taken \cup {Head(c2s)}
          /\ queue' = Append(queue, Head(c2s))
          /\ main' = "submitted"
          /\ UNCHANGED <<wpc, job, future, hooked, commErr, client, executed,
                         answered, s2c, chan, peer, emitted>>

\* A callback met a write error: the next request is dropped and the loop left.
LoopError == /\ main = "reading" /\ c2s # <<>> /\ commErr # "none"
             /\ c2s' = Tail(c2s)
             /\ taken' = taken \cup {Head(c2s)}
             /\ main' = IF commErr = "EPIPE" THEN "ended" ELSE Raised
             /\ UNCHANGED <<cur, queue, wpc, job, future, hooked, commErr, client,
                            executed, answered, s2c, chan, peer, emitted>>

\* Wrong on purpose: only the death of the client process is noticed.
StreamEndedByDeath == c2s = <<>> /\ client # "alive"

\* Nothing is left to read, and nothing will come.
StreamEnded == c2s = <<>> /\ (chan # "open" \/ client # "alive")

\* recv returned b'' (SHUT_WR, or the client process is gone) or ECONNRESET.
LoopEof == /\ main = "reading" /\ StreamEnded
           /\ main' = IF client = "reset" THEN Raised ELSE "ended"
           /\ UNCHANGED <<cur, queue, wpc, job, future, hooked, commErr, client,
                          taken, executed, answered, wireVars>>

\* Wrong on purpose: a callback is registered on a finished future.
NeverFinished(m) == FALSE

\* The future's state, read under its condition variable.
Finished(m) == future[m.call] # "pending"

\* add_done_callback: registered, or called at once on a finished future.
AddCallback ==
    /\ main = "submitted"
    /\ \E m \in cur :
          IF Finished(m)
          THEN main' = "inline" /\ UNCHANGED <<hooked, cur>>
          ELSE /\ hooked' = hooked \cup {m.call}
               /\ cur' = {}
               /\ main' = "reading"
    /\ UNCHANGED <<queue, wpc, job, future, commErr, client, taken, executed,
                   answered, wireVars>>

-----------------------------------------------------------------------------
(* _call_back *)

\* A send to a client that is gone: EPIPE, but a sender that was blocked when
\* the client's end was closed over unread replies gets ECONNRESET.
WriteErrors == IF client = "reset" /\ ~Room(s2c) THEN {"EPIPE", "other"}
                                                 ELSE {"EPIPE"}

\* The reply is written, or the failure noted.  A result that msgpack cannot
\* pack is replaced by an ERR reply: still one reply.
SendReply(m) ==
    \/ /\ client = "alive" /\ Room(s2c)
       /\ s2c' = Append(s2c, m)
       /\ answered' = [answered EXCEPT ![m.call] = @ + 1]
       /\ UNCHANGED commErr
    \/ /\ client # "alive"
       /\ commErr' \in WriteErrors
       /\ UNCHANGED <<s2c, answered>>

\* result.result() raises what the function raised, and only Exception is caught.
InlineReply ==
    /\ main = "inline"
    /\ \E m \in cur :
          \/ /\ future[m.call] = "done"
             /\ SendReply(m)
             /\ cur' = {} /\ main' = "reading"
          \/ /\ future[m.call] = "fatal"
             /\ main' = Raised
             /\ UNCHANGED <<cur, s2c, answered, commErr>>
    /\ UNCHANGED <<queue, wpc, job, future, hooked, client, taken, executed, c2s,
                   chan, peer, emitted>>

\* In a pool thread the exception ends the thread, which is not replaced.
WorkerReply(w) ==
    /\ main # "exited" /\ wpc[w] = "callback"
    /\ \E m \in job[w] :
          \/ /\ future[m.call] = "done"
             /\ SendReply(m)
             /\ wpc' = [wpc EXCEPT ![w] = "idle"]
             /\ job' = [job EXCEPT ![w] = {}]
          \/ /\ future[m.call] = "fatal"
             /\ wpc' = [wpc EXCEPT ![w] = "dead"]
             /\ UNCHANGED <<job, s2c, answered, commErr>>
    /\ UNCHANGED <<main, cur, queue, future, hooked, client, taken, executed, c2s,
                   chan, peer, emitted>>

-----------------------------------------------------------------------------
(* _process_cmd: the threads of the pool *)

\* The next work item: its function is entered, if it names an entrypoint.
Take(w) == /\ main # "exited" /\ wpc[w] = "idle" /\ queue # <<>>
           /\ job' = [job EXCEPT ![w] = {Head(queue)}]
           /\ wpc' = [wpc EXCEPT ![w] = "running"]
           /\ queue' = Tail(queue)
           /\ executed' = [executed EXCEPT ![Head(queue).call] =
                             IF Head(queue).call \in NoFunction THEN @ ELSE @ + 1]
           /\ UNCHANGED <<main, cur, future, hooked, commErr, client, taken,
                          answered, wireVars>>

\* The requests that a thread is executing or answering.
InHand == (UNION {job[w] : w \in {v \in Worker : wpc[v] \in {"running", "callback"}}})
          \cup (IF main = "inline" THEN cur ELSE {})

\* PrivsepLogHandler.emit, in such a thread.  Bound: at most once for each call.
Log == /\ main # "exited" /\ client = "alive" /\ Room(s2c)
       /\ \E m \in InHand : /\ m.call \in Logging \ emitted
                            /\ emitted' = emitted \cup {m.call}
                            /\ s2c' = Append(s2c, LogRecord(m.call))
       /\ UNCHANGED <<daemonVars, c2s, chan, peer>>

\* Wrong on purpose: the thread calls back although loop() may do it, too.
AlwaysHooked(m) == TRUE

\* There is a callback to invoke.
Hooked(m) == m.call \in hooked

\* It returns or raises: set_result or set_exception, and the callback if
\* there is one by now.
Complete(w) ==
    /\ main # "exited" /\ wpc[w] = "running"
    /\ \E m \in job[w] :
          /\ m.call \notin Hanging
          /\ future' = [future EXCEPT ![m.call] =
                           IF m.call \in Fatal THEN "fatal" ELSE "done"]
          /\ IF Hooked(m)
             THEN wpc' = [wpc EXCEPT ![w] = "callback"] /\ UNCHANGED job
             ELSE /\ wpc' = [wpc EXCEPT ![w] = "idle"]
                  /\ job' = [job EXCEPT ![w] = {}]
    /\ UNCHANGED <<main, cur, queue, hooked, commErr, client, taken, executed,
                   answered, wireVars>>

-----------------------------------------------------------------------------
(* The end of the daemon process *)

\* Wrong on purpose: the threads that still work are not waited for.
QueueEmptied == queue = <<>>

\* What sys.exit waits for: pool threads drain the queue before they end.
PoolJoined == \/ queue = <<>> /\ \A w \in Worker : wpc[w] \in {"idle", "dead"}
              \/ \A w \in Worker : wpc[w] = "dead"

Gone == /\ main' = "exited"
        /\ PeerEnds
        /\ UNCHANGED <<cur, queue, wpc, job, future, hooked, commErr, client,
                       taken, executed, answered, c2s, s2c, chan, emitted>>

Exit == main = "ended" /\ (Method = "FORK" \/ PoolJoined) /\ Gone

\* After loop() come debug records; emit raises when the client is gone.
ExitEscapes == /\ main = "ended" /\ client # "alive" /\ Method = "FORK"
               /\ main' = "escaped"
               /\ UNCHANGED <<cur, queue, wpc, job, future, hooked, commErr,
                              client, taken, executed, answered, wireVars>>

\* Killed, at any moment.
Crash == main # "exited" /\ Gone

\* The client process ends: its sockets are closed with whatever is unread.
ClientDies == /\ client = "alive"
              /\ client' \in IF s2c = <<>> THEN {"closed"} ELSE {"closed", "reset"}
              /\ UNCHANGED <<main, cur, queue, wpc, job, future, hooked, commErr,
                             taken, executed, answered, wireVars>>

-----------------------------------------------------------------------------
MainStep == \/ Accept \/ LoopError \/ LoopEof \/ AddCallback \/ InlineReply \/ Exit

WorkerStep(w) == Take(w) \/ Complete(w) \/ WorkerReply(w)

DaemonNext == \/ MainStep \/ ExitEscapes \/ Crash \/ Log
              \/ \E w \in Worker : WorkerStep(w)

-----------------------------------------------------------------------------
(***************************************************************************)
(* Where a thread of the daemon waits, that is, can take no step of its    *)
(* own: MainStep and WorkerStep(w) are then not ENABLED.                   *)
(***************************************************************************)
\* In sendall, with a reply: the socket's buffer is full.
ReplyBlocked(m) == future[m.call] = "done" /\ client = "alive" /\ ~Room(s2c)

MainWaits == \/ main = "reading" /\ c2s = <<>> /\ ~StreamEnded
             \/ main = "inline" /\ \E m \in cur : ReplyBlocked(m)
             \/ main = "ended" /\ Method # "FORK" /\ ~PoolJoined
             \/ main \in {"escaped", "exited"}

WorkerWaits(w) == \/ wpc[w] = "idle" /\ queue = <<>>
                  \/ wpc[w] = "running" /\ \E m \in job[w] : m.call \in Hanging
                  \/ wpc[w] = "callback" /\ \E m \in job[w] : ReplyBlocked(m)
                  \/ wpc[w] = "dead"
                  \/ main = "exited"

DaemonWaits == MainWaits /\ \A w \in Worker : WorkerWaits(w)
=============================================================================
