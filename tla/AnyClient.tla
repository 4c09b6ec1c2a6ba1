------------------------------ MODULE AnyClient ------------------------------
(***************************************************************************)
(* Daemon against any client: it writes requests, each under a new id,     *)
(* reads whatever the daemon writes, half-closes the socket or dies, in    *)
(* any order and at any moment.  The daemon only copies the ids, which are *)
(* numbered in the order in which they are drawn.                          *)
(***************************************************************************)
EXTENDS Daemon

VARIABLE sent    \* the requests written so far

vars == <<daemonVars, wireVars, sent>>

Request(m) == /\ client = "alive" /\ CanWrite /\ Room(c2s)
              /\ \A r \in sent : r.call # m.call /\ r.id < m.id
              /\ sent' = sent \cup {m}
              /\ c2s' = Append(c2s, m)
              /\ UNCHANGED <<daemonVars, s2c, chan, peer, emitted>>

Collect == /\ client = "alive" /\ s2c # <<>>
           /\ s2c' = Tail(s2c)
           /\ UNCHANGED <<daemonVars, c2s, chan, peer, emitted, sent>>

\* close(): the write half, and then the reader thread, which is nothing to the daemon.
CloseWrite == /\ client = "alive"
              /\ \/ chan = "open" /\ chan' = "shut"
                 \/ chan = "shut" /\ chan' = "joined"
              /\ UNCHANGED <<daemonVars, c2s, s2c, peer, emitted, sent>>

Init == DaemonInit /\ WireInit /\ sent = {}

Next == \/ DaemonNext /\ UNCHANGED sent
        \/ ClientDies /\ UNCHANGED sent
        \/ Collect \/ CloseWrite
        \/ \E id \in MsgId, c \in Call : Request([id |-> id, call |-> c])

Spec == Init /\ [][Next]_vars

(***************************************************************************)
(* Fairness.  The operating system runs every thread of the daemon that    *)
(* can move, and a living client reads.  A function that is not Hanging    *)
(* returns.                                                                *)
(***************************************************************************)
Fairness == /\ WF_vars(MainStep /\ UNCHANGED sent)
            /\ \A w \in Worker : WF_vars(WorkerStep(w) /\ UNCHANGED sent)
            /\ WF_vars(Collect)

FairSpec == Spec /\ Fairness

-----------------------------------------------------------------------------
TypeOK == DaemonTypeOK /\ WireTypeOK /\ sent \in SUBSET Message

(***************************************************************************)
(* A request is executed at most once and answered at most once, although  *)
(* two threads may find themselves with its callback: the pool thread that *)
(* finishes the future and the main thread that registers the callback.    *)
(***************************************************************************)
ServedOnce == \A c \in Call : executed[c] <= 1 /\ answered[c] <= 1

(***************************************************************************)
(* The other outcome of the same race: a finished future always has a      *)
(* thread that holds its callback, until the reply is written.             *)
(***************************************************************************)
AnswerOwed ==
    \A m \in taken : future[m.call] = "done" /\ answered[m.call] = 0 =>
        \/ m \in cur
        \/ \E w \in Worker : wpc[w] = "callback" /\ m \in job[w]
        \/ commErr # "none"

(***************************************************************************)
(* A daemon started by the helper answers all it has read before it exits: *)
(* sys.exit joins the pool, whose threads finish the queue first.  Only a  *)
(* pool whose every thread was ended by a function leaves requests behind. *)
(***************************************************************************)
DrainsBeforeExit ==
    [][Exit /\ Method = "ROOTWRAP" /\ client = "alive" =>
          \/ \A w \in Worker : wpc[w] = "dead"
          \/ \A m \in taken : answered[m.call] = 1 \/ future[m.call] = "fatal"]_vars

(***************************************************************************)
(* A daemon in which every thread waits, and none for room in the socket,  *)
(* has answered all it has read, but what a function has kept: one that    *)
(* hangs, or that raised SystemExit.  With one thread of the pool left, no *)
(* request lies in the queue or in a callback that nobody will run.        *)
(***************************************************************************)
IdleIsDone ==
    /\ DaemonWaits /\ main # "exited" /\ client = "alive" /\ Room(s2c)
    /\ \E w \in Worker : wpc[w] = "idle"
    => \A m \in taken : \/ answered[m.call] = 1
                        \/ m.call \in Fatal \cup Hanging /\ executed[m.call] = 1

(***************************************************************************)
(* A request that was read is executed and answered as long as the two     *)
(* processes live: no request is forgotten in the queue, in a callback or  *)
(* behind a full socket.  A function that raises SystemExit gets no answer *)
(* and costs one pool thread, which the requests of others must survive.   *)
(***************************************************************************)
RequestAnswered ==
    \A c \in Call \ Fatal : (\E m \in taken : m.call = c)
                    ~> (answered[c] = 1 \/ client # "alive" \/ main = "exited")

(***************************************************************************)
(* daemon.py:41-43: "The privsep daemon exits when the communication       *)
(* channel is closed".                                                     *)
(***************************************************************************)
ExitsOnClose == (chan # "open" \/ client # "alive") ~> (main = "exited")
=============================================================================
