------------------------------ MODULE Privsep ------------------------------
(***************************************************************************)
(* The two processes: the threads of ClientChannel on one end of the       *)
(* socket, the threads of Daemon on the other.                             *)
(*                                                                         *)
(* Privsep implements AnyPeer and AnyClient, so every safety property of   *)
(* theirs holds of ClientChannel with this daemon and of the daemon with   *)
(* ClientChannel, and it implements RemoteCall, the promise made to the    *)
(* caller of an entrypoint.                                                *)
(***************************************************************************)
EXTENDS ClientChannel, Daemon, FiniteSets

CONSTANT Ping    \* the call of exchange_ping

ASSUME PrivsepAssumption == Ping \in NoFunction \ (Timed \cup Unserializable)

vars == <<clientVars, daemonVars, wireVars>>

Init == ClientInit /\ DaemonInit /\ WireInit

\* _ClientChannel.__init__ returns, and the channel is used, after the PONG.
Ready == pc[Ping] = "reply"

Request(c) == Register(c) /\ (c = Ping \/ Ready)

ClientStep == /\ client = "alive"
              /\ \/ \E c \in Call : Request(c) \/ CallerStep(c)
                 \/ ReaderStep
                 \/ Ready /\ Close
                 \/ Join
              /\ UNCHANGED daemonVars

DaemonStep == DaemonNext /\ UNCHANGED clientVars

Death == ClientDies /\ UNCHANGED clientVars

Next == ClientStep \/ DaemonStep \/ Death

Spec == Init /\ [][Next]_vars

(***************************************************************************)
(* Fairness: every thread that can move does, timeouts elapse, functions   *)
(* that are not Hanging return.  No call, close, log record or death is    *)
(* ever owed.                                                              *)
(***************************************************************************)
Alive(step) == client = "alive" /\ step /\ UNCHANGED daemonVars

Fairness == /\ \A c \in Call : WF_vars(Alive(CallerStep(c)))
            /\ WF_vars(Alive(ReaderStep))
            /\ WF_vars(Alive(Join))
            /\ WF_vars(MainStep /\ UNCHANGED clientVars)
            /\ \A w \in Worker : WF_vars(WorkerStep(w) /\ UNCHANGED clientVars)

FairSpec == Spec /\ Fairness

-----------------------------------------------------------------------------
(***************************************************************************)
(* Refinement.  The peer of AnyPeer owes what the daemon has read from the *)
(* socket and not answered, wherever that request is: in loop(), in the    *)
(* pool's queue, in a thread, in a callback, or lost.                      *)
(***************************************************************************)
Unanswered == {m \in taken : answered[m.call] = 0}

Peer == INSTANCE AnyPeer WITH pending <- Unanswered

\* The daemon answers each request at most once, to the msgid it came with.
ImplementsAnyPeer == Peer!Spec

(***************************************************************************)
(* To the daemon the client is one of AnyClient: what it has requested is  *)
(* what lies in the socket, or was read from it.                           *)
(***************************************************************************)
Written == taken \cup {c2s[i] : i \in 1 .. Len(c2s)}

Client == INSTANCE AnyClient WITH sent <- Written

\* The client writes each call's request at most once, under an id of its own,
\* and takes whatever the daemon writes until the socket ends.
ImplementsAnyClient == Client!Spec

CallStatus(c) == CASE pc[c] = "idle" -> "idle"
                   [] pc[c] \in InCall -> "open"
                   [] pc[c] = "reply" -> "returned"
                   [] OTHER -> "failed"

Promise == INSTANCE RemoteCall WITH
               Refused <- NoFunction,
               Unsent <- Unserializable,
               status <- [c \in Call |-> CallStatus(c)],
               ran <- executed

\* A function runs at most once, and before its call returns.
ImplementsRemoteCall == Promise!Spec

(***************************************************************************)
(* Every send_recv returns, unless the reader thread dies of ECONNRESET or *)
(* the client process itself ends.  It takes as many calls as the two      *)
(* FIFOs, the lock and the main thread can hold to make it fail: see       *)
(* TimedCallReturns.                                                       *)
(***************************************************************************)
CallReturns ==
    [](reader # "crashed" /\ client = "alive") =>
        \A c \in Call : (pc[c] = "sending") ~> (pc[c] \in Outcome)

(***************************************************************************)
(* close() returns: half-closing the socket makes the daemon end, with     *)
(* calls in flight or not, and that ends the reader thread being joined.   *)
(***************************************************************************)
CloseReturns == (chan = "shut") ~> (chan = "joined" \/ client # "alive")

(***************************************************************************)
(* index.rst:50: "PrivsepTimeout is raised if timeout is reached".  A call *)
(* with a timeout ends, whatever the daemon is doing.                      *)
(***************************************************************************)
TimedCallReturns ==
    \A c \in Timed : (pc[c] = "sending") ~> (pc[c] \in Outcome \/ client # "alive")

-----------------------------------------------------------------------------
(***************************************************************************)
(* Deadlock: no thread of either process can move, and a call or close()   *)
(* has not returned.  The client lives, its reader thread did not crash,   *)
(* and no function has hung or ended a thread of the daemon.               *)
(***************************************************************************)
Quiet == /\ \A c \in Call : CallerWaits(c)
         /\ ReaderWaits /\ CloserWaits /\ DaemonWaits

Deadlock == /\ client = "alive" /\ reader # "crashed" /\ Quiet
            /\ \A c \in Fatal \cup Hanging : executed[c] = 0
            /\ chan = "shut" \/ \E c \in Call : pc[c] \in InCall

(***************************************************************************)
(* A caller is in sendall and has the lock; the reader thread needs the    *)
(* lock for the reply that it has read; the daemon's main thread, which    *)
(* should read the requests, is in sendall with a reply of its own.        *)
(***************************************************************************)
Gridlock == /\ \E c \in Call : InSendall(c)
            /\ reader = "reading" /\ ReplyNext
            /\ main = "inline" /\ \E m \in cur : ReplyBlocked(m)

\* The calls that are being made, or were given up after a timeout.
Busy == {c \in Call : pc[c] \in InCall \cup {"timeout"}}

Replies == {i \in DOMAIN s2c : s2c[i].id # NoMsgId}

(***************************************************************************)
(* The lock held across sendall (comm.py:203) and the callback run by the  *)
(* main thread (daemon.py:626) can stop everybody, but not with fewer      *)
(* calls than fill both directions of the socket, with one in the hands of *)
(* each of the two blocked writers.                                        *)
(***************************************************************************)
DeadlockTakesMany ==
    Deadlock => Cardinality(Busy) >= Capacity + 2 + Cardinality(Replies)
=============================================================================
