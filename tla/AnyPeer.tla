------------------------------- MODULE AnyPeer -------------------------------
(***************************************************************************)
(* ClientChannel against any peer that keeps the protocol: it reads the    *)
(* requests in order, answers each at most once and in any order, may log  *)
(* on behalf of a request it has not answered yet, and may end at any      *)
(* moment.  Daemon is one such peer (module Privsep shows it), so what     *)
(* holds here does not depend on how the daemon schedules its work.        *)
(***************************************************************************)
EXTENDS ClientChannel

VARIABLE pending    \* requests the peer has read and not answered

vars == <<clientVars, wireVars, pending>>

PeerRead == /\ peer = "up" /\ c2s # <<>>
            /\ pending' = pending \cup {Head(c2s)}
            /\ c2s' = Tail(c2s)
            /\ UNCHANGED <<clientVars, s2c, chan, peer, emitted>>

\* Wrong on purpose: the reply overtakes the log records.
PeerReplyFirst(m) == /\ peer = "up" /\ m \in pending /\ Room(s2c)
                     /\ pending' = pending \ {m}
                     /\ s2c' = <<m>> \o s2c
                     /\ UNCHANGED <<clientVars, c2s, chan, peer, emitted>>

PeerReply(m) == /\ peer = "up" /\ m \in pending /\ Room(s2c)
                /\ pending' = pending \ {m}
                /\ s2c' = Append(s2c, m)
                /\ UNCHANGED <<clientVars, c2s, chan, peer, emitted>>

\* Bound: at most one log record for each request.
PeerLog(m) == /\ peer = "up" /\ m \in pending /\ Room(s2c)
              /\ m.call \in Logging \ emitted
              /\ emitted' = emitted \cup {m.call}
              /\ s2c' = Append(s2c, LogRecord(m.call))
              /\ UNCHANGED <<clientVars, c2s, chan, peer, pending>>

PeerExit == PeerEnds /\ UNCHANGED <<clientVars, c2s, s2c, chan, emitted, pending>>

Init == ClientInit /\ WireInit /\ pending = {}

Next == \/ ClientNext /\ UNCHANGED pending
        \/ PeerRead \/ PeerExit
        \/ \E m \in pending : PeerReply(m) \/ PeerLog(m)

Spec == Init /\ [][Next]_vars

(***************************************************************************)
(* Fairness.  A thread that holds the lock or could take it moves on, time *)
(* passes for a waiter with a timeout, and the peer serves what it has     *)
(* read.  Calls, close(), log records and the end of the peer are never    *)
(* owed: a daemon of the helper's whose function hangs does not end after  *)
(* close() (see ExitsOnClose of AnyClient).                                *)
(***************************************************************************)
Fairness == /\ \A c \in Call : WF_vars(CallerStep(c) /\ UNCHANGED pending)
            /\ WF_vars(ReaderStep /\ UNCHANGED pending)
            /\ WF_vars(Join /\ UNCHANGED pending)
            /\ WF_vars(PeerRead)
            /\ WF_vars(\E m \in pending : PeerReply(m))

FairSpec == Spec /\ Fairness

-----------------------------------------------------------------------------
TypeOK == ClientTypeOK /\ WireTypeOK /\ pending \in SUBSET Message

(***************************************************************************)
(* A call that returns a reply returns the reply to its own request, never *)
(* a late one that belongs to a call that timed out.  The demultiplexing   *)
(* of _reader_main by msgid, with the dict emptied in send_recv's finally. *)
(***************************************************************************)
OwnReply == \A c \in Call : pc[c] = "reply" => data[c] = {c}

(***************************************************************************)
(* outstanding_msgs holds exactly the calls that are inside send_recv: no  *)
(* outcome, not even a send that raised, leaves an entry behind.           *)
(***************************************************************************)
OutstandingExact == outstanding = {c \in Call : pc[c] \in InCall}

(***************************************************************************)
(* No lost wakeup: once the reader thread has handled EOF and set running  *)
(* to False, no thread waits any more, and none can start to wait, because *)
(* writes fail by then (comm.py:180-183).                                  *)
(***************************************************************************)
NoneStranded == reader = "stopped" => \A c \in Call : pc[c] # "waiting"

(***************************************************************************)
(* A thread that waits has something to wait for: its request is still to  *)
(* be read or to be answered, or its reply is still to be read.  No reply  *)
(* is consumed without waking the thread that registered its msgid.        *)
(***************************************************************************)
NeverForgotten ==
    \A c \in Call : pc[c] = "waiting" =>
        \/ \E i \in DOMAIN c2s : c2s[i].call = c
        \/ \E m \in pending : m.call = c
        \/ \E i \in DOMAIN s2c : s2c[i].call = c /\ s2c[i].id # NoMsgId

(***************************************************************************)
(* The log record that a request caused reaches the client's logger before *)
(* the call returns, since the same thread demultiplexes both.             *)
(***************************************************************************)
LoggedBeforeReply == \A c \in emitted : pc[c] = "reply" => c \in logged

(***************************************************************************)
(* Every send_recv returns or raises, if the reader thread is not ended by *)
(* an exception: by its reply, by EOF, by EPIPE or by its timeout.         *)
(***************************************************************************)
EveryCallReturns ==
    [](reader # "crashed") =>
        \A c \in Call : (pc[c] = "sending") ~> (pc[c] \in Outcome)

(***************************************************************************)
(* close() returns once the peer has ended, before the half close or after *)
(* it, cleanly or with requests unread, and whatever calls are in flight:  *)
(* the reader thread that it joins gets past the replies that nobody waits *)
(* for and past the lock.                                                  *)
(***************************************************************************)
CloseReturns == (chan = "shut" /\ peer # "up") ~> (chan = "joined")

(***************************************************************************)
(* comm.py:181-183: at EOF, "Send an IOError to any oustanding waiting     *)
(* readers".  A call that raises it was still waiting for its reply.       *)
(***************************************************************************)
EofOnlyWhileWaiting == \A c \in Call : pc[c] = "eof" => data[c] = {}

(***************************************************************************)
(* auto-restart-client-channel-619545294557bf2b.yaml:4: when the helper    *)
(* dies the context restarts it.  PrivContext learns of the death from     *)
(* running, so an ended peer must make the reader reset it.                *)
(***************************************************************************)
DeathNoticed == (peer # "up" /\ running) ~> ~running
=============================================================================
