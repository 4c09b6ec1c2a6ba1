---------------------------- MODULE ClientChannel ----------------------------
(***************************************************************************)
(* comm.ClientChannel and comm.Future: the threads of the unprivileged     *)
(* process that call send_recv, and the reader thread that demultiplexes   *)
(* the replies.  Both work under one lock, which is also the lock of every *)
(* Future's condition variable: send_recv keeps it from the registration   *)
(* of its msgid until Condition.wait gives it up.                          *)
(*                                                                         *)
(* Everything done while the lock is held is one action, with one          *)
(* exception: sendall may block, so a caller can be seen holding the lock. *)
(***************************************************************************)
EXTENDS Wire

CONSTANTS Timed,           \* calls with a timeout
          Unserializable   \* calls whose arguments msgpack cannot pack

ASSUME ClientAssumption == Timed \subseteq Call /\ Unserializable \subseteq Call

VARIABLES holder,       \* self.lock: the caller that holds it, {} when free
          lastId,       \* the newest id that generate_uuid returned
          msgid,        \* myid of each call
          outstanding,  \* the calls registered in self.outstanding_msgs
          pc,           \* where the thread of each call is, or its outcome
          data, error,  \* the fields of each call's Future
          running,      \* self.running, read by PrivContext
          reader,       \* the reader thread
          logged        \* history: calls whose log record was handled

clientVars == <<holder, lastId, msgid, outstanding, pc, data, error, running,
                reader, logged>>

InCall == {"sending", "waiting", "notified", "expired"}
Outcome == {"reply", "eof", "senderror", "timeout"}

ClientInit == /\ holder = {}
              /\ lastId = 0
              /\ msgid = [c \in Call |-> 0]
              /\ outstanding = {}
              /\ pc = [c \in Call |-> "idle"]
              /\ data = [c \in Call |-> {}]
              /\ error = [c \in Call |-> FALSE]
              /\ running = FALSE
              /\ reader = "starting"
              /\ logged = {}

ClientTypeOK == /\ holder \in SUBSET Call
                /\ lastId \in Nat
                /\ msgid \in [Call -> Nat]
                /\ outstanding \in SUBSET Call
                /\ pc \in [Call -> {"idle"} \cup InCall \cup Outcome]
                /\ data \in [Call -> SUBSET Call]
                /\ error \in [Call -> BOOLEAN]
                /\ running \in BOOLEAN
                /\ reader \in {"starting", "reading", "stopped", "crashed"}
                /\ logged \in SUBSET Call

-----------------------------------------------------------------------------
(* send_recv: the calling threads *)

\* Wrong on purpose: the ids start again when outstanding_msgs is empty, so that
\* the id of a call that timed out comes up again.
ReusedId == IF outstanding = {} THEN 1 ELSE lastId + 1

\* generate_uuid never repeats an id: the ids are numbered in the order drawn.
NewId == lastId + 1

\* The lock is taken and the Future registered under a fresh id.  The id is drawn
\* just before; one step draws both, as any fresh id will do: nobody reads the order.
Register(c) ==
    /\ pc[c] = "idle" /\ holder = {} /\ NewId \in MsgId
    /\ holder' = {c}
    /\ lastId' = NewId
    /\ msgid' = [msgid EXCEPT ![c] = NewId]
    /\ outstanding' = outstanding \cup {c}
    /\ pc' = [pc EXCEPT ![c] = "sending"]
    /\ UNCHANGED <<data, error, running, reader, logged, wireVars>>

\* writer.send returns and future.result() waits, which frees the lock.
Send(c) ==
    /\ pc[c] = "sending" /\ c \notin Unserializable
    /\ CanWrite /\ Room(c2s)
    /\ c2s' = Append(c2s, [id |-> msgid[c], call |-> c])
    /\ pc' = [pc EXCEPT ![c] = "waiting"]
    /\ holder' = {}
    /\ UNCHANGED <<lastId, msgid, outstanding, data, error, running, reader,
                   logged, s2c, chan, peer, emitted>>

\* Wrong on purpose: a send that raises leaves its entry behind.
FinishUnlessSendFailed(c, o) ==
    /\ outstanding' = IF o = "senderror" THEN outstanding ELSE outstanding \ {c}
    /\ pc' = [pc EXCEPT ![c] = o]
    /\ UNCHANGED <<lastId, msgid, data, error, running, reader, logged, wireVars>>

\* The end of send_recv: the finally clause and the outcome.
Finish(c, o) ==
    /\ outstanding' = outstanding \ {c}
    /\ pc' = [pc EXCEPT ![c] = o]
    /\ UNCHANGED <<lastId, msgid, data, error, running, reader, logged, wireVars>>

\* packb or sendall raises: nothing was sent.
SendFails(c) ==
    /\ pc[c] = "sending"
    /\ c \in Unserializable \/ ~CanWrite
    /\ holder' = {}
    /\ Finish(c, "senderror")

\* Condition.wait gives up; the thread must get the lock back to return.
Expire(c) ==
    /\ pc[c] = "waiting" /\ c \in Timed
    /\ pc' = [pc EXCEPT ![c] = "expired"]
    /\ UNCHANGED <<holder, lastId, msgid, outstanding, data, error, running,
                   reader, logged, wireVars>>

\* wait() returned False: the PrivsepTimeout result, whatever arrived since.
TimedOut(c) ==
    /\ pc[c] = "expired" /\ holder = {}
    /\ Finish(c, "timeout")
    /\ UNCHANGED holder

\* wait() returned True: an error is raised, otherwise data is returned.
Wake(c) ==
    /\ pc[c] = "notified" /\ holder = {}
    /\ Finish(c, IF error[c] THEN "eof" ELSE "reply")
    /\ UNCHANGED holder

-----------------------------------------------------------------------------
(* _reader_main: the reader thread *)

ReaderStart ==
    /\ reader = "starting" /\ holder = {}
    /\ reader' = "reading"
    /\ running' = TRUE
    /\ UNCHANGED <<holder, lastId, msgid, outstanding, pc, data, error, logged,
                   wireVars>>

\* A message without msgid goes to out_of_band, without the lock.
ReaderLog ==
    /\ reader = "reading" /\ s2c # <<>>
    /\ Head(s2c).id = NoMsgId
    /\ logged' = logged \cup {Head(s2c).call}
    /\ s2c' = Tail(s2c)
    /\ UNCHANGED <<holder, lastId, msgid, outstanding, pc, data, error, running,
                   reader, c2s, chan, peer, emitted>>

\* Wrong on purpose: the result is stored and nobody is woken.
NotifiedNobody(calls) == pc

\* condvar.notify() on the Futures of a set of calls.
Notified(calls) ==
    [c \in Call |-> IF c \in calls /\ pc[c] = "waiting" THEN "notified" ELSE pc[c]]

\* The Future registered under id, if there is one.
Mailbox(id) == {c \in outstanding : msgid[c] = id}

\* set_result on the Future of the reply's msgid; a reply to nobody is dropped.
ReaderDeliver ==
    /\ reader = "reading" /\ s2c # <<>> /\ holder = {}
    /\ Head(s2c).id # NoMsgId
    /\ LET box == Mailbox(Head(s2c).id)
       IN /\ data' = [c \in Call |-> IF c \in box THEN {Head(s2c).call}
                                                  ELSE data[c]]
          /\ pc' = Notified(box)
    /\ s2c' = Tail(s2c)
    /\ UNCHANGED <<holder, lastId, msgid, outstanding, error, running, reader,
                   logged, c2s, chan, peer, emitted>>

\* Wrong on purpose: the reader goes on while replies are missing.
AtEofWhenIdle == reader = "reading" /\ s2c = <<>> /\ outstanding = {}

\* recv has delivered all that was written.
AtEof == reader = "reading" /\ s2c = <<>>

\* recv returned b'': set_exception on every Future, and running is reset.
ReaderEof ==
    /\ AtEof /\ peer = "closed" /\ holder = {}
    /\ error' = [c \in Call |-> error[c] \/ c \in outstanding]
    /\ pc' = Notified(outstanding)
    /\ running' = FALSE
    /\ reader' = "stopped"
    /\ UNCHANGED <<holder, lastId, msgid, outstanding, data, logged, wireVars>>

\* recv raised ECONNRESET: __next__ lets it pass and it ends the thread.
ReaderReset ==
    /\ AtEof /\ peer = "reset"
    /\ reader' = "crashed"
    /\ UNCHANGED <<holder, lastId, msgid, outstanding, pc, data, error, running,
                   logged, wireVars>>

-----------------------------------------------------------------------------
(* close *)

Close == /\ chan = "open" /\ holder = {}
         /\ chan' = "shut"
         /\ UNCHANGED <<clientVars, c2s, s2c, peer, emitted>>

Join == /\ chan = "shut" /\ reader \in {"stopped", "crashed"}
        /\ chan' = "joined"
        /\ UNCHANGED <<clientVars, c2s, s2c, peer, emitted>>

-----------------------------------------------------------------------------
CallerStep(c) == \/ Send(c) \/ SendFails(c) \/ Expire(c) \/ TimedOut(c) \/ Wake(c)

ReaderStep == \/ ReaderStart \/ ReaderLog \/ ReaderDeliver
              \/ ReaderEof \/ ReaderReset

ClientNext == \/ \E c \in Call : Register(c) \/ CallerStep(c)
              \/ ReaderStep \/ Close \/ Join

-----------------------------------------------------------------------------
(***************************************************************************)
(* Where a thread of the client waits, that is, can take no step of its    *)
(* own: CallerStep(c), ReaderStep and Join are then not ENABLED.           *)
(***************************************************************************)
\* In sendall, with the lock: the socket's buffer is full.
InSendall(c) == pc[c] = "sending" /\ c \notin Unserializable /\ CanWrite /\ ~Room(c2s)

CallerWaits(c) == \/ pc[c] \notin InCall
                  \/ InSendall(c)
                  \/ pc[c] = "waiting" /\ c \notin Timed
                  \/ pc[c] \in {"notified", "expired"} /\ holder # {}

\* The message that recv is to return next needs the lock.
ReplyNext == s2c # <<>> /\ Head(s2c).id # NoMsgId

ReaderWaits ==
    \/ reader = "starting" /\ holder # {}
    \/ reader = "reading" /\ holder # {} /\ (ReplyNext \/ (s2c = <<>> /\ peer = "closed"))
    \/ reader = "reading" /\ s2c = <<>> /\ peer = "up"
    \/ reader \in {"stopped", "crashed"}

CloserWaits == chan = "shut" => reader \notin {"stopped", "crashed"}
=============================================================================
