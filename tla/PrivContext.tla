---------------------------- MODULE PrivContext ----------------------------
(***************************************************************************)
(* priv_context.PrivContext in the unprivileged process: threads that call *)
(* entrypoints (_wrap), which start the daemon on first use and restart it *)
(* when its channel has stopped running, and threads of the application    *)
(* that call start() or stop().                                            *)
(* start() works under start_lock; stop() takes no lock, and neither does  *)
(* any test of self.channel: every read of it is a step of its own.        *)
(*                                                                         *)
(* A channel object stands for the client, the socket and the daemon of    *)
(* module Privsep, whose messages are left out.  The daemon may answer a   *)
(* call or not, may leave a request unread, and may die: what it owes is   *)
(* the subject of Privsep.  Channels are numbered in the order of creation.*)
(***************************************************************************)
EXTENDS Naturals

CONSTANTS Thread,     \* the threads of the run, each makes one call
          Stopper,    \* those that call stop()
          Starter,    \* those that call start(); the others call an entrypoint
          Timed,      \* the callers whose entrypoint, or context, has a timeout
          MaxChannel  \* bound: how many daemons can be started

ASSUME ContextAssumption == /\ Stopper \subseteq Thread
                            /\ Starter \subseteq Thread \ Stopper
                            /\ Timed \subseteq Thread
                            /\ MaxChannel \in Nat

Caller == Thread \ (Stopper \cup Starter)

None == 0

VARIABLES channel,    \* self.channel
          chans,      \* the channel objects: their state by number
          startLock,  \* self.start_lock: the thread that holds it, {} when free
          at,         \* where each thread is, or how its call ended
          target,     \* the channel object each thread has in hand
          calm        \* history: calls that nothing happened to, see below

vars == <<channel, chans, startLock, at, target, calm>>

ChannelNumber == 1 .. MaxChannel

(***************************************************************************)
(* A channel: "up" with a daemon that lives; "shut" when close() has half- *)
(* closed it and the daemon still lives; "closed" or "reset" when the      *)
(* daemon is gone and the reader thread has not noticed (the two ends that *)
(* recv can report, see Wire); "eof" when the reader thread has handled    *)
(* EOF; "crashed" when it died of ECONNRESET, and running stays True.      *)
(***************************************************************************)
Alive == {"up", "shut"}
Gone == {"closed", "reset"}
Ended(n) == chans[n] \in {"eof", "crashed"}

\* Wrong on purpose: EOF does not reset running.
AlwaysRunning(n) == TRUE

Running(n) == chans[n] # "eof"

Ends == {"reply", "timeout", "oserror", "runtimeerror", "attributeerror",
         "notstarted", "started", "stopped"}

\* start_lock is a mutex: it has one holder, or none.
TypeOK == /\ channel \in {None} \cup ChannelNumber
          /\ chans \in [ChannelNumber -> {"new", "eof", "crashed"} \cup Alive \cup Gone]
          /\ startLock \in {{}} \cup {{t} : t \in Thread}
          /\ at \in [Thread -> {"idle", "running?", "stop?", "close", "shutdown", "join",
                                "clear", "start?", "lock", "create", "publish", "hung",
                                "use", "call", "send", "sending", "waiting"} \cup Ends]
          /\ target \in [Thread -> {None} \cup ChannelNumber]
          /\ calm \in SUBSET Thread

Init == /\ channel = None
        /\ chans = [n \in ChannelNumber |-> "new"]
        /\ startLock = {}
        /\ at = [t \in Thread |-> "idle"]
        /\ target = [t \in Thread |-> None]
        /\ calm = {}

Goto(t, place) == at' = [at EXCEPT ![t] = place]
-----------------------------------------------------------------------------
(***************************************************************************)
(* A call is calm while it overlaps no other call and no daemon dies that  *)
(* is in use, and if running told the truth when it began: the daemon was  *)
(* alive, or its end had been noticed.                                     *)
(***************************************************************************)
InProgress == {t \in Thread : at[t] \notin {"idle"} \cup Ends}

BeginCalm(t) ==
    calm' = IF InProgress = {} /\ (channel # None => chans[channel] \in {"up", "eof"})
            THEN (calm \cup {t}) ELSE calm \ InProgress

\* _wrap: "if self.channel is not None".
WrapBegin(t) == /\ at[t] = "idle" /\ t \in Caller
                /\ Goto(t, IF channel = None THEN "start?" ELSE "running?")
                /\ BeginCalm(t)
                /\ UNCHANGED <<channel, chans, startLock, target>>

\* "and not self.channel.running"; None has no attribute running.
WrapRunning(t) ==
    /\ at[t] = "running?"
    /\ Goto(t, CASE channel = None -> "attributeerror"
                 [] channel # None /\ Running(channel) -> "start?"
                 [] OTHER -> "stop?")
    /\ UNCHANGED <<channel, chans, startLock, target, calm>>

\* "if self.channel is None: self.start()".
WrapStart(t) == /\ at[t] = "start?"
                /\ Goto(t, IF channel = None THEN "lock" ELSE "use")
                /\ UNCHANGED <<channel, chans, startLock, target, calm>>

\* "if self.channel is None: raise RuntimeError".
WrapUse(t) == /\ at[t] = "use"
              /\ Goto(t, IF channel = None THEN "runtimeerror" ELSE "call")
              /\ UNCHANGED <<channel, chans, startLock, target, calm>>

\* self.channel.remote_call: the channel that self.channel is now.
WrapCall(t) ==
    /\ at[t] = "call"
    /\ IF channel = None
       THEN Goto(t, "attributeerror") /\ UNCHANGED target
       ELSE Goto(t, "send") /\ target' = [target EXCEPT ![t] = channel]
    /\ UNCHANGED <<channel, chans, startLock, calm>>
-----------------------------------------------------------------------------
\* The channel's own lock, which send_recv holds while it writes and no longer.
Unlocked(n) == \A t \in Thread : ~(at[t] = "sending" /\ target[t] = n)

\* send_recv: "with self.lock", the Future registered.
SendBegin(t) == /\ at[t] = "send" /\ Unlocked(target[t])
                /\ Goto(t, "sending")
                /\ UNCHANGED <<channel, chans, startLock, target, calm>>

\* sendall has written it all to a daemon that lives; nobody owes that it does.
Sent(t) == /\ at[t] = "sending" /\ chans[target[t]] = "up"
           /\ Goto(t, "waiting")
           /\ UNCHANGED <<channel, chans, startLock, target, calm>>

\* EPIPE: the socket is shut down, or its other end is gone.
SendRefused(t) == /\ at[t] = "sending" /\ chans[target[t]] # "up"
                  /\ Goto(t, "oserror")
                  /\ UNCHANGED <<channel, chans, startLock, target, calm>>

(***************************************************************************)
(* The wait ends with the lock taken again.  A reply, of the daemon or     *)
(* still in the socket after its end, may come until EOF is handled, whose *)
(* exception it loses against.  remote_call returns the value or raises    *)
(* the function's exception: both are "reply".                             *)
(***************************************************************************)
Answered(t) == /\ at[t] = "waiting" /\ Unlocked(target[t])
               /\ chans[target[t]] # "eof"
               /\ Goto(t, "reply")
               /\ UNCHANGED <<channel, chans, startLock, target, calm>>

\* "Premature eof waiting for privileged process".
SeesEof(t) == /\ at[t] = "waiting" /\ Unlocked(target[t])
              /\ chans[target[t]] = "eof"
              /\ Goto(t, "oserror")
              /\ UNCHANGED <<channel, chans, startLock, target, calm>>

\* condvar.wait gives up: PrivsepTimeout.
TimesOut(t) == /\ at[t] = "waiting" /\ Unlocked(target[t]) /\ t \in Timed
               /\ Goto(t, "timeout")
               /\ UNCHANGED <<channel, chans, startLock, target, calm>>
-----------------------------------------------------------------------------
\* stop() called by the application.
StopBegin(t) == /\ at[t] = "idle" /\ t \in Stopper
                /\ Goto(t, "stop?")
                /\ BeginCalm(t)
                /\ UNCHANGED <<channel, chans, startLock, target>>

AfterStop(t) == IF t \in Stopper THEN "stopped" ELSE "start?"

StopTest(t) == /\ at[t] = "stop?"
               /\ Goto(t, IF channel = None THEN AfterStop(t) ELSE "close")
               /\ UNCHANGED <<channel, chans, startLock, target, calm>>

\* self.channel.close: the channel that self.channel is now.
StopClose(t) ==
    /\ at[t] = "close"
    /\ IF channel = None
       THEN Goto(t, "attributeerror") /\ UNCHANGED target
       ELSE Goto(t, "shutdown") /\ target' = [target EXCEPT ![t] = channel]
    /\ UNCHANGED <<channel, chans, startLock, calm>>

\* Wrong on purpose: the channel is dropped without being closed.
DropOnly(t) == /\ at[t] = "shutdown"
               /\ Goto(t, "clear")
               /\ UNCHANGED <<channel, chans, startLock, target, calm>>

\* close(): "with self.lock", the half close.
HalfClose(t) ==
    /\ at[t] = "shutdown" /\ Unlocked(target[t])
    /\ Goto(t, "join")
    /\ chans' = [chans EXCEPT ![target[t]] = IF @ = "up" THEN "shut" ELSE @]
    /\ UNCHANGED <<channel, startLock, target, calm>>

\* reader_thread.join.
StopJoin(t) == /\ at[t] = "join" /\ Ended(target[t])
               /\ Goto(t, "clear")
               /\ UNCHANGED <<channel, chans, startLock, target, calm>>

\* self.channel = None, whatever it is by now.
StopClear(t) == /\ at[t] = "clear"
                /\ channel' = None
                /\ Goto(t, AfterStop(t))
                /\ UNCHANGED <<chans, startLock, target, calm>>
-----------------------------------------------------------------------------
\* start() called by the application, with either method.
StartBegin(t) == /\ at[t] = "idle" /\ t \in Starter
                 /\ Goto(t, "lock")
                 /\ BeginCalm(t)
                 /\ UNCHANGED <<channel, chans, startLock, target>>

AfterStart(t) == IF t \in Starter THEN "started" ELSE "use"

\* Wrong on purpose: the channel is not looked at again under the lock.
NotStarted == TRUE

\* Nobody has started the daemon, as seen under start_lock.
StillNone == channel = None

\* Wrong on purpose: start() does not take start_lock.
NoLock == TRUE

LockFree == startLock = {}

\* start(): with the lock, "if self.channel is not None" return.
StartEnter(t) ==
    /\ at[t] = "lock" /\ LockFree
    /\ IF StillNone THEN Goto(t, "create") /\ startLock' = startLock \cup {t}
                    ELSE Goto(t, AfterStart(t)) /\ UNCHANGED startLock
    /\ UNCHANGED <<channel, chans, target, calm>>

\* The next channel object.
Fresh == {n \in ChannelNumber : /\ chans[n] = "new"
                                /\ \A k \in 1 .. (n - 1) : chans[k] # "new"}

\* RootwrapClientChannel(self) or ForkingClientChannel(self): the PING was answered.
StartCreate(t) ==
    /\ at[t] = "create"
    /\ \E n \in Fresh : /\ chans' = [chans EXCEPT ![n] = "up"]
                        /\ target' = [target EXCEPT ![t] = n]
    /\ Goto(t, "publish")
    /\ UNCHANGED <<channel, startLock, calm>>

\* Wrong on purpose: the exception leaves with the lock held.
StartFailsLocked(t) == /\ at[t] = "create"
                       /\ Goto(t, "notstarted")
                       /\ UNCHANGED <<channel, chans, startLock, target, calm>>

\* It waits for ever, with the lock held: see StartWaits of module Startup.
StartHangs(t) == /\ at[t] = "create"
                 /\ Goto(t, "hung")
                 /\ UNCHANGED <<channel, chans, startLock, target, calm>>

\* It raises FailedToDropPrivileges, or the method is unknown: the lock is released.
StartFails(t) == /\ at[t] = "create"
                 /\ startLock' = {}
                 /\ Goto(t, "notstarted")
                 /\ UNCHANGED <<channel, chans, target, calm>>

StartPublish(t) == /\ at[t] = "publish"
                   /\ channel' = target[t]
                   /\ startLock' = {}
                   /\ Goto(t, AfterStart(t))
                   /\ UNCHANGED <<chans, target, calm>>
-----------------------------------------------------------------------------
(***************************************************************************)
(* A daemon dies, or ends after the half close.  With a request unread in  *)
(* its socket, that of a call that has timed out included, the kernel may  *)
(* report the end to the client as ECONNRESET.                             *)
(***************************************************************************)
Unread(n) == \E t \in Thread : /\ at[t] \in {"sending", "waiting", "timeout"}
                              /\ target[t] = n

DaemonEnds(n) ==
    /\ chans[n] \in Alive
    /\ \E how \in IF Unread(n) THEN Gone ELSE {"closed"} : chans' = [chans EXCEPT ![n] = how]
    /\ calm' = IF chans[n] = "up" THEN calm \ InProgress ELSE calm
    /\ UNCHANGED <<channel, startLock, at, target>>

\* The reader thread reads b'': under the lock, the waiting calls get their
\* exception and running is reset.
ReaderEof(n) == /\ chans[n] = "closed" /\ Unlocked(n)
                /\ chans' = [chans EXCEPT ![n] = "eof"]
                /\ UNCHANGED <<channel, startLock, at, target, calm>>

\* ECONNRESET leaves __next__, and with it the reader thread.
ReaderCrashes(n) == /\ chans[n] = "reset"
                    /\ chans' = [chans EXCEPT ![n] = "crashed"]
                    /\ UNCHANGED <<channel, startLock, at, target, calm>>

\* The steps that a thread owes, and those that it needs the daemon for.
OwedStep(t) == \/ WrapRunning(t) \/ WrapStart(t) \/ WrapUse(t) \/ WrapCall(t)
               \/ SendBegin(t) \/ SendRefused(t) \/ SeesEof(t) \/ TimesOut(t)
               \/ StopTest(t) \/ StopClose(t) \/ HalfClose(t) \/ StopJoin(t)
               \/ StopClear(t) \/ StartEnter(t) \/ StartCreate(t) \/ StartFails(t)
               \/ StartHangs(t) \/ StartPublish(t)

ThreadStep(t) == OwedStep(t) \/ Sent(t) \/ Answered(t)

ReaderStep(n) == ReaderEof(n) \/ ReaderCrashes(n)

Next == \/ \E t \in Thread : \/ WrapBegin(t) \/ StartBegin(t) \/ StopBegin(t)
                           \/ ThreadStep(t)
        \/ \E n \in ChannelNumber : DaemonEnds(n) \/ ReaderStep(n)

Spec == Init /\ [][Next]_vars

(***************************************************************************)
(* Threads run and timers expire.  Nothing is owed by a daemon: it need    *)
(* not read, answer, or end, not even after the half close.                *)
(***************************************************************************)
FairSpec == /\ Spec
            /\ \A t \in Thread : WF_vars(OwedStep(t))
            /\ \A n \in ChannelNumber : WF_vars(ReaderStep(n))

-----------------------------------------------------------------------------
(***************************************************************************)
(* start() never replaces a channel that is in place: a thread that waited *)
(* for start_lock while another one started the daemon uses that daemon.   *)
(***************************************************************************)
StartNeverReplaces == [][channel # None => channel' \in {None, channel}]_channel

(***************************************************************************)
(* The restart of _wrap: a call that overlaps no other one and finds       *)
(* running as it should be is answered or times out, also where it finds a *)
(* channel that stopped, if its daemon can be started and does not die     *)
(* meanwhile.  It never gets an error of the channel's.  A call that comes *)
(* between a daemon's death and the reader thread's notice has no such     *)
(* promise: its send raises OSError.                                       *)
(***************************************************************************)
CalmCallServed == \A t \in calm \cap Caller : at[t] \in Ends =>
                      \/ at[t] \in {"reply", "notstarted"}
                      \/ at[t] = "timeout" /\ t \in Timed

AllCalm == \A t \in Thread : at[t] # "idle" => t \in calm

(***************************************************************************)
(* While all calls so far were calm, no daemon runs that the context has   *)
(* forgotten: stop() closes what it drops, and a restart ends the daemon   *)
(* before it starts another one.                                           *)
(***************************************************************************)
NoDaemonForgotten ==
    AllCalm => \A n \in ChannelNumber :
                   chans[n] = "up" => \/ n = channel
                                      \/ \E t \in Thread : at[t] = "publish" /\ target[t] = n

(***************************************************************************)
(* Every call ends, but for those that a start that hangs has taken along, *)
(* that a living daemon keeps waiting, or whose reader thread has died:    *)
(* start_lock and the channel's lock are released on every path, close()   *)
(* is only joined on a channel that it has half-closed, and a daemon's end *)
(* ends the writes, the waits and the joins on its channel.                *)
(***************************************************************************)
StartHeldUp(t) == at[t] \in {"hung", "lock"} /\ \E u \in Thread : at[u] = "hung"

\* The daemon does not read, has not answered, or has not ended.
DaemonHolds(t) == \/ at[t] = "sending" /\ chans[target[t]] = "up"
                  \/ at[t] = "waiting" /\ t \notin Timed /\ chans[target[t]] \in Alive
                  \/ at[t] = "join" /\ chans[target[t]] = "shut"

\* The lock that t needs is held by a thread that such a daemon does not read from.
BehindSender(t) == /\ at[t] \in {"send", "shutdown", "waiting"}
                   /\ chans[target[t]] = "up" /\ ~Unlocked(target[t])

ReaderLost(t) == at[t] = "waiting" /\ t \notin Timed /\ chans[target[t]] = "crashed"

HeldUp(t) == StartHeldUp(t) \/ DaemonHolds(t) \/ BehindSender(t) \/ ReaderLost(t)

EveryCallEnds == <>[](\A t \in InProgress : HeldUp(t))

(***************************************************************************)
(* Where a thread owes no step, and where nobody does.                     *)
(***************************************************************************)
Waits(t) == \/ at[t] \in {"idle", "hung"} \cup Ends
            \/ at[t] = "lock" /\ startLock # {}
            \/ at[t] = "join" /\ ~Ended(target[t])
            \/ at[t] \in {"send", "shutdown"} /\ ~Unlocked(target[t])
            \/ at[t] = "sending" /\ chans[target[t]] = "up"
            \/ at[t] = "waiting" /\ ~Unlocked(target[t])
            \/ at[t] = "waiting" /\ t \notin Timed /\ chans[target[t]] # "eof"

Standstill == /\ \A t \in Thread : Waits(t)
              /\ \A n \in ChannelNumber :
                    /\ chans[n] # "reset"
                    /\ chans[n] = "closed" => ~Unlocked(n)

(***************************************************************************)
(* priv_context.py:319: "this will always be non-None thank to the above". *)
(***************************************************************************)
ChannelNonNone == \A t \in Thread : at[t] # "runtimeerror"
=============================================================================
