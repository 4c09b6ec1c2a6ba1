------------------------------ MODULE Startup ------------------------------
(***************************************************************************)
(* PrivContext.start, from both sides: the client's thread that forks the  *)
(* daemon or runs the helper and then exchanges a PING with it, the        *)
(* privileged helper, and the daemon that drops its privileges and serves. *)
(* Which process holds which end of which socket is part of the state,     *)
(* because an end that nobody closes keeps the other side waiting.         *)
(*                                                                         *)
(* Several contexts are started by threads of one client, each once.       *)
(***************************************************************************)
EXTENDS DropPrivs

VARIABLES client,   \* "alive" or "dead"
          start,    \* where the thread in its start() is
          helper,   \* its privsep-helper process
          tmpdir,   \* its temporary directory: "none", "there", or "left"
          sock,     \* its socket, see Socket
          ping      \* its PING

vars == <<dropVars, client, start, helper, tmpdir, sock, ping>>

(***************************************************************************)
(* The processes that have the client's and the daemon's end, a context    *)
(* standing for its daemon.  While the socket listens, the client's end is *)
(* the listening socket, with the connection in its backlog.               *)
(***************************************************************************)
Process == {"client", "helper"} \cup Context
Socket == [client : SUBSET Process, daemon : SUBSET Process,
           connected : BOOLEAN, shut : BOOLEAN]

ASSUME ProcessAssumption == {"client", "helper"} \cap Context = {}

Init == /\ DropInit
        /\ client = "alive"
        /\ start = [c \in Context |-> "idle"]
        /\ helper = [c \in Context |-> "none"]
        /\ tmpdir = [c \in Context |-> "none"]
        /\ sock = [c \in Context |-> [client |-> {}, daemon |-> {},
                                      connected |-> FALSE, shut |-> FALSE]]
        /\ ping = [c \in Context |-> "none"]

StartAt(c, place) == start' = [start EXCEPT ![c] = place]

\* Descriptors are closed.  A PING that nobody read is lost with the last one
\* of the daemon's end: the client's reader gets ECONNRESET, and ends by it.
Sockets(new) ==
    /\ sock' = new
    /\ ping' = [c \in Context |-> IF ping[c] = "sent" /\ new[c].daemon = {}
                                  THEN "lost" ELSE ping[c]]

Released(p) == [c \in Context |-> [sock[c] EXCEPT !.client = @ \ {p},
                                                  !.daemon = @ \ {p}]]

-----------------------------------------------------------------------------
(* ForkingClientChannel.__init__ *)

Socketpair(c) == /\ client = "alive" /\ conf[c].method = "FORK" /\ start[c] = "idle"
                 /\ sock' = [sock EXCEPT ![c] = [client |-> {"client"},
                                                 daemon |-> {"client"},
                                                 connected |-> TRUE, shut |-> FALSE]]
                 /\ StartAt(c, "paired")
                 /\ UNCHANGED <<dropVars, client, helper, tmpdir, ping>>

\* Wrong on purpose: the child does not close sock_a.
InheritAll(c) == [d \in Context |->
                   [sock[d] EXCEPT
                      !.client = IF "client" \in @ THEN @ \cup {c} ELSE @,
                      !.daemon = IF "client" \in @ THEN @ \cup {c} ELSE @]]

\* The child has what the client has, the ends of other contexts, too:
\* FD_CLOEXEC acts on exec.  It closes sock_a, the client's end of its own.
Inherit(c) == [d \in Context |->
                 [sock[d] EXCEPT
                    !.client = IF "client" \in @ /\ d # c THEN @ \cup {c} ELSE @,
                    !.daemon = IF "client" \in @ THEN @ \cup {c} ELSE @]]

Fork(c) == /\ client = "alive" /\ start[c] = "paired"
           /\ sock' = Inherit(c)
           /\ Goto(c, "keepcaps")
           /\ StartAt(c, "forked")
           /\ UNCHANGED <<conf, cred, shown, faults, client, helper, tmpdir, ping>>

\* Wrong on purpose: sock_b stays open in the parent.
KeepSockB(c) == /\ client = "alive" /\ start[c] = "forked"
                /\ StartAt(c, "pinging")
                /\ UNCHANGED <<dropVars, client, helper, tmpdir, sock, ping>>

CloseSockB(c) == /\ client = "alive" /\ start[c] = "forked"
                 /\ sock' = [sock EXCEPT ![c].daemon = @ \ {"client"}]
                 /\ StartAt(c, "pinging")
                 /\ UNCHANGED <<dropVars, client, helper, tmpdir, ping>>

\* fork() fails.
NoFork(c) == /\ client = "alive" /\ start[c] = "paired"
             /\ sock' = [sock EXCEPT ![c].client = @ \ {"client"},
                                     ![c].daemon = @ \ {"client"}]
             /\ StartAt(c, "failed")
             /\ UNCHANGED <<dropVars, client, helper, tmpdir, ping>>

-----------------------------------------------------------------------------
(* RootwrapClientChannel.__init__ *)

Listen(c) == /\ client = "alive" /\ conf[c].method = "ROOTWRAP" /\ start[c] = "idle"
             /\ tmpdir' = [tmpdir EXCEPT ![c] = "there"]
             /\ sock' = [sock EXCEPT ![c].client = {"client"}]
             /\ StartAt(c, "listening")
             /\ UNCHANGED <<dropVars, client, helper, ping>>

Popen(c) == /\ client = "alive" /\ start[c] = "listening"
            /\ helper' = [helper EXCEPT ![c] = "running"]
            /\ StartAt(c, "waiting")
            /\ UNCHANGED <<dropVars, client, tmpdir, sock, ping>>

\* proc.wait() returns 0.
HelperOk(c) == /\ client = "alive" /\ start[c] = "waiting" /\ helper[c] = "ok"
               /\ StartAt(c, "accepting")
               /\ UNCHANGED <<dropVars, client, helper, tmpdir, sock, ping>>

\* Whoever inherited the listening socket has no share in what was accepted.
\* listen_sock is closed next, in the finally block.
Accept(c) == /\ client = "alive" /\ start[c] = "accepting" /\ sock[c].connected
             /\ sock' = [sock EXCEPT ![c].client = {"client"}]
             /\ StartAt(c, "accepted")
             /\ UNCHANGED <<dropVars, client, helper, tmpdir, ping>>

\* Where a call of the try block may raise.  A helper's error always does.
MayAbort(c) == /\ client = "alive"
               /\ \/ start[c] \in {"listening", "accepting"}
                  \/ start[c] = "waiting" /\ helper[c] = "error"

\* Wrong on purpose: the socket is closed, but not in a finally block.
AbortUntidy(c) == /\ MayAbort(c)
                  /\ sock' = [sock EXCEPT ![c].client = @ \ {"client"}]
                  /\ StartAt(c, "failed")
                  /\ UNCHANGED <<dropVars, client, helper, tmpdir, ping>>

\* Wrong on purpose: listen_sock is not closed.
AbortListening(c) == /\ MayAbort(c)
                     /\ StartAt(c, "aborted")
                     /\ UNCHANGED <<dropVars, client, helper, tmpdir, sock, ping>>

\* An exception, such as that for a helper that exits with an error: finally
\* closes listen_sock, which drops a connection in its backlog.
Abort(c) == /\ MayAbort(c)
            /\ sock' = [sock EXCEPT ![c].client = @ \ {"client"}]
            /\ StartAt(c, "aborted")
            /\ UNCHANGED <<dropVars, client, helper, tmpdir, ping>>

\* The rest of finally, on either path: unlink and rmdir.
CleanUp(c) == /\ client = "alive" /\ start[c] \in {"accepted", "aborted"}
              /\ tmpdir' = [tmpdir EXCEPT ![c] = "none"]
              /\ StartAt(c, IF start[c] = "accepted" THEN "pinging" ELSE "failed")
              /\ UNCHANGED <<dropVars, client, helper, sock, ping>>

\* One of the two raises.  What was accepted goes with the exception.
CleanUpFails(c) == /\ client = "alive" /\ start[c] \in {"accepted", "aborted"}
                   /\ tmpdir' = [tmpdir EXCEPT ![c] = "left"]
                   /\ sock' = [sock EXCEPT ![c].client = @ \ {"client"}]
                   /\ StartAt(c, "failed")
                   /\ UNCHANGED <<dropVars, client, helper, ping>>

-----------------------------------------------------------------------------
(* helper_main, up to the fork *)

HelperAt(c, place) == helper' = [helper EXCEPT ![c] = place]

\* Wrong on purpose: the helper forks first, and leaves connecting to the child.
ForkFirst(c) == /\ helper[c] = "running"
                /\ UNCHANGED sock
                /\ HelperAt(c, "connected")
                /\ UNCHANGED <<dropVars, client, start, tmpdir, ping>>

Connect(c) == /\ helper[c] = "running" /\ sock[c].client # {}
              /\ sock' = [sock EXCEPT ![c].daemon = {"helper"},
                                      ![c].connected = TRUE]
              /\ HelperAt(c, "connected")
              /\ UNCHANGED <<dropVars, client, start, tmpdir, ping>>

HelperForks(c) == /\ helper[c] = "connected"
                  /\ sock' = [sock EXCEPT ![c].daemon = @ \cup {c}]
                  /\ Goto(c, "keepcaps")
                  /\ HelperAt(c, "forked")
                  /\ UNCHANGED <<conf, cred, shown, faults, client,
                                 start, tmpdir, ping>>

HelperReturns(c) == /\ helper[c] = "forked"
                    /\ Sockets([sock EXCEPT ![c].daemon = @ \ {"helper"}])
                    /\ HelperAt(c, "ok")
                    /\ UNCHANGED <<dropVars, client, start, tmpdir>>

\* connect() is refused, another call raises, or the helper is killed.
HelperFails(c) == /\ helper[c] \in {"running", "connected", "forked"}
                  /\ Sockets([sock EXCEPT ![c].daemon = @ \ {"helper"}])
                  /\ HelperAt(c, "error")
                  /\ UNCHANGED <<dropVars, client, start, tmpdir>>

-----------------------------------------------------------------------------
(* _ClientChannel.exchange_ping, which start() waits for with its lock held *)

SendPing(c) == /\ client = "alive" /\ start[c] = "pinging" /\ ping[c] = "none"
               /\ sock[c].daemon # {}
               /\ ping' = [ping EXCEPT ![c] = "sent"]
               /\ UNCHANGED <<dropVars, client, start, helper, tmpdir, sock>>

Started(c) == /\ client = "alive" /\ start[c] = "pinging" /\ ping[c] = "answered"
              /\ StartAt(c, "started")
              /\ UNCHANGED <<dropVars, client, helper, tmpdir, sock, ping>>

\* EPIPE, or the end of the stream before the answer.
PingFails(c) == /\ client = "alive" /\ start[c] = "pinging"
                /\ ping[c] \in {"none", "read"} /\ sock[c].daemon = {}
                /\ StartAt(c, "failed")
                /\ UNCHANGED <<dropVars, client, helper, tmpdir, sock, ping>>

\* Wrong on purpose: closes its descriptor, and leaves the connection as it is.
CloseOnly(c) == /\ client = "alive" /\ start[c] = "started"
                /\ sock' = [sock EXCEPT ![c].client = @ \ {"client"}]
                /\ StartAt(c, "closing")
                /\ UNCHANGED <<dropVars, client, helper, tmpdir, ping>>

\* close(), for PrivContext.stop: writer.close, and then the join of the reader,
\* which ends with the stream.
Close(c) == /\ client = "alive" /\ start[c] = "started"
            /\ sock' = [sock EXCEPT ![c].shut = TRUE]
            /\ StartAt(c, "closing")
            /\ UNCHANGED <<dropVars, client, helper, tmpdir, ping>>

CloseJoin(c) == /\ client = "alive" /\ start[c] = "closing" /\ sock[c].daemon = {}
                /\ StartAt(c, "stopped")
                /\ UNCHANGED <<dropVars, client, helper, tmpdir, sock, ping>>

ClientDies == /\ client = "alive"
              /\ client' = "dead"
              /\ Sockets(Released("client"))
              /\ UNCHANGED <<dropVars, start, helper, tmpdir>>

-----------------------------------------------------------------------------
(* The daemon: _drop_privs, then loop() as far as the start is concerned *)

DropPrivs(c) == DropStep(c) /\ UNCHANGED <<client, start, helper, tmpdir, sock, ping>>

DropFails(c) == Fault(c) /\ UNCHANGED <<client, start, helper, tmpdir, sock, ping>>

ReadPing(c) == /\ daemon[c] = "serving" /\ ping[c] = "sent"
               /\ ping' = [ping EXCEPT ![c] = "read"]
               /\ UNCHANGED <<dropVars, client, start, helper, tmpdir, sock>>

Pong(c) == /\ daemon[c] = "serving" /\ ping[c] = "read"
           /\ ping' = [ping EXCEPT ![c] = "answered"]
           /\ UNCHANGED <<dropVars, client, start, helper, tmpdir, sock>>

\* What a process had goes with it.
Ends(c) == /\ Goto(c, "exited")
           /\ Sockets(Released(c))
           /\ cred' = [cred EXCEPT ![c] = conf[c].origin]
           /\ shown' = [shown EXCEPT ![c] = {}]
           /\ faults' = faults \ {c}
           /\ UNCHANGED conf

\* loop() reads the end of the stream.
Eof(c) == /\ daemon[c] = "serving" /\ ping[c] \notin {"sent", "read"}
          /\ sock[c].shut \/ sock[c].client = {}
          /\ Ends(c)
          /\ UNCHANGED <<client, start, helper, tmpdir>>

\* It cannot be logged, or is ECONNRESET: an exception leaves run().
EofRaises(c) == /\ daemon[c] = "serving" /\ ping[c] # "sent"
                /\ sock[c].client = {}
                /\ Goto(c, "raised")
                /\ faults' = faults \cup {c}
                /\ UNCHANGED <<conf, cred, shown, client, start,
                               helper, tmpdir, sock, ping>>

\* helper_main catches it and exits.
HelperExits(c) == /\ daemon[c] = "raised" /\ conf[c].method = "ROOTWRAP"
                  /\ Ends(c)
                  /\ UNCHANGED <<client, start, helper, tmpdir>>

\* ForkingClientChannel does not: the child goes on in the code that called
\* start(), which may end it.
ChildEnds(c) == /\ daemon[c] = "raised" /\ conf[c].method = "FORK"
                /\ Ends(c)
                /\ UNCHANGED <<client, start, helper, tmpdir>>

\* A daemon is killed.
Crash(c) == /\ daemon[c] \in Dropping \cup {"serving"}
            /\ Ends(c)
            /\ UNCHANGED <<client, start, helper, tmpdir>>

-----------------------------------------------------------------------------
StartStep(c) == \/ Fork(c) \/ CloseSockB(c)
                \/ Popen(c) \/ HelperOk(c) \/ Accept(c)
                \/ start[c] = "waiting" /\ Abort(c)
                \/ CleanUp(c)
                \/ SendPing(c) \/ Started(c) \/ PingFails(c) \/ CloseJoin(c)

HelperStep(c) == \/ Connect(c) \/ HelperForks(c) \/ HelperReturns(c)
                 \/ sock[c].client = {} /\ HelperFails(c)

DaemonStep(c) == \/ DropPrivs(c) \/ ReadPing(c) \/ Pong(c)
                 \/ Eof(c) \/ EofRaises(c) \/ HelperExits(c)

Failure(c) == \/ NoFork(c) \/ Abort(c) \/ CleanUpFails(c) \/ HelperFails(c)
              \/ DropFails(c) \/ ChildEnds(c) \/ Crash(c)

Next == \/ \E c \in Context : \/ Socketpair(c) \/ Listen(c) \/ Close(c)
                              \/ StartStep(c) \/ HelperStep(c) \/ DaemonStep(c)
                              \/ Failure(c)
        \/ ClientDies

Spec == Init /\ [][Next]_vars

(***************************************************************************)
(* Fairness: the operating system runs every thread that can move.  The    *)
(* application need not start or stop anything, nothing needs to fail, and *)
(* a child that an exception let out need not end.                         *)
(***************************************************************************)
FairSpec == Spec /\ \A c \in Context : /\ WF_vars(StartStep(c))
                                       /\ WF_vars(HelperStep(c))
                                       /\ WF_vars(DaemonStep(c))

-----------------------------------------------------------------------------
TypeOK == /\ DropTypeOK
          /\ client \in {"alive", "dead"}
          /\ start \in [Context -> {"idle", "paired", "forked", "listening",
                                    "waiting", "accepting", "accepted",
                                    "aborted", "pinging", "started", "failed",
                                    "closing", "stopped"}]
          /\ helper \in [Context -> {"none", "running", "connected", "forked",
                                     "ok", "error"}]
          /\ tmpdir \in [Context -> {"none", "there", "left"}]
          /\ sock \in [Context -> Socket]
          /\ ping \in [Context -> {"none", "sent", "read", "answered", "lost"}]

(***************************************************************************)
(* A start that succeeds means that the daemon has the identity and the    *)
(* capabilities that the context's options ask for, no more and no less:   *)
(* none kept by KEEPCAPS, none lost between the two words of the masks.    *)
(* The daemon itself takes no request before that.  There is one exception *)
(* that the options do not tell of: a daemon that is to be root and is not *)
(* serves all the same, with the user or the group that it was created as. *)
(***************************************************************************)
ServesAsAsked ==
    \A c \in Context :
        \/ daemon[c] = "serving"
        \/ start[c] \in {"started", "closing", "stopped"} /\ daemon[c] # "exited"
        => \/ cred[c] = AskedFor(c)
           \/ (RootUser(c) \/ RootGroup(c)) /\ cred[c] = Unraised(c)

(***************************************************************************)
(* The capabilities that a serving daemon has logged are those that it     *)
(* has: what capset was given and what capget returns go through the masks *)
(* in opposite directions.                                                 *)
(***************************************************************************)
ReportsWhatItHas ==
    \A c \in Context : daemon[c] = "serving" => shown[c] = cred[c].eff

(***************************************************************************)
(* daemon.py:29-32: the process may be "already running as non-root (but   *)
(* with sufficient capabilities)".  A daemon that is created with what it  *)
(* needs is refused no call: each one comes before those that take away    *)
(* the capability for it.                                                  *)
(***************************************************************************)
EnoughPrivilegesServe ==
    \A c \in Context : Sufficient(c) /\ c \notin faults
                           => daemon[c] \notin {"cleanup", "raised"}

(***************************************************************************)
(* accept() has no timeout.  It never has to wait: a helper that exits     *)
(* with 0 has left a connection in the backlog, even if its daemon is dead *)
(* by then.                                                                *)
(***************************************************************************)
AcceptReady ==
    \A c \in Context : start[c] = "accepting" => sock[c].connected

(***************************************************************************)
(* A start that is over, or waits for its PING, leaves no helper process,  *)
(* and no temporary directory either, whichever call failed, unless that   *)
(* was the removal of the directory itself; and then the start fails.      *)
(***************************************************************************)
Tidy ==
    \A c \in Context :
        client = "alive"
        /\ start[c] \in {"pinging", "started", "closing", "stopped", "failed"} =>
            /\ helper[c] \in {"none", "ok", "error"}
            /\ tmpdir[c] # "there"
            /\ tmpdir[c] = "left" => start[c] = "failed"

-----------------------------------------------------------------------------
\* A forked child is out of its daemon.
Escaped(c) == daemon[c] = "raised" /\ conf[c].method = "FORK"

\* The daemon answers no more, but some daemon process keeps its end open.
Orphaned(c) == /\ daemon[c] \in {"raised", "exited"}
               /\ sock[c].daemon \cap Context # {}

Gone(c) == daemon[c] \in {"none", "exited"}

(***************************************************************************)
(* start() returns or raises whatever happens to the helper or the daemon, *)
(* although neither wait() nor accept() nor the PING has a timeout.  There *)
(* are two exceptions: the daemon dies with the PING unread, which kills   *)
(* the client's reader (see AnyPeer), or its end is still open somewhere:  *)
(* in the child itself that an exception let out, or in another daemon     *)
(* that was forked before the parent closed it.                            *)
(***************************************************************************)
StartEnds ==
    \A c \in Context :
        start[c] \notin {"idle", "paired", "listening"} ~>
            \/ start[c] \in {"started", "failed", "closing", "stopped"}
            \/ client = "dead" \/ ping[c] = "lost" \/ Orphaned(c)

(***************************************************************************)
(* daemon.py:41-43: the daemon "exits when the communication channel is    *)
(* closed, (which usually occurs when the unprivileged process exits)".    *)
(* When the client dies, no daemon and no helper remains, those of a start *)
(* that it died in included, although each forked daemon has the sockets   *)
(* of the daemons before it.  The exceptions: two forked daemons that have *)
(* each other's, and a child that an exception let out.                    *)
(***************************************************************************)
HoldEachOther ==
    \E c, d \in Context : c # d /\ c \in sock[d].client /\ d \in sock[c].client

ExitsWithClient ==
    client = "dead" ~> \/ \E c \in Context : Escaped(c)
                       \/ HoldEachOther
                       \/ [](\A c \in Context : Gone(c) /\ helper[c] \in {"none", "ok", "error"})

(***************************************************************************)
(* The same without the exception for daemons that have each other's ends, *)
(* of which daemon.py:356 says "Important that these sockets don't get     *)
(* leaked".                                                                *)
(***************************************************************************)
NeverLeaked ==
    client = "dead" ~> (\E c \in Context : Escaped(c)) \/ (\A c \in Context : Gone(c))

(***************************************************************************)
(* close() ends the daemon whoever else has the client's end: it shuts the *)
(* connection down and does not merely close a descriptor of it.  It then  *)
(* returns, unless another process still has the daemon's end.             *)
(***************************************************************************)
CloseEndsDaemon ==
    \A c \in Context :
        start[c] = "closing" ~>
            \/ Escaped(c)
            \/ /\ daemon[c] = "exited"
               /\ start[c] = "stopped" \/ client = "dead" \/ Orphaned(c)

(***************************************************************************)
(* A failed start leaves no daemon behind, not even that of a helper that  *)
(* was killed right after its fork, unless a daemon that was forked at the *)
(* same time has the listening socket.                                     *)
(***************************************************************************)
FailedStartLeavesNone ==
    \A c \in Context :
        start[c] = "failed" ~> Gone(c) \/ sock[c].client \cap Context # {}

-----------------------------------------------------------------------------
(***************************************************************************)
(* Where each thread can take no step of its own: StartStep(c),            *)
(* HelperStep(c) and DaemonStep(c) are then not ENABLED.                   *)
(***************************************************************************)
StartWaits(c) ==
    \/ client = "dead"
    \/ start[c] \in {"idle", "started", "stopped", "failed"}
    \/ start[c] = "waiting" /\ helper[c] \notin {"ok", "error"}
    \/ start[c] = "accepting" /\ ~sock[c].connected
    \/ start[c] = "pinging" /\ \/ ping[c] \in {"sent", "lost"}
                               \/ ping[c] = "read" /\ sock[c].daemon # {}
    \/ start[c] = "closing" /\ sock[c].daemon # {}

HelperWaits(c) == helper[c] \in {"none", "ok", "error"}

DaemonWaits(c) ==
    \/ Gone(c) \/ Escaped(c)
    \/ /\ daemon[c] = "serving" /\ ping[c] \notin {"sent", "read"}
       /\ ~sock[c].shut /\ sock[c].client # {}

Quiet == \A c \in Context : StartWaits(c) /\ HelperWaits(c) /\ DaemonWaits(c)

(***************************************************************************)
(* What a standstill looks like, the part of the four properties above     *)
(* that does not rest on fairness: every start and close() is over, but    *)
(* for those that StartEnds and CloseEndsDaemon except; close() and a      *)
(* failed start have ended their daemons; and when the client is dead, so  *)
(* is every daemon, but for the exceptions of ExitsWithClient: however     *)
(* many daemons hold each other's sockets, some two hold each other's.     *)
(***************************************************************************)
NothingElseWaits ==
    Quiet =>
        /\ \A c \in Context :
              /\ client = "alive" => \/ start[c] \in {"idle", "started", "stopped", "failed"}
                                     \/ ping[c] = "lost" \/ Orphaned(c)
              /\ start[c] \in {"closing", "stopped"} => daemon[c] = "exited" \/ Escaped(c)
              /\ start[c] = "failed" => Gone(c) \/ sock[c].client \cap Context # {}
        /\ client = "dead" => \/ \E c \in Context : Escaped(c)
                              \/ HoldEachOther
                              \/ \A c \in Context : Gone(c)
=============================================================================
