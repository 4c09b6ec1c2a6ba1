# Verification of oslo.privsep

oslo.privsep runs selected Python functions ("entrypoints") of an unprivileged
service in a privileged helper daemon. The service and the daemon are two
processes joined by a pair of Unix stream sockets, and both are multi-threaded.
This directory holds TLA+ models of that machinery, the TLC configurations that
check them on small instances, and proofs for every instance. Line numbers are
those of the repository's `oslo_privsep/` (`src/oslo_privsep/` in PROJECT.json).

* [The system](#the-system)
* [Hard behaviours](#hard-behaviours)
* [Modules](#modules)
* [How the models correspond to the code](#how-the-models-correspond-to-the-code)
* [Sockets](#sockets)
* [Runs and bounds](#runs-and-bounds)
* [Fairness](#fairness)
* [Proofs](#proofs)
* [Where the code and its documentation disagree](#where-the-code-and-its-documentation-disagree)
* [Not modelled](#not-modelled)
* [Plan](#plan)

## The system

| Component | State | Operations | Talks to | What makes it correct |
|---|---|---|---|---|
| `comm.Serializer`, `comm.Deserializer` | the socket, the msgpack `Unpacker` | `send`, `close` (half close), `__next__` | the kernel | whole messages, in order, and an end that is always reported |
| `comm.ClientChannel`, `comm.Future` | `lock`, `outstanding_msgs`, `running`, the reader thread; `data`, `error`, `condvar` of each Future | `send_recv`, `_reader_main`, `close`, `set_result`, `set_exception`, `result` | the calling threads (condition variables), the daemon (messages) | a reply reaches its own caller; no entry leaks; nobody waits for ever after EOF; every call ends |
| `comm.ServerChannel` | `rlock`, `wlock` | `__next__`, `send` | the daemon's threads | messages of two threads are not mixed |
| `daemon.Daemon` | `channel`, `thread_pool`, `communication_error`, the pool's futures | `loop`, `_process_cmd`, the done callback, `run` | its pool threads, the client | a request runs at most once, is answered exactly once, whichever thread answers it; the daemon ends when its channel does |
| `daemon._ClientChannel` and its two subclasses | the log, `context` | `exchange_ping`, `remote_call`, `out_of_band`; `fork` or the rootwrap helper | `ClientChannel`, `Daemon`, `PrivContext` | a started channel has been answered once |
| `priv_context.PrivContext` | `channel`, `start_lock`, `client_mode` | `_wrap`, `start`, `stop` | `_ClientChannel` | one daemon at a time; a dead one is replaced; a call finds a channel |
| `ForkingClientChannel`, `RootwrapClientChannel`, `helper_main` | descriptors, the temporary directory, the helper and daemon processes | the two constructors, `helper_main`, `Daemon.run` | the kernel, each other (socket, PING) | start gives a channel to a daemon that serves, or raises and leaves nothing behind; the daemon ends with the client |
| `Daemon._drop_privs`, `capabilities` | uid, gid, groups, keepcaps, the capability sets of the process | `setuid`, `setgid`, `set_keepcaps`, `drop_all_caps_except` | the kernel | what is left is what the context asked for, or the daemon does not serve |
| In-band logging | handlers of the root logger | `PrivsepLogHandler.emit`, `replace_logging`, `_fd_logger` | the channel | the daemon's records reach the client's log in order |
| Entry points, configuration | registered functions, options | `entrypoint`, `is_entrypoint`, `helper_command` | | only registered functions run |

The client's side of one call: a thread enters `_wrap`, which makes sure that
there is a channel; `send_recv` registers a Future under a fresh msgid, sends
the request and waits, all under one lock, which `Condition.wait` gives up;
the reader thread matches the reply's msgid to the Future and wakes the thread.
The daemon's side: the main thread reads the request, submits `_process_cmd` to
its pool and registers a done callback on the future; the pool thread runs the
function and then, usually, the callback that writes the reply. When the future
is done before the callback is registered, the main thread runs it.

## Hard behaviours

PROJECT.json lists them line by line under "hazards". In short:

* a timeout races a late reply, an EOF races a delivered reply;
* the lock of `ClientChannel` is held across a blocking `sendall`, and the
  reader thread needs it; the daemon's main thread may block on writing a reply;
* the callback of a future may run in two different threads;
* either process may die at any moment, with requests or replies unread;
* what ends the daemon depends on how it was started: `os._exit` after `fork`,
  `sys.exit`, which joins the thread pool, after rootwrap;
* starting waits for three things without a timeout (the helper's exit, `accept`,
  the PING's answer), while the helper and the daemon may fail at any call;
* a forked child has all the client's descriptors, those of other contexts' sockets
  included, and a socket only ends when its last descriptor is closed;
* dropping privileges is a sequence of calls, each of which takes away what a
  later one may need;
* `PrivContext.stop` takes no lock, and `_wrap` reads `self.channel` five times;
* `running` tells what the reader thread has noticed, which is later than what happened;
* the cleanup of a start can fail itself, after the start has succeeded, too.

## Modules

| Module | Content |
|---|---|
| `Wire` | the messages, the two directions of the socket pair, the ends of its halves |
| `ClientChannel` (extends `Wire`) | `comm.ClientChannel` and `comm.Future`: callers, reader thread, `close` |
| `AnyPeer` (extends `ClientChannel`) | the client against *any* peer that keeps the protocol |
| `Daemon` (extends `Wire`) | `daemon.Daemon`: main thread, pool threads, callbacks, end of the process |
| `AnyClient` (extends `Daemon`) | the daemon against *any* client that draws a new msgid for each request |
| `RemoteCall` | the abstract promise: a function runs at most once, and before its call returns |
| `Privsep` (extends `ClientChannel` and `Daemon`) | the two processes together; implements `AnyPeer`, `AnyClient` and `RemoteCall`; deadlock |
| `PrivContext` | `_wrap`, `start` and `stop` by concurrent threads, over channels that may end |
| `DropPrivs` | `Daemon._drop_privs`, `_close_stdio` and `capabilities`: masks, ids, KEEPCAPS, capability sets |
| `Startup` (extends `DropPrivs`) | `ForkingClientChannel.__init__`, `RootwrapClientChannel.__init__`, `helper_main`, `exchange_ping`, `close`: three processes and their descriptors |
| `AnyPeerProofs`, `LogOrderProofs` (extends it), `AnyClientProofs`, `IdleProofs` (extends it), `PrivsepProofs`, `DeadlockProofs` (extends it), `PrivContextProofs`, `StartupProofs` | theorems |
| `MC*` | names of the calls and threads for TLC |

Each half of the protocol is checked against the most general partner first
(`AnyPeer`, `AnyClient`), so that its properties do not rest on how the other
half happens to schedule its work; `Privsep` then shows that each process is
the partner that the other was checked against, and what only the pair achieves. `PrivContext` sees a whole
`Privsep` instance as one channel object with a state, and keeps of its messages
only where each call waits. `Startup` ends where
`Privsep` begins, with the first PING; what is `StartCreate`, `StartFails` or
`StartHangs` in `PrivContext` is a whole behaviour of it.

The operators under the comment "Wrong on purpose" are faults that someone could
plausibly make in the code. They occur in no specification; PROJECT.json pairs
each property with one that breaks it.

## How the models correspond to the code

**Messages.** A request is the pair (msgid, call). What a function computes is
opaque: the reply to a call carries the call's name, so that a reply in the
wrong Future shows. RET and ERR replies are alike (`Future.result` does not tell
them apart), and a result that msgpack cannot pack becomes one ERR reply. A log
record has `NoMsgId` for the code's `None`. A message is written and read whole.

**ClientChannel.** `holder` is `self.lock`. Whatever happens under the lock
without blocking is one action; `sendall` can block, so the interval from
`Register` to `Send` is visible, with the lock held. `pc[c]` follows the thread
that makes call `c`:

    idle -Register-> sending -Send-> waiting -(notify)-> notified -Wake-> reply | eof
                        |               '----Expire----> expired -TimedOut-> timeout
                        '-SendFails-> senderror

"notified" and "expired" are the two ways out of `Condition.wait`, *before* the
thread has the lock back; the reader thread and EOF may come between. `data` and
`error` are the Future's fields; `Finish` is the `finally` of `send_recv`. The
reader thread's loop is `ReaderLog`, `ReaderDeliver`, `ReaderEof` and
`ReaderReset` (an `OSError` that `__next__` lets pass). Message ids are numbers
in the order they were drawn: the model relies only on `generate_uuid` never
repeating one. `MsgId` is the set of the ids that there are, any set of positive
numbers (`NewId` must be in it, `Register`): TLC needs it finite to enumerate
the requests of `AnyClient`, whose client may write a request of any call under any id
greater than those it used before. Greater rather than merely new, because
`Register` draws the id and takes the lock in one step. The code draws the uuid just before it
takes the lock (`comm.py:197-203`); as nothing depends on an id but that it is new, and the
daemon only copies it, the numbers are given in the order of the writes.

**Daemon.** `main` is the main thread: "reading" (in `for msgid, msg in
self.channel`), "submitted" (between `submit` and `add_done_callback`), "inline"
(running a callback itself), "ended" (left `loop()`), "escaped" (an exception
went past `os._exit`), "exited". `hooked` holds the calls whose callback is
registered, so `AddCallback` and `Complete` are the two sides of the race in
`concurrent.futures`, each atomic under the future's condition variable. `Fatal`
calls raise a `BaseException` that is not an `Exception`: the future gets it,
`_call_back` raises it again from `result.result()`, and the pool thread that
runs the callback ends ("dead"; when the main thread runs it, it leaves `loop()`).
`NoFunction` are requests that run nothing: PING, and names that
`is_entrypoint` refuses. `Hanging` functions never return. `Exit`, `ExitEscapes`
and `PoolJoined` depend on `Method`.

**Privsep.** The PING of `exchange_ping` is the call `Ping`; the others need its
reply (`Ready`), as the constructor of the channel returns only then.

**Waiting.** `CallerWaits`, `ReaderWaits`, `CloserWaits` (ClientChannel), `MainWaits`,
`WorkerWaits` (Daemon), `Waits` (PrivContext), `StartWaits`, `HelperWaits` and `DaemonWaits` (Startup)
spell out when a thread can take no step: what would be `~ENABLED` of it, which the
provers cannot expand. `Quiet`, in `PrivContext` `Standstill`, is all of a module's threads
at once. They are definitions for stating what a standstill looks like, not claims about the code.

**PrivContext.** Each test and each use of `self.channel` is an action of its
own, because no lock protects them. `at[t]` names the statement the thread comes
to next:

    idle -> running? -> stop? -> close -> shutdown -> join -> clear -> start?     _wrap, stop, close
    start? -> lock -> create -> publish -> use -> call                            start, _wrap
    call -> send -> sending -> waiting -> reply | timeout | oserror               send_recv

`remote_call` is the last line: it waits for the channel's own lock ("send"), in
`sendall` with the lock held ("sending"), and for the reply ("waiting"), after which it needs the
lock again. Any of these waits can last for ever, as the daemon of this module owes nothing.
`close` waits for the same lock ("shutdown") and for the end of the reader thread ("join").
A channel goes through these states:

    new -> up -HalfClose-> shut -DaemonEnds-> closed -ReaderEof----> eof
            '---------------DaemonEnds------> reset  -ReaderCrashes-> crashed

In "closed" and "reset" the daemon is gone and nobody has noticed: `running` is still True, a
request gets EPIPE. ("up" and "shut" lead to either.) In "crashed" the reader thread
died of `ReaderReset`, and `running` stays True: see the run `anypeer_reset`. It takes a
request that the daemon left unread (`Unread`). Threads call an entry point, `start` or
`stop`. The two methods of `start` differ in nothing that this module sees, so that
`StartCreate`, `StartFails` and `StartHangs` are the outcomes of either: those that
`Startup` finds. `calm` is a history variable: the calls that overlapped no
other call, that found `running` telling the truth when they began, and during which no
daemon died.

**DropPrivs.** `daemon[c]` is the call that context `c`'s daemon comes to next:

    keepcaps [-> setgroups -> setgid] [-> setuid] -> nokeep -> capset -> capget -> stdio -> serving
        '------------ refused or failed ------------> cleanup -> raised

"cleanup" is the `finally` clause on the way out of an exception, "nokeep" the
same clause without one. A Python integer that is a mask is the set of its one
bits; `& 0xFFFFFFFF` and `>> 32` are `Low` and `High` of a word of `Word` bits,
`_mask_to_caps` and the joining of the two words are translated as written.
`Storable` is when `_caps_to_mask` and the assignments to `__u32` do not raise.
The kernel's rules (who may `setgroups`, `setgid`, `setuid`, what a change
away from uid 0 does to the sets, what `capset` accepts) are external: `Became`,
`MaySet`, `Given`, and the tests of `SetGroups`, `SetGid`, `SetUid`. Besides,
`Fault` lets any call fail for no reason of these; `faults` remembers whom.
Names are resolved already: an unknown user is a `Fault`. `AskedFor` is what the options
say, "root" included; `Unraised` is what `setuid` and `setgid` make of an origin that is not root
and is to become it: they skip the id 0.

**Startup.** `start[c]` is the client's thread in the two constructors:

    FORK      idle -> paired -> forked -> pinging -> started -> closing -> stopped
    ROOTWRAP  idle -> listening -> waiting -> accepting -> accepted -> pinging -> ...
                          '----------'------------'--> aborted -> failed
              paired, accepted, pinging -> failed

"accepted" and "aborted" are inside the `finally` clause, `listen_sock` being closed:
`CleanUp` is `unlink` and `rmdir`, `CleanUpFails` the exception of either, with which the
accepted socket goes, too, and after which `tmpdir` is "left". (A socket file that
was never made is no error: ENOENT is ignored.) "closing" is the join of the reader thread in `close()`.

`sock[c].client` and `sock[c].daemon` are the processes that hold a descriptor of
that end. `Fork` copies the client's descriptors of *all* contexts to the child,
less its own `sock_a`. The helper is started by `subprocess`, which closes other
descriptors. `shut` is the half close of `close()`, which acts on the connection
whoever else has a descriptor of it. What a process holds goes with it (`Ends`,
`ClientDies`). `ping[c]` is "lost" when the last descriptor of the daemon's end is
closed over the unread PING, which makes the client's `recv` fail with
ECONNRESET. A forked child that an exception let out of `Daemon.run` is "raised":
it keeps all it has, and may end some time (`ChildEnds`). What the daemon serves
after its PING is the subject of `Daemon`.

**History variables.** `emitted`, `logged`, `taken`, `executed`, `answered`,
`calm`, `faults` record what happened; the code has nothing like them and no guard reads
them, with one exception: a call in `Logging` logs at most once (a bound).

## Sockets

What the models assume of a connected pair of Unix stream sockets, as Linux
implements it:

* a write blocks while the buffer is full, and the bytes arrive in order;
* after `shutdown(SHUT_WR)` by one side, or after that side is closed with
  nothing unread in *its* receive buffer, the other side reads what is buffered
  and then gets end of file (`b''`);
* when a side is closed while its own receive buffer still holds unread bytes,
  the other side reads what is buffered and then may get ECONNRESET instead
  of end of file (`PeerEnds`, `ClientDies`, the value "reset");
* a write to a side that is closed, or after one's own shutdown, raises EPIPE;
  a writer already blocked when the other side is closed with unread bytes may
  get ECONNRESET (`WriteErrors`);

* a listening socket takes a connection into its backlog before `accept`; closing
  its last descriptor drops the connection, and `connect` is refused without one;
* descriptors are copied by `fork`, and close-on-exec does not act on it.

Where the kernel, the size of the last read or the `Unpacker`'s own buffer
decides between two outcomes, the models allow both. `Capacity` counts
messages, those in the kernel's buffers and in the `Unpacker` together.

## Runs and bounds

Every run ends in less than five minutes. `CHECK_DEADLOCK FALSE` is set because
every system here does stop: calls are made once, and a daemon ends.

| Run | Instance | Shows |
|---|---|---|
| `anypeer` | a call with a timeout, 2 without, 1 that cannot be packed; 2 messages each way | safety and liveness of `ClientChannel` against any peer |
| `anypeer_eof` | 1 call | *violated*: an answered call can still raise the EOF error |
| `anypeer_reset` | 1 call | *violated*: a daemon's death is not noticed after a reset |
| `anyclient` | rootwrap; a plain call, a refused one, one that raises `SystemExit`; 2 pool threads | each request is executed at most once, answered once; the pool is drained; the daemon ends |
| `anyclient_hung` | 1 hanging function | *violated*: the daemon outlives its channel |
| `anyclient_escape` | forked | *violated*: the forked child returns into the caller's code |
| `privsep` | fork; PING and 2 calls, one with a timeout; 2 pool threads | refinement of `AnyPeer`, `AnyClient` and `RemoteCall`; calls and `close` return |
| `privsep_gridlock` | PING and 4 calls; 1 pool thread | *violated*: everybody waits for everybody, a timeout cannot fire |
| `privcontext` | 2 calling threads, one with a timeout, 1 starting, 1 stopping, 2 daemons | start never replaces a channel; a calm call is served; no daemon is forgotten; calls end |
| `privcontext_nonnone` | 2 calling threads | *violated*: the channel can be None at its use |
| `startup` | 2 contexts started at once, 4 sets of options (fork and fork, rootwrap and fork, fork and rootwrap, rootwrap twice) | credentials after the start; start, `close` and the client's death end as they should |
| `startup_leak` | 2 forked contexts | *violated*: daemons with each other's sockets outlive the client |

Properties of the passing runs:

* `OwnReply`: a call that returns a reply returns its own. One call that can
  time out and one after it are enough for a late reply to meet a later
  registration.
* `OutstandingExact`: `outstanding_msgs` is exactly the set of calls inside
  `send_recv`, on every path out of it.
* `NoneStranded`: once EOF was handled no thread waits.
* `LoggedBeforeReply`: the record a request caused is handled before its call
  returns.
* `NeverForgotten`: a thread that waits has its request before it, or its reply
  behind it: none is consumed without waking the thread.
* `EveryCallReturns`: as long as the reader thread does not crash, each `send_recv` ends.
* `CloseReturns` (client): once the peer has ended, however it did and whatever is in
  flight, `close` returns. That the peer ends is not assumed: a daemon of the helper's whose
  function hangs does not (`anyclient_hung`), and then neither does `close` return.
* `ServedOnce`, `AnswerOwed`: the two halves of the callback race: never twice,
  and a finished future always has a thread that holds its callback.
* `DrainsBeforeExit`: a helper-started daemon that sees EOF answers all it has
  read before it exits, as long as the client lives, unless functions have ended every
  thread of the pool.
* `IdleIsDone`: a daemon that stands still, with a thread of the pool left, has answered
  what it read, except what a function has kept.
* `RequestAnswered`: a request that was read is answered, even after another
  one cost a pool thread its life.
* `ExitsOnClose`: closing the channel ends the daemon.
* `ImplementsAnyPeer`: the daemon is a peer as `AnyPeer` describes, so all safety
  properties of `AnyPeer`, and the theorems about them, hold of the pair.
* `ImplementsAnyClient`: the threads of `ClientChannel` are a client as `AnyClient`
  describes, so its safety properties hold of the pair's daemon.
* `ImplementsRemoteCall`: a function runs at most once, and never after its call
  has returned a reply; a call that failed or timed out says nothing about it.
* `CallReturns`, `CloseReturns` (pair, a forked daemon and no function that hangs): with at
  most three calls, PING included, nobody waits for ever. This is a statement about the
  *number* of calls. How many it takes is not checked by a run that passes, since none of
  them reaches a deadlock; it is proved (`DeadlockNeedsCalls`): `Capacity` calls whose requests
  fill the one direction, one for each reply in the other, and two in the hands of the
  blocked writers. `privsep_gridlock` shows that a capacity of one
  and `Capacity + 4` calls, PING included, do deadlock, so that the number in
  `FewCallsNeverDeadlock` (below) cannot be raised. A call counts as long as it is being made,
  or was given up after a timeout. With real buffers it takes as many more as they hold.
* `StartNeverReplaces`; `CalmCallServed`: an undisturbed call is answered or times out, after a
  restart where needed. A call that comes between the daemon's death and the reader thread's
  notice finds `running` True and raises `OSError` from its send; it is not calm.
  `NoDaemonForgotten`: unless calls overlap, every daemon that runs
  is the one in `self.channel` or about to be. (When two threads restart at once,
  `StopClear` of the slower one can drop the channel that the faster one has just
  started, and its daemon runs on: the other side of `privcontext_nonnone`.)
* `EveryCallEnds`: every call ends, but for those that a start that hangs keeps from
  `start_lock` (`StartHeldUp`), that a living daemon keeps in `sendall`, without its reply or in
  the join of `close` (`DaemonHolds`), that need the lock of a caller in such a `sendall`
  (`BehindSender`: a timeout does not help there), and that wait on a channel whose reader thread died
  (`ReaderLost`). These are what `privsep_gridlock`, `anyclient_hung` and `anypeer_reset` exhibit.
* `ServesAsAsked`: a daemon that takes requests, and one whose start was reported as
  a success, has the ids, the groups and the three capability sets that the
  options ask for, and KEEPCAPS reset. The exception is a daemon that is to be root and was not
  created as root: it serves under the id that it was created with (see below).
* `ReportsWhatItHas`: the effective capabilities that it logged are those it has.
* `EnoughPrivilegesServe`: a daemon that is created with what it needs is refused
  no call, root or not (`daemon.py:29`).
* `AcceptReady`: `accept` never has to wait, with privsep-helper as the helper. `Tidy`: a start
  that is over leaves neither a helper nor a directory, whichever call failed, except where
  removing the directory failed; then the start fails, and (`FailedStartLeavesNone`)
  the daemon that was accepted ends.
* `StartEnds`: a start that has got past the creation of its sockets returns or
  raises, with two exceptions that the code has: the daemon dies with the PING
  unread, or somebody keeps the daemon's end open who will not answer.
* `ExitsWithClient`: after the client's death no helper and no daemon is left, in the
  middle of a start either. `CloseEndsDaemon`, `FailedStartLeavesNone`: the same after
  `close`, which returns then, and after a failed start. Each names the processes it cannot speak for.
* `NothingElseWaits`: what these four say of the states in which nothing moves, the
  exceptions included: once the client is dead, either no daemon is left, or one has escaped,
  or two forked daemons hold each other's sockets.

Why these bounds. A capacity of one makes every writer meet a full buffer
and still lets both directions hold a message; `anypeer` has two, so that a log
record and the reply it must precede can be in the buffer together. Two pool threads are the least with
which one can work while another is in a callback, or dead. Three calls give a
late reply, a waiter and a sender at once. In `PrivContext` two daemons are the
first one and its replacement; `MaxChannel` cuts off a third start, and a thread
that would need it is stuck in "create" only as far as `StartCreate` goes:
`StartFails` remains possible. The safety properties of `AnyPeer` and
`PrivContext` are proved without any of these bounds.

In `startup` a word has three bits, so that a capability is the last bit of the low
word (2), the first of the high one (3), its last (5) or beyond (6), with 4 unknown to the
kernel. The four situations have daemons with root's privileges and daemons
without, options that are unset, "root" or another id, capabilities that the
daemon lacks or that do not fit. Two contexts are the least of which one can inherit the
other's socket; each is started once. `Startup`'s safety properties are
proved for any number of contexts, any word size and any options.

`Fatal` functions are checked with `Method = "ROOTWRAP"` only (`anyclient`); in a
forked daemon the same exception in the main thread leads to "escaped", which
`anyclient_escape` already reaches in another way.

The bounds that are part of a specification, not of an instance: each call is
made once, a call logs at most once, `MaxChannel`, `Capacity`, `MsgId`.

## Fairness

* `AnyPeer!FairSpec`: a calling thread inside `send_recv` that can move does, the
  reader thread too; a thread with a timeout is woken by the clock or by
  a notification; the peer reads and answers.
  Not assumed: that the peer ever ends, that a call is made, that `close` is called, that
  anything is logged, that anyone crashes.
* `AnyClient!FairSpec`: the daemon's threads move when they can, a living client
  reads. Functions that are not `Hanging` return.
* `Privsep!FairSpec`: the same of the threads of both processes; the daemon now
  has to earn what `AnyPeer` assumed. It does not always: while the main
  thread is blocked in a callback that it runs inline, it reads nothing, so the
  pair does not implement `AnyPeer`'s *fairness*, only its safety. That is the gap
  that `privsep_gridlock` goes through.
* `PrivContext!FairSpec`: threads move, timers expire, reader threads notice the end of
  their sockets. Nothing is owed by a daemon: it need not read, answer, or end, not even
  after the half close. A start may hang, which is what `StartEnds` of `Startup` leaves.

* `Startup!FairSpec`: in each context the thread in `start()`, the helper and the daemon
  move when they can. Sudo or rootwrap are part of the helper, so the assumption
  includes that they neither ask for a password nor hang. Not assumed: that a
  context is started or closed, that anything fails, that a helper which has no
  reason to fail exits, that a child which an exception let out ever ends.

All of it is weak fairness of single threads, which is what the scheduling of
Python threads and of the kernel gives: a thread that stays runnable runs. One
place deserves a word: the lock. A thread that waits for it is enabled only
while nobody holds it, and the holder's steps alternate with it. Weak fairness
is enough because each call takes the lock a bounded number of times, so that
it is free for good in the end; no fairness of the lock itself is assumed.

## Proofs

tlapm checks all of them; the constants are arbitrary up to the named
assumptions (`WireAssumption`: a positive capacity, `Logging \subseteq Call`, positive ids;
`ClientAssumption`, `ContextAssumption`: subsets of the calls, of the threads;
`DaemonAssumption`: a pool with a thread, one of the two methods, subsets of the calls;
`CapAssumption`: the kernel's capabilities are bits of two words, CAP_SETUID and CAP_SETGID among them;
`SituationAssumption`: the configurations are well typed; `ProcessAssumption`: "client" and
"helper" are no contexts).
`Call`, `MsgId`, `Worker`, `Thread`, `Context` need not be finite; only where something is
counted does a theorem speak of finite sets: `FewCallsNeverDeadlock`, `FewCulpritsHarmNobodyElse`
(of calls), the three `EveryStepIsProgress` (of calls and workers, of threads, of contexts).

| Theorem | States | Argument |
|---|---|---|
| `AnyPeerProofs!TypeCorrect` | `Spec => []TypeOK` | inductive; a writer checks `Room` |
| `AnyPeerProofs!RepliesAreOwn` | `[]OwnReply` | `IInv` below |
| `AnyPeerProofs!NothingLeaks` | `[]OutstandingExact` | a conjunct of `IInv` |
| `AnyPeerProofs!EofStrandsNobody` | `[]NoneStranded` | `IInv` |
| `LogOrderProofs!LogsComeFirst` | `[]LoggedBeforeReply` | `LogInv` |
| `LogOrderProofs!WaitersHaveReason` | `[]NeverForgotten` | inductive relative to `LogInv` |
| `AnyClientProofs!TypeCorrect` | `[]TypeOK` | a conjunct of `IInv` |
| `AnyClientProofs!NeverTwice` | `[]ServedOnce` | `IInv`: `Arrival`, `InPool`, `OneCallback` |
| `AnyClientProofs!AlwaysOwed` | `[]AnswerOwed` | a conjunct of `IInv` |
| `AnyClientProofs!AnswersBeforeExit` | `DrainsBeforeExit` | `IInv`, `NotLost`, `CleanEnd` |
| `IdleProofs!NothingLeftLying` | `[]IdleIsDone` | `IdleInv` |
| `IdleProofs!PoolSurvives` | a pool that is used up had a function at fault for each of its threads | `PoolInv` |
| `PrivsepProofs!DaemonIsAPeer` | `ImplementsAnyPeer` | step simulation under `Inv` |
| `PrivsepProofs!ClientIsAClient` | `ImplementsAnyClient` | step simulation under `Inv` |
| `PrivsepProofs!PromiseKept` | `ImplementsRemoteCall` | step simulation under `Inv`, `Delivered` |
| `PrivsepProofs!PairIsSafe` | nine invariants of the halves, of the pair | conjuncts of `Inv` |
| `PrivsepProofs!PairDrains` | `DrainsBeforeExit`, of the pair | `AnswersBeforeExit` through the refinement |
| `DeadlockProofs!OnlyGridlock` | `[](Deadlock => Gridlock)` | `PairInv` |
| `DeadlockProofs!DeadlockNeedsCalls` | `[]DeadlockTakesMany` | `OnlyGridlock` and counting |
| `DeadlockProofs!FewCallsNeverDeadlock` | at most `Capacity + 3` calls, or `2 * Capacity + 2` that do not log: `[]~Deadlock` | counting |
| `DeadlockProofs!GridlockLasts` | `[][Gridlock => Gridlock' \/ a process ends]_vars` | `PairInv` |
| `DeadlockProofs!WaitHasReason` | at a standstill, what a caller in `send_recv` can be waiting for | `PairInv`, `PoolInv` |
| `DeadlockProofs!FewCulpritsHarmNobodyElse` | at a standstill, with fewer such functions than threads, only their callers wait | `WaitHasReason`, `OneEach` |
| `DeadlockProofs!CloseWaitHasReason` | at a standstill, what `close` can be waiting for | `PairInv` |
| `DeadlockProofs!EveryStepIsProgress` | `[](Left \in Nat) /\ [][Left' < Left]_vars` | the variant `Left` |
| `PrivContextProofs!TypeCorrect` | `[]TypeOK` | a conjunct of `LockInv` |
| `PrivContextProofs!NeverReplaced` | `StartNeverReplaces` | `LockInv` |
| `PrivContextProofs!CalmCallsServed` | `[]CalmCallServed` | `CalmInv` |
| `PrivContextProofs!NoneForgotten` | `[]NoDaemonForgotten` | inductive relative to `CalmInv` |
| `PrivContextProofs!NobodyWaitsForNothing` | `[](Standstill => \A t \in InProgress : HeldUp(t))` | `CalmInv`, `Joined` |
| `PrivContextProofs!EveryStepIsProgress` | the same, and at most 16 steps a thread and 4 a channel | the variant `Left` |
| `StartupProofs!TypeCorrect` | `[]TypeOK` | inductive with `Progress` |
| `StartupProofs!PrivilegesDropped` | `[]ServesAsAsked` | `Progress`, `InStep` |
| `StartupProofs!LogIsRight` | `[]ReportsWhatItHas` | `Progress`, lemma `CapsRoundTrip` |
| `StartupProofs!EnoughIsEnough` | `[]EnoughPrivilegesServe` | a conjunct of `IInv`, from `Progress` |
| `StartupProofs!AcceptFindsOne`, `NothingLeft` | `[]AcceptReady`, `[]Tidy` | `InStep` |
| `StartupProofs!StandstillIsExcused` | `[]NothingElseWaits` | `NestedInv`, lemma `TwoHoldEachOther` |
| `StartupProofs!EveryStepIsProgress` | `[](Left \in Nat) /\ [][Left' < Left]_vars` | the variant `Left` |

`IInv`. `OwnReply` is not inductive: a state in which a message carries another
call's id would break it in one step. `IInv` adds that ids are drawn once and in
order (`Ids`), that whatever is on the wire or with the peer carries the id of the
call it names (`WireIds`), and that a Future therefore holds the data of its own
call or nothing (the rest of `IInv`); then `Mailbox` of a reply's id is the call it
belongs to or empty, which is what makes late replies harmless. For
`NoneStranded` it adds that a stopped reader implies a peer that is gone, so that
`Send` is disabled, and that `Notified(outstanding)` has left nobody waiting.

`LogInv`. A request is in one place at a time (`OnePlace`): in the FIFO, with
the peer, or answered. A record is written while the peer still has the
request, so it goes into the FIFO before the reply, and `LogAhead` says that it
stays ahead of it.

`IInv` of `AnyClientProofs`. `ServedOnce` counts, and a count says nothing of what is still
to come. `Arrival` adds that a call is requested and read once, `InPool` that a request
that was read is in the queue or with one pool thread and is executed on the
way from the one to the other, `OneCallback` that whoever is to answer it, the main
thread between `submit` and `add_done_callback` or the pool thread whose future
had the callback, is alone and finds it unanswered. `AnswersBeforeExit` adds where
the unfinished ones are (`NotLost`) and that the main thread leaves nothing but
a callback that raised (`CleanEnd`).

`NeverForgotten` says that every way out of the places of `OnePlace` leads to the Future:
`ReaderDeliver` takes a reply from the FIFO and notifies the very thread whose
entry has the msgid, which exists as long as that thread waits (`OutstandingExact`).

`IdleInv` adds to `IInv` of the daemon, besides `NotLost` and `CleanEnd`, that a finished
future's function was entered (`Ran`) and what has brought each thread to its
end (`Ends`): a pool thread is dead, or `loop()` was left early, only after a function
that raised. A daemon that stands still is then a case analysis: with an idle pool thread
the queue is empty, with room in the socket no callback waits, so what was read is
answered or was kept by a function.

`Inv` of `PrivsepProofs` is made of the invariants that were proved of the halves,
instantiated: `LogOrderProofs` with `pending` as what the daemon has read and not answered,
`IdleProofs` with `sent` as the requests that lie in the socket or were read from it
(`Written`). A step of the daemon is then `PeerRead`, `PeerReply`, `PeerLog`, `PeerExit` or
nothing to the client (`Simulates`); a step of the client is `Collect`, `CloseWrite`, a
`Request` or nothing to the daemon (`Acts`). Two facts of the pair make the latter
true, and they are inductive only together with the halves': a call that was
sent is never sent again, whatever its outcome, and its request bears its id
(`Started`); and the call that sends has the lock and the newest id (`Newest`), so the id
is greater than those written before. Since every step of the pair is one of both, each
half's invariant is preserved by the half's own proof. For the promise,
`Delivered` says that a reply on its way or in a Future was counted by the daemon; so
a call that returns a reply has run, and a request still in the pool's queue
has not returned one.

`PairInv`, deadlock. To `Inv` it adds that the lock is held only by a call that sends
(`Locks`), and what calls can have met while the reader thread lives (`Course`). In a
`Deadlock` the lock is held: else every waiting caller has, by `NeverForgotten`, its
request or its reply somewhere, the reader thread could take a reply, and the daemon
could read, or by `IdleIsDone` has answered, the request (`UnlockedMoves`). If it is held, its holder
is in `sendall` before a full FIFO, which the main thread does not empty because
it is in a callback, before the other full FIFO, which the reader thread does not empty because
it needs the lock (`LockedIsGridlock`). The calls of the requests and replies in the two FIFOs,
of the holder and of the callback are all different (`FourPlaces`, from
`OnePlace`) and none has returned (`AllBusy`), which gives the number; one reply at least is in
the socket and the PING is not among them, which gives `Capacity + 4`. `GridlockLasts`
needs no fairness: no thread of the cycle can move, and those outside it do not touch it.

`PoolInv`. `Deadlock` leaves out functions that hang or raise SystemExit, because they can
stop a call without any cycle of waits; the theorems about a `Standstill` say which
calls. `Culprits` are such functions that have been entered. `Spent`, which `IdleInv` does not
contain, says that a pool thread that has ended still has the call that ended it and that no two
threads have the same one, so a pool that is used up maps its threads one-to-one to culprits
(`OneEach`); `ReadAll` says that `loop()` leaves requests unread only because of one. A caller
that waits while the lock is free then has its request unread (the loop was ended), in the queue (the pool is
used up) or with a thread (its function is the culprit), by the case analysis of `UnlockedMoves`
without its assumption; if the lock is held it is the gridlock again or the loop was ended
(`WaitHasReason`). For `close` the list is shorter, since a half-closed socket needs
neither the lock nor room: `os._exit` of a forked daemon waits for nothing, `sys.exit` of the
helper's for the pool.

`Left`, the variants. Weak fairness makes a thread move as long as it can; that this comes to an
end is a fact about steps and is proved as one. In `PrivContext` and `Startup` every part
(thread, channel, helper, daemon, PING) has a rank that a step raises and none lowers, and `Left` counts the ranks still
ahead. In the pair work moves from one place to the next, so the places have weights: a request costs 10 before
it is sent, 9 in the socket, 5 in the queue and 3 more with `loop()`, 4 in a thread, 3 in a callback, 1
as a reply, and no step puts down more than it picks up. No thread polls, retries or hands
work back, whatever the other process does. So finitely many calls end or come to a state
in which no thread can move.

`LockInv`. `startLock` holds exactly the thread between the two ends of the
critical section, or the one that hangs in it, and `channel` is None throughout, as only `StartPublish` sets it.

`CalmInv`. A calm call began with the channel absent, up or with its end noticed, and since
then nothing happened but its own steps: `Serving` says at each statement of `_wrap`, `stop` and
`send_recv` what it knows of the channel. `Joined` adds that `close` joins only channels that it has
half-closed or that have ended, for `NobodyWaitsForNothing`; the rest of that theorem is who can hold a lock: only a
caller in `sendall` has the channel's, and one whose daemon is gone can move.

`IInv` of `StartupProofs`. `ServesAsAsked` speaks of the end of a sequence of calls, so
`Progress` says at each of them which fields of the credentials are still those
of the origin and which are already those asked for; the effective set, which
`setuid` may have emptied, is known again after `capset` only. That the masks
keep a set of capabilities is `MaskRoundTrip`: `Join(Low(m), High(m)) = m` for every
mask, whatever the word size; numbers that no pair of words can store never get
that far (`Storable`). `InStep` relates the thread in `start()`, the helper, the daemon and the
PING of one context: the daemon is not there before the fork, the helper only
runs while the client waits, a connected helper has left a connection, an answered PING had a
daemon that served.

`HeldInv` of `StartupProofs` adds who holds which descriptor when (`Held`) and what a start
has come to as the daemon sees it (`Met`): whoever has an end of a socket is alive, the helper
has one only until it returns, and a daemon has its own end. So a daemon that waits for
its socket to end waits for a live client or for another daemon.

`NestedInv` adds who holds more. `HoldEachOther`, the exception of `ExitsWithClient`,
speaks of two daemons, and the runs have only two contexts; three could hold each other's
sockets in a ring. They cannot without two of them doing so. `fork` gives the child every
open socket of the client, so a daemon that does not have another's socket was forked
before that socket was made, and whoever has that socket was forked later and has the daemon's own, too
(`Nested`; closing descriptors does not change it, as a process that ends closes
all that it has, `Fewer`). If daemons are left and none has escaped, each one's socket is
held by another. Of these daemons take one whose socket is held by a smallest set, which exists as only
finitely many contexts were started (`Busy`): unless it holds its holder's socket, that is
held by fewer (`TwoHoldEachOther`).

Only model-checked: liveness and ENABLED, which are outside the provers' reach; that is
`EveryCallReturns`, the two `CloseReturns`, `RequestAnswered`, `ExitsOnClose`, `CallReturns`,
`EveryCallEnds`, `StartEnds`, `ExitsWithClient`, `CloseEndsDaemon` and
`FailedStartLeavesNone`. Two of the three things they rest on are
proved. Nothing is at rest but in the ways that they except: `IdleIsDone`,
`OnlyGridlock`, `WaitHasReason`, `CloseWaitHasReason`, `NobodyWaitsForNothing`, `NothingElseWaits`. And
everything comes to rest: the three `EveryStepIsProgress`. The third, that under fairness nothing rests
before no thread can move, needs ENABLED. Every invariant, every action property
and every refinement that the passing runs check is proved, for all values of the constants.
`DeadlockTakesMany` and the statement of `NobodyWaitsForNothing` are the other way round, proved and in no run.
No module uses a RECURSIVE operator or needs induction over data; `TwoHoldEachOther`
rests on the library's facts about finite sets and well-founded orders.

## Where the code and its documentation disagree

Each has a run that exhibits it and an entry under "findings":

1. `comm.py:181` says that EOF sends an error "to any oustanding waiting readers".
   A thread whose reply has been delivered but that has not run yet gets it, too,
   and the reply is lost (`anypeer_eof`).
2. The release note on automatic restart promises that a helper that dies is
   restarted. After ECONNRESET the reader thread is gone and `running` stays True:
   waiting calls are never woken, and no restart happens (`anypeer_reset`). The PING
   is such a call: a daemon that fails to drop its privileges while the PING lies
   unread in its socket leaves `start()` waiting with `start_lock` held, where
   `exchange_ping` means to raise "Privsep daemon failed to start" (`ping = "lost"`).
3. `index.rst:50` promises `PrivsepTimeout` when the timeout is reached. A caller
   that cannot get the lock back does not return (`privsep_gridlock`).
4. `daemon.py:41` says that the daemon exits when the channel is closed. It does
   not while a function hangs (`anyclient_hung`), and the forked child may leave
   `ForkingClientChannel.__init__` by an exception (`anyclient_escape`).
   The same escape during a start, by `FailedToDropPrivileges` for one, hangs the start:
   the child keeps its socket open and does not answer the PING (the exception
   `Orphaned` of `StartEnds`).
5. `priv_context.py:319` says that the channel is always non-None at its use. Two
   threads that restart at once refute it (`privcontext_nonnone`).

6. `daemon.py:356` says of the sockets "Important that these sockets don't get leaked",
   and sets close-on-exec. Two contexts that are forked at the same time give
   each child the client's end of the other one's socket, and both daemons
   outlive the client (`startup_leak`).

One more has no run of its own; it is the exception that `ServesAsAsked` makes. `priv_context.py:56`
and `:58` describe the options as the user and group "that the privsep daemon should run
as". `setuid` and `setgid` skip the id 0 (`daemon.py:161`, `:175`), so that with "root" a daemon that was
not created as root serves as the user who created it, without an error. `PrivilegesDropped` proves
that this is the only way in which the options are not obeyed; the third situation of
`startup` has such a daemon.

## Not modelled

* `replace_logging` and `_fd_logger`, the framing of messages and `ServerChannel`'s
  locks: planned, see below.
* `chdir`, `umask`, flushing, `un_monkey_patch`: without effect on what follows in the
  models. A second start of a context in one process, and calls of one
  context's entry points inside the forked daemon of another, through the channel that
  it inherited.
* A `helper_command` that runs something else than privsep-helper in the end. If it exits
  with 0 and never connects, `accept` waits for ever, with `start_lock` held; `AcceptReady` is
  about privsep-helper itself, which connects before it forks.
* Namespaces, `securebits`, file capabilities and the bounding set: the kernel's rules
  are those of a process without them.
* `client_mode`: True in the unprivileged process, which is the one that `PrivContext` is
  about; inside the daemon a wrapped function is a plain call. That a context
  started with FORK restarts with ROOTWRAP has no effect beyond `StartFails`.
* Decorators, prefix checks, option registration, command lines: sequential code
  without state that a later step depends on.
* eventlet support, the test fixture, translations.
* `msgpack` itself, and a stream that is not one its `Unpacker` accepts.

## Plan

In the order in which the modules matter to a user of the library (6 and 7 are not written):

1. `Wire`, `ClientChannel`, `AnyPeer` with `AnyPeerProofs`, `LogOrderProofs`: done.
2. `Daemon`, `AnyClient` with `AnyClientProofs`, `IdleProofs`: done.
3. `RemoteCall`, `Privsep` with `PrivsepProofs`, `DeadlockProofs`: done.
4. `PrivContext` with `PrivContextProofs`: done.
5. `DropPrivs`, `Startup` with `StartupProofs`: done.
6. `Logging`: `replace_logging` and the two processes' handlers.
7. `MessageStream`: bytes, `wlock` and the `Unpacker`, implementing one direction
   of `Wire`.
