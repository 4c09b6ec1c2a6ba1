-------------------------------- MODULE Wire --------------------------------
(***************************************************************************)
(* The connected pair of Unix stream sockets between the unprivileged      *)
(* process (ClientChannel) and the privileged one (Daemon), and the        *)
(* messages on it.  comm.py serialises every message as one msgpack object *)
(* of the stream; a message is a record here and each direction a FIFO.    *)
(*                                                                         *)
(* c2s and s2c hold everything between the writer's sendall and the        *)
(* reader's next(): the kernel buffers and the Unpacker's.  A full FIFO    *)
(* blocks the writer, which is what a blocking sendall does.               *)
(***************************************************************************)
EXTENDS Naturals, Sequences

CONSTANTS Call,       \* the remote calls of the run, the initial PING included
          MsgId,      \* the ids that generate_uuid can return; bounded for TLC
          Capacity,   \* how many messages each direction buffers
          Logging     \* the calls that make the daemon log

ASSUME WireAssumption == /\ Capacity \in Nat \ {0} /\ Logging \subseteq Call
                         /\ MsgId \subseteq Nat \ {0}

VARIABLES c2s,        \* requests written by the client, not yet read
          s2c,        \* replies and log records, not yet handled
          chan,       \* client's write half: "open", "shut" (SHUT_WR), "joined"
          peer,       \* the daemon's end: "up", or how recv reports its end
          emitted     \* history: the calls that wrote a log record to s2c

wireVars == <<c2s, s2c, chan, peer, emitted>>

(***************************************************************************)
(* A request and its reply are (msgid, data) pairs.  What the functions    *)
(* compute is opaque: the data of a reply names the call that it answers.  *)
(* A log record is the pair (None, (LOG, data)), NoMsgId standing for None.*)
(***************************************************************************)
NoMsgId == 0
Message == [id : Nat, call : Call]
LogRecord(c) == [id |-> NoMsgId, call |-> c]

WireInit == /\ c2s = <<>>
            /\ s2c = <<>>
            /\ chan = "open"
            /\ peer = "up"
            /\ emitted = {}

WireTypeOK == /\ c2s \in Seq(Message) /\ Len(c2s) <= Capacity
              /\ s2c \in Seq(Message) /\ Len(s2c) <= Capacity
              /\ chan \in {"open", "shut", "joined"}
              /\ peer \in {"up", "closed", "reset"}
              /\ emitted \in SUBSET Call

(***************************************************************************)
(* The daemon's end is closed, by an exit or a kill.  The client's recv    *)
(* then drains s2c and reports the end: b'', or ECONNRESET when the kernel *)
(* discards request bytes that nobody had read (see README, "Sockets").    *)
(***************************************************************************)
PeerEnds == /\ peer = "up"
            /\ peer' \in IF c2s = <<>> THEN {"closed"} ELSE {"closed", "reset"}

(***************************************************************************)
(* sendall on the client's socket: EPIPE once either end is gone, blocked  *)
(* while the FIFO is full.                                                 *)
(***************************************************************************)
CanWrite == peer = "up" /\ chan = "open"

\* Wrong on purpose: takes one message too many.
RoomForOneMore(fifo) == Len(fifo) <= Capacity

Room(fifo) == Len(fifo) < Capacity
=============================================================================
