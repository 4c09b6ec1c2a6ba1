--------------------------- MODULE StartupProofs ---------------------------
(***************************************************************************)
(* The invariants of Startup, for any contexts, any word size and any      *)
(* options and credentials, and what bounds its behaviours: every step is  *)
(* progress.                                                               *)
(***************************************************************************)
EXTENDS Startup, FiniteSetTheorems, WellFoundedInduction, TLAPS

(***************************************************************************)
(* The masks: drop_all_caps_except gives the kernel the capabilities of    *)
(* the list, whichever word they fall into, and get_caps reads them back.  *)
(***************************************************************************)
LEMMA MaskRoundTrip ==
    ASSUME NEW mask \in Mask
    PROVE  Join(Low(mask), High(mask)) = mask
<1> USE CapAssumption DEF Mask, Join, Low, High
<1>1. ASSUME NEW b \in mask PROVE b \in Join(Low(mask), High(mask))
  <2>1. CASE b < Word BY <2>1
  <2>2. CASE ~(b < Word)
    <3>1. b \in Nat /\ Word \in Nat /\ b >= Word BY <2>2
    <3>2. b - Word \in High(mask) BY <3>1
    <3>3. b = (b - Word) + Word BY <3>1
    <3> QED BY <3>2, <3>3
  <2> QED BY <2>1, <2>2
<1>2. ASSUME NEW b \in Join(Low(mask), High(mask)) PROVE b \in mask
  <2>1. CASE b \in Low(mask) BY <2>1
  <2>2. CASE b \in {x + Word : x \in High(mask)}
    <3>1. PICK x \in mask : x >= Word /\ b = (x - Word) + Word BY <2>2
    <3>2. x \in Nat /\ Word \in Nat OBVIOUS
    <3>3. b = x BY <3>1, <3>2
    <3> QED BY <3>3
  <2> QED BY <1>2, <2>1, <2>2
<1> QED BY <1>1, <1>2

LEMMA CapsRoundTrip ==
    ASSUME NEW caps \in SUBSET KnownCap
    PROVE  MaskToCaps(Join(Low(caps), High(caps))) = caps
<1>1. caps \in Mask BY CapAssumption DEF Mask
<1>2. Join(Low(caps), High(caps)) = caps BY <1>1, MaskRoundTrip
<1> QED BY <1>2, CapAssumption DEF MaskToCaps

LEMMA GivenCaps ==
    ASSUME NEW caps, Storable(caps)
    PROVE  Given(caps) = caps \cap KnownCap
BY MaskRoundTrip DEF Storable, Given

LEMMA AllStorable ==
    ASSUME NEW caps, caps \subseteq 0 .. (2 * Word - 1)
    PROVE  Storable(caps)
<1>1. caps \in Mask BY DEF Mask
<1>2. ASSUME NEW b \in High(caps) PROVE b < Word
  <2>1. PICK x \in caps : x >= Word /\ b = x - Word BY DEF High
  <2>2. x \in Nat /\ Word \in Nat /\ x <= 2 * Word - 1 BY CapAssumption
  <2> QED BY <2>1, <2>2
<1> QED BY <1>1, <1>2 DEF Storable

-----------------------------------------------------------------------------
(* The inductive invariant *)

\* What comes of the options of a context is what they ask for, but for a daemon
\* that should become root.
LEMMA UnraisedOnly ==
    ASSUME NEW c \in Context, ~RootUser(c), ~RootGroup(c)
    PROVE  Unraised(c) = AskedFor(c)
<1>1. Kept(conf[c].user, conf[c].origin.uid) = Chosen(conf[c].user, conf[c].origin.uid)
      BY DEF Chosen, Kept, RootUser
<1>2. Kept(conf[c].group, conf[c].origin.gid) = Chosen(conf[c].group, conf[c].origin.gid)
      BY DEF Chosen, Kept, RootGroup
<1> QED BY <1>1, <1>2 DEF Unraised, AskedFor

\* What the daemon has of that when it comes to each call.
Progress(c) ==
    LET o == conf[c].origin
        k == cred[c]
    IN /\ daemon[c] \in {"none", "keepcaps"} => k = o
       /\ daemon[c] \in {"setgroups", "setgid", "setuid"} =>
              k.eff = o.eff /\ k.uid = o.uid
       /\ daemon[c] \in {"setgroups", "setgid", "setuid", "nokeep", "capset"} =>
              /\ k.prm = o.prm
              /\ k.keep = (daemon[c] # "capset")
       /\ daemon[c] \in {"setgroups", "setgid"} =>
              conf[c].group # Unset /\ k.gid = o.gid
       /\ daemon[c] = "setgid" => k.groups = {}
       /\ daemon[c] \in {"setuid", "nokeep", "capset"} =>
              k.gid = Unraised(c).gid /\ k.groups = Unraised(c).groups
       /\ daemon[c] = "setuid" => conf[c].user # Unset
       /\ daemon[c] \in {"nokeep", "capset"} => k.uid = Unraised(c).uid
       /\ daemon[c] \in {"capget", "stdio", "serving"} => k = Unraised(c)
       /\ daemon[c] \in {"stdio", "serving"} => shown[c] = k.eff

\* How far the client, the helper and the daemon are with respect to each other.
InStep(c) ==
    /\ start[c] \in {"idle", "paired", "listening"} => daemon[c] = "none"
    /\ helper[c] \in {"running", "connected"} => daemon[c] = "none"
    /\ helper[c] \in {"running", "connected", "forked"} => start[c] = "waiting"
    /\ helper[c] \in {"connected", "forked", "ok"} => sock[c].connected
    /\ start[c] = "accepting" => sock[c].connected
    /\ tmpdir[c] = "there" =>
           start[c] \in {"listening", "waiting", "accepting", "accepted", "aborted"}
    /\ tmpdir[c] = "left" => start[c] = "failed"
    /\ ping[c] # "none" => start[c] \in {"pinging", "started", "closing", "stopped", "failed"}
    /\ ping[c] \in {"read", "answered"} \/ start[c] \in {"started", "closing", "stopped"} =>
           \/ daemon[c] = "exited"
           \/ daemon[c] \in {"serving", "raised"} /\ cred[c] = Unraised(c)

IInv == /\ TypeOK
        /\ EnoughPrivilegesServe
        /\ \A c \in Context : Progress(c) /\ InStep(c)
-----------------------------------------------------------------------------
(* Types *)

\* What closing descriptors yields is a state of the sockets.
LEMMA SocketTypes ==
    ASSUME TypeOK
    PROVE  /\ \A c \in Context, p \in SUBSET Process, q \in SUBSET Process, b \in BOOLEAN :
                  /\ [sock EXCEPT ![c].client = p] \in [Context -> Socket]
                  /\ [sock EXCEPT ![c].daemon = q] \in [Context -> Socket]
                  /\ [sock EXCEPT ![c].shut = b] \in [Context -> Socket]
                  /\ [sock EXCEPT ![c].client = p, ![c].daemon = q] \in [Context -> Socket]
                  /\ [sock EXCEPT ![c].daemon = q, ![c].connected = b] \in [Context -> Socket]
                  /\ [sock EXCEPT ![c] = [client |-> p, daemon |-> q,
                                          connected |-> b, shut |-> FALSE]]
                         \in [Context -> Socket]
           /\ \A c \in Context : /\ sock[c].client \in SUBSET Process
                                 /\ sock[c].daemon \in SUBSET Process
                                 /\ Inherit(c) \in [Context -> Socket]
           /\ \A p : Released(p) \in [Context -> Socket]
<1>t. sock \in [Context -> Socket]
      BY DEF TypeOK
<1>1. ASSUME NEW c \in Context
      PROVE  sock[c].client \in SUBSET Process /\ sock[c].daemon \in SUBSET Process
      BY <1>t DEF Socket
<1>2. ASSUME NEW c \in Context, NEW p \in SUBSET Process, NEW q \in SUBSET Process,
             NEW b \in BOOLEAN
      PROVE  /\ [sock EXCEPT ![c].client = p] \in [Context -> Socket]
             /\ [sock EXCEPT ![c].daemon = q] \in [Context -> Socket]
             /\ [sock EXCEPT ![c].shut = b] \in [Context -> Socket]
             /\ [sock EXCEPT ![c].client = p, ![c].daemon = q] \in [Context -> Socket]
             /\ [sock EXCEPT ![c].daemon = q, ![c].connected = b] \in [Context -> Socket]
             /\ [sock EXCEPT ![c] = [client |-> p, daemon |-> q,
                                     connected |-> b, shut |-> FALSE]]
                    \in [Context -> Socket]
  <2>1. [sock EXCEPT ![c].client = p] \in [Context -> Socket] BY <1>t DEF Socket
  <2>2. [sock EXCEPT ![c].daemon = q] \in [Context -> Socket] BY <1>t DEF Socket
  <2>3. [sock EXCEPT ![c].shut = b] \in [Context -> Socket] BY <1>t DEF Socket
  <2>4. [sock EXCEPT ![c].client = p, ![c].daemon = q] \in [Context -> Socket]
    <3>1. [sock[c] EXCEPT !.client = p, !.daemon = q] \in Socket BY <1>t DEF Socket
    <3>2. [sock EXCEPT ![c].client = p, ![c].daemon = q]
             = [sock EXCEPT ![c] = [sock[c] EXCEPT !.client = p, !.daemon = q]]
          BY <1>t
    <3> QED BY <1>t, <3>1, <3>2
  <2>5. [sock EXCEPT ![c].daemon = q, ![c].connected = b] \in [Context -> Socket]
    <3>1. [sock[c] EXCEPT !.daemon = q, !.connected = b] \in Socket BY <1>t DEF Socket
    <3>2. [sock EXCEPT ![c].daemon = q, ![c].connected = b]
             = [sock EXCEPT ![c] = [sock[c] EXCEPT !.daemon = q, !.connected = b]]
          BY <1>t
    <3> QED BY <1>t, <3>1, <3>2
  <2>6. [sock EXCEPT ![c] = [client |-> p, daemon |-> q,
                             connected |-> b, shut |-> FALSE]]
            \in [Context -> Socket] BY <1>t DEF Socket
  <2> QED BY <2>1, <2>2, <2>3, <2>4, <2>5, <2>6
<1>3. ASSUME NEW c \in Context PROVE Inherit(c) \in [Context -> Socket]
  <2>1. c \in Process BY DEF Process
  <2>2. ASSUME NEW d \in Context PROVE Inherit(c)[d] \in Socket
    <3>1. sock[d] \in Socket BY <1>t
    <3> QED BY <1>1, <2>1, <3>1 DEF Inherit, Socket
  <2> QED BY <2>2 DEF Inherit
<1>4. ASSUME NEW p PROVE Released(p) \in [Context -> Socket]
  <2>1. ASSUME NEW d \in Context PROVE Released(p)[d] \in Socket
        BY <1>1, <1>t DEF Released, Socket
  <2> QED BY <2>1 DEF Released
<1> QED BY <1>1, <1>2, <1>3, <1>4

LEMMA SocketsTypes ==
    ASSUME TypeOK, NEW new \in [Context -> Socket], Sockets(new)
    PROVE  /\ sock' \in [Context -> Socket]
           /\ ping' \in [Context -> {"none", "sent", "read", "answered", "lost"}]
BY DEF TypeOK, Sockets

LEMMA TypeStart ==
    ASSUME TypeOK, NEW c \in Context,
           \/ Socketpair(c) \/ Listen(c) \/ Close(c) \/ Fork(c) \/ CloseSockB(c)
           \/ NoFork(c) \/ Popen(c) \/ HelperOk(c) \/ Accept(c) \/ Abort(c)
           \/ CleanUp(c) \/ CleanUpFails(c)
           \/ SendPing(c) \/ Started(c) \/ PingFails(c) \/ CloseJoin(c)
    PROVE  TypeOK'
<1> USE DEF TypeOK, StartAt, dropVars
<1> {"client"} \in SUBSET Process BY DEF Process
<1> \A p \in SUBSET Process : p \ {"client"} \in SUBSET Process OBVIOUS
<1>1. CASE Socketpair(c) BY <1>1, SocketTypes DEF Socketpair, DropTypeOK
<1>2. CASE Listen(c) BY <1>2, SocketTypes DEF Listen, DropTypeOK
<1>3. CASE Close(c) BY <1>3, SocketTypes DEF Close, DropTypeOK
<1>4. CASE Fork(c) BY <1>4, SocketTypes DEF Fork, Goto, DropTypeOK, Dropping
<1>5. CASE CloseSockB(c) BY <1>5, SocketTypes DEF CloseSockB, DropTypeOK
<1>6. CASE NoFork(c) BY <1>6, SocketTypes DEF NoFork, DropTypeOK
<1>7. CASE Popen(c) BY <1>7 DEF Popen, DropTypeOK
<1>8. CASE HelperOk(c) BY <1>8 DEF HelperOk, DropTypeOK
<1>9. CASE Accept(c) BY <1>9, SocketTypes DEF Accept, DropTypeOK
<1>10. CASE Abort(c) BY <1>10, SocketTypes DEF Abort, DropTypeOK
<1>11. CASE SendPing(c) BY <1>11 DEF SendPing, DropTypeOK
<1>12. CASE Started(c) BY <1>12 DEF Started, DropTypeOK
<1>13. CASE PingFails(c) BY <1>13 DEF PingFails, DropTypeOK
<1>14. CASE CleanUp(c) BY <1>14 DEF CleanUp, DropTypeOK
<1>15. CASE CleanUpFails(c) BY <1>15, SocketTypes DEF CleanUpFails, DropTypeOK
<1>16. CASE CloseJoin(c) BY <1>16 DEF CloseJoin, DropTypeOK
<1> QED BY <1>1, <1>2, <1>3, <1>4, <1>5, <1>6, <1>7, <1>8, <1>9, <1>10, <1>11,
           <1>12, <1>13, <1>14, <1>15, <1>16

LEMMA TypeHelper ==
    ASSUME TypeOK, NEW c \in Context,
           Connect(c) \/ HelperForks(c) \/ HelperReturns(c) \/ HelperFails(c)
    PROVE  TypeOK'
<1> USE DEF TypeOK, HelperAt, dropVars
<1>1. /\ {"helper"} \in SUBSET Process
      /\ sock[c].daemon \cup {c} \in SUBSET Process
      /\ sock[c].daemon \ {"helper"} \in SUBSET Process
      BY SocketTypes DEF Process
<1>2. [sock EXCEPT ![c].daemon = @ \ {"helper"}] \in [Context -> Socket]
      BY <1>1, SocketTypes
<1>3. CASE Connect(c)
  <2>1. sock' \in [Context -> Socket] BY <1>1, <1>3, SocketTypes DEF Connect
  <2> QED BY <1>3, <2>1 DEF Connect, DropTypeOK
<1>4. CASE HelperForks(c)
  <2>1. sock' \in [Context -> Socket] BY <1>1, <1>4, SocketTypes DEF HelperForks
  <2> QED BY <1>4, <2>1 DEF HelperForks, Goto, DropTypeOK, Dropping
<1>5. CASE HelperReturns(c)
  <2>1. /\ sock' \in [Context -> Socket]
        /\ ping' \in [Context -> {"none", "sent", "read", "answered", "lost"}]
        BY <1>2, <1>5, SocketsTypes DEF HelperReturns
  <2> QED BY <1>5, <2>1 DEF HelperReturns, DropTypeOK
<1>6. CASE HelperFails(c)
  <2>1. /\ sock' \in [Context -> Socket]
        /\ ping' \in [Context -> {"none", "sent", "read", "answered", "lost"}]
        BY <1>2, <1>6, SocketsTypes DEF HelperFails
  <2> QED BY <1>6, <2>1 DEF HelperFails, DropTypeOK
<1> QED BY <1>3, <1>4, <1>5, <1>6

\* Each call leaves credentials.
LEMMA TypeDrop ==
    ASSUME DropTypeOK, NEW c \in Context, Progress(c), DropStep(c) \/ Fault(c)
    PROVE  DropTypeOK'
<1> USE DEF DropTypeOK, Goto, Dropping
<1>1. NextCall(c) \in Dropping BY DEF NextCall
<1>2. /\ cred[c] \in Cred /\ conf[c] \in Conf
      /\ daemon[c] = "setgid" => conf[c].group # Unset
      /\ daemon[c] = "setuid" => conf[c].user # Unset
      BY DEF Progress
<1>3. CASE KeepCaps(c)
  <2>1. [cred[c] EXCEPT !.keep = TRUE] \in Cred BY <1>2 DEF Cred
  <2>2. cred' \in [Context -> Cred] BY <1>3, <2>1 DEF KeepCaps
  <2> QED BY <1>1, <1>3, <2>2 DEF KeepCaps
<1>4. CASE SetGroups(c) BY <1>1, <1>4 DEF SetGroups, Refused, Cred
<1>5. CASE SetGid(c)
  <2>1. CASE cred' = cred BY <1>1, <1>5, <2>1 DEF SetGid, Refused
  <2>2. CASE cred' = [cred EXCEPT ![c].gid = conf[c].group] /\ daemon[c] = "setgid"
    <3>1. conf[c].group \in Id BY <1>2, <2>2 DEF Conf
    <3>2. [cred[c] EXCEPT !.gid = conf[c].group] \in Cred BY <1>2, <3>1 DEF Cred
    <3>3. cred' \in [Context -> Cred] BY <2>2, <3>2
    <3> QED BY <1>1, <1>5, <3>3 DEF SetGid, Refused
  <2> QED BY <1>5, <2>1, <2>2 DEF SetGid, Refused
<1>6. CASE SetUid(c)
  <2>1. CASE cred' = cred BY <1>1, <1>6, <2>1 DEF SetUid, Refused
  <2>2. CASE /\ cred' = [cred EXCEPT ![c] = Became(@, conf[c].user)]
             /\ Goto(c, NextCall(c)) /\ daemon[c] = "setuid"
    <3>1. conf[c].user \in Id BY <1>2, <2>2 DEF Conf
    <3>2. Became(cred[c], conf[c].user) \in Cred BY <1>2, <3>1 DEF Became, Cred
    <3>3. cred' \in [Context -> Cred] BY <2>2, <3>2
    <3> QED BY <1>1, <1>6, <2>2, <3>3 DEF SetUid
  <2> QED BY <1>6, <2>1, <2>2 DEF SetUid, Refused
<1>7. CASE NoKeepCaps(c)
  <2>1. [cred[c] EXCEPT !.keep = FALSE] \in Cred BY <1>2 DEF Cred
  <2>2. cred' \in [Context -> Cred] BY <1>7, <2>1 DEF NoKeepCaps
  <2> QED BY <1>7, <2>2 DEF NoKeepCaps
<1>8. CASE DropCaps(c)
  <2>1. Given(conf[c].caps) \in SUBSET KnownCap BY DEF Given
  <2>2. [cred[c] EXCEPT !.eff = Given(conf[c].caps), !.prm = Given(conf[c].caps),
                        !.inh = {}] \in Cred
        BY <1>2, <2>1 DEF Cred
  <2>3. cred' \in [Context -> Cred] BY <1>8, <2>2 DEF DropCaps
  <2> QED BY <1>8, <2>3 DEF DropCaps
<1>9. CASE GetCaps(c)
  <2>1. \A mask : MaskToCaps(mask) \in SUBSET (0 .. (2 * Word - 1)) BY DEF MaskToCaps
  <2> QED BY <1>9, <2>1 DEF GetCaps
<1>10. CASE CloseStdio(c) BY <1>10 DEF CloseStdio
<1>11. CASE Fault(c) BY <1>11 DEF Fault
<1> QED BY <1>3, <1>4, <1>5, <1>6, <1>7, <1>8, <1>9, <1>10, <1>11 DEF DropStep

LEMMA TypeDaemon ==
    ASSUME TypeOK, NEW c \in Context, Progress(c), DaemonStep(c) \/ Failure(c)
    PROVE  TypeOK'
<1> USE DEF TypeOK
<1>1. ASSUME Ends(c), UNCHANGED <<client, start, helper, tmpdir>> PROVE TypeOK'
  <2>1. /\ sock' \in [Context -> Socket]
        /\ ping' \in [Context -> {"none", "sent", "read", "answered", "lost"}]
        BY <1>1, SocketTypes, SocketsTypes DEF Ends
  <2>2. conf[c].origin \in Cred BY DEF DropTypeOK, Conf
  <2>3. DropTypeOK' BY <1>1, <2>2 DEF Ends, Goto, DropTypeOK, Dropping
  <2> QED BY <1>1, <2>1, <2>3
<1>2. CASE DropPrivs(c) BY <1>2, TypeDrop DEF DropPrivs
<1>3. CASE DropFails(c) BY <1>3, TypeDrop DEF DropFails
<1>4. CASE ReadPing(c) BY <1>4 DEF ReadPing, DropTypeOK, dropVars
<1>5. CASE Pong(c) BY <1>5 DEF Pong, DropTypeOK, dropVars
<1>6. CASE EofRaises(c) BY <1>6 DEF EofRaises, Goto, DropTypeOK, Dropping
<1>7. CASE Eof(c) \/ HelperExits(c) \/ ChildEnds(c) \/ Crash(c)
      BY <1>1, <1>7 DEF Eof, HelperExits, ChildEnds, Crash
<1>8. CASE NoFork(c) \/ Abort(c) \/ CleanUpFails(c) BY <1>8, TypeStart
<1>9. CASE HelperFails(c) BY <1>9, TypeHelper
<1> QED BY <1>2, <1>3, <1>4, <1>5, <1>6, <1>7, <1>8, <1>9 DEF DaemonStep, Failure

LEMMA TypeDies ==
    ASSUME TypeOK, ClientDies
    PROVE  TypeOK'
<1>1. /\ sock' \in [Context -> Socket]
      /\ ping' \in [Context -> {"none", "sent", "read", "answered", "lost"}]
      BY SocketTypes, SocketsTypes DEF ClientDies
<1> QED BY <1>1 DEF ClientDies, TypeOK, DropTypeOK, dropVars

LEMMA TypeStep ==
    ASSUME IInv, [Next]_vars
    PROVE  TypeOK'
<1>1. ASSUME NEW c \in Context, StartStep(c) \/ Socketpair(c) \/ Listen(c) \/ Close(c)
      PROVE  TypeOK'
      BY <1>1, TypeStart DEF StartStep, IInv
<1>2. ASSUME NEW c \in Context, HelperStep(c) PROVE TypeOK'
      BY <1>2, TypeHelper DEF HelperStep, IInv
<1>3. ASSUME NEW c \in Context, DaemonStep(c) \/ Failure(c) PROVE TypeOK'
      BY <1>3, TypeDaemon DEF IInv
<1>4. CASE ClientDies BY <1>4, TypeDies DEF IInv
<1>5. CASE UNCHANGED vars BY <1>5 DEF IInv, TypeOK, DropTypeOK, vars, dropVars
<1> QED BY <1>1, <1>2, <1>3, <1>4, <1>5 DEF Next

-----------------------------------------------------------------------------
(* Credentials.  Only the steps of a daemon change what Progress is about. *)

LEMMA ProgressDrop ==
    ASSUME DropTypeOK, NEW c \in Context, Progress(c), DropStep(c)
    PROVE  Progress(c)'
<1> USE DEF Progress, DropTypeOK, Goto, Dropping
<1>1. conf[c] \in Conf /\ conf'[c] = conf[c] /\ Unraised(c)' = Unraised(c)
      BY DEF DropStep, KeepCaps, SetGroups, SetGid, SetUid, NoKeepCaps, DropCaps,
             GetCaps, CloseStdio, Unraised, Dropped, Kept
<1>2. /\ cred[c] \in Cred /\ conf[c].origin \in Cred BY <1>1 DEF Conf
<1>3. CASE KeepCaps(c)
  <2>1. cred'[c] = [conf[c].origin EXCEPT !.keep = TRUE] BY <1>3 DEF KeepCaps
  <2>2. /\ cred'[c].keep = TRUE
        /\ cred'[c].uid = conf[c].origin.uid /\ cred'[c].gid = conf[c].origin.gid
        /\ cred'[c].groups = conf[c].origin.groups
        /\ cred'[c].eff = conf[c].origin.eff /\ cred'[c].prm = conf[c].origin.prm
        BY <1>2, <2>1 DEF Cred
  <2>3. \/ daemon'[c] = "setgroups" /\ conf[c].group # Unset
        \/ daemon'[c] = "setuid" /\ conf[c].group = Unset /\ conf[c].user # Unset
        \/ daemon'[c] = "nokeep" /\ conf[c].group = Unset /\ conf[c].user = Unset
        BY <1>3 DEF KeepCaps, NextCall
  <2> QED BY <1>1, <2>2, <2>3 DEF Unraised, Dropped, Kept
<1>4. CASE SetGroups(c)
  <2>1. CASE Refused(c) BY <1>1, <1>4, <2>1 DEF SetGroups, Refused
  <2>2. CASE cred' = [cred EXCEPT ![c].groups = {}] /\ Goto(c, NextCall(c))
    <3>1. daemon[c] = "setgroups" /\ daemon'[c] = "setgid"
          BY <1>4, <2>2 DEF SetGroups, NextCall
    <3>2. cred'[c] = [cred[c] EXCEPT !.groups = {}] BY <2>2
    <3> QED BY <1>1, <1>2, <3>1, <3>2 DEF Cred
  <2> QED BY <1>4, <2>1, <2>2 DEF SetGroups
<1>5. CASE SetGid(c)
  <2>1. /\ daemon[c] = "setgid"
        /\ Unraised(c).groups = {}
        /\ Unraised(c).gid = IF conf[c].group = "root" THEN cred[c].gid ELSE conf[c].group
        /\ conf[c].user = Unset => Unraised(c).uid = conf[c].origin.uid
        BY <1>5 DEF SetGid, Unraised, Dropped, Kept, Unset
  <2>2. CASE Refused(c) BY <1>1, <1>5, <2>2 DEF SetGid, Refused
  <2>3. CASE ~Refused(c)
    <3>1. daemon'[c] = IF conf[c].user = Unset THEN "nokeep" ELSE "setuid"
          BY <1>5, <2>3 DEF SetGid, NextCall
    <3>2. cred'[c] = [cred[c] EXCEPT !.gid = Unraised(c).gid]
          BY <1>2, <1>5, <2>1, <2>3 DEF SetGid, Cred
    <3>3. /\ cred'[c].gid = Unraised(c).gid
          /\ cred'[c].groups = {} /\ cred'[c].uid = conf[c].origin.uid
          /\ cred'[c].keep = TRUE /\ cred'[c].eff = conf[c].origin.eff
          /\ cred'[c].prm = conf[c].origin.prm
          BY <1>2, <2>1, <3>2 DEF Cred
    <3> QED BY <1>1, <2>1, <3>1, <3>3
  <2> QED BY <2>2, <2>3
<1>6. CASE SetUid(c)
  <2>1. /\ daemon[c] = "setuid"
        /\ Unraised(c).uid = IF conf[c].user = "root" THEN cred[c].uid ELSE conf[c].user
        BY <1>6 DEF SetUid, Unraised, Dropped, Kept, Unset
  <2>2. CASE Refused(c) BY <1>1, <1>6, <2>2 DEF SetUid, Refused
  <2>3. CASE ~Refused(c)
    <3>1. daemon'[c] = "nokeep" BY <1>6, <2>3 DEF SetUid, NextCall
    <3>2. \/ conf[c].user = "root" /\ cred'[c] = cred[c]
          \/ conf[c].user # "root" /\ cred'[c] = Became(cred[c], conf[c].user)
          BY <1>6, <2>3 DEF SetUid
    <3>3. /\ cred'[c].uid = Unraised(c).uid
          /\ cred'[c].gid = cred[c].gid /\ cred'[c].groups = cred[c].groups
          /\ cred'[c].keep = TRUE /\ cred'[c].prm = cred[c].prm
      <4>1. CASE cred'[c] = cred[c] /\ conf[c].user = "root"
            BY <1>2, <2>1, <4>1 DEF Cred
      <4>2. CASE /\ conf[c].user # "root"
                 /\ cred'[c] = [cred[c] EXCEPT !.uid = conf[c].user]
            BY <1>2, <2>1, <4>2 DEF Cred
      <4>3. CASE /\ conf[c].user # "root"
                 /\ cred'[c] = [cred[c] EXCEPT !.uid = conf[c].user, !.eff = {},
                                               !.prm = cred[c].prm]
            BY <1>2, <2>1, <4>3 DEF Cred
      <4>4. cred[c].keep = TRUE BY <2>1
      <4> QED BY <3>2, <4>1, <4>2, <4>3, <4>4 DEF Became
    <3> QED BY <1>1, <2>1, <3>1, <3>3
  <2> QED BY <2>2, <2>3
<1>7. CASE NoKeepCaps(c)
  <2>1. cred'[c] = [cred[c] EXCEPT !.keep = FALSE] BY <1>7 DEF NoKeepCaps
  <2>2. \/ daemon[c] = "nokeep" /\ daemon'[c] = "capset"
        \/ daemon'[c] = "raised"
        BY <1>7 DEF NoKeepCaps
  <2> QED BY <1>1, <1>2, <2>1, <2>2 DEF Cred
<1>8. CASE DropCaps(c)
  <2>1. CASE daemon'[c] = "raised" BY <1>1, <2>1
  <2>2. CASE daemon'[c] # "raised"
    <3>1. daemon[c] = "capset" /\ daemon'[c] = "capget" BY <1>8, <2>2 DEF DropCaps
    <3>2. Given(conf[c].caps) = conf[c].caps \cap KnownCap
          BY <1>8, <2>2, GivenCaps DEF DropCaps
    <3>3. cred'[c] = [cred[c] EXCEPT !.eff = conf[c].caps \cap KnownCap,
                                     !.prm = conf[c].caps \cap KnownCap, !.inh = {}]
          BY <1>8, <2>2, <3>2 DEF DropCaps
    <3>4. cred'[c] = Unraised(c)
      <4>1. /\ Unraised(c).uid = cred[c].uid /\ Unraised(c).gid = cred[c].gid
            /\ Unraised(c).groups = cred[c].groups /\ cred[c].keep = FALSE
            BY <3>1
      <4> QED BY <1>2, <3>3, <4>1 DEF Unraised, Dropped, Cred
    <3> QED BY <1>1, <3>1, <3>4
  <2> QED BY <2>1, <2>2
<1>9. CASE GetCaps(c)
  <2>1. cred'[c].eff \in SUBSET KnownCap /\ cred'[c] = cred[c] BY <1>2, <1>9 DEF GetCaps, Cred
  <2>2. shown'[c] = cred'[c].eff BY <1>9, <2>1, CapsRoundTrip DEF GetCaps
  <2> QED BY <1>1, <1>9, <2>1, <2>2 DEF GetCaps
<1>10. CASE CloseStdio(c) BY <1>1, <1>10 DEF CloseStdio
<1> QED BY <1>3, <1>4, <1>5, <1>6, <1>7, <1>8, <1>9, <1>10 DEF DropStep

\* The daemon of a context that has enough is not refused anything.
LEMMA NotRefused ==
    ASSUME DropTypeOK, NEW c \in Context, Progress(c), DropStep(c), Sufficient(c),
           daemon[c] \notin {"cleanup", "raised"}
    PROVE  daemon'[c] \notin {"cleanup", "raised"}
<1> USE DEF Progress, DropTypeOK, Goto
<1>1. NextCall(c) \notin {"cleanup", "raised"} BY DEF NextCall
<1>2. CASE KeepCaps(c) BY <1>1, <1>2 DEF KeepCaps
<1>3. CASE SetGroups(c) BY <1>1, <1>3 DEF SetGroups, Sufficient
<1>4. CASE SetGid(c) BY <1>1, <1>4 DEF SetGid, Sufficient
<1>5. CASE SetUid(c) BY <1>1, <1>5 DEF SetUid, Sufficient
<1>6. CASE NoKeepCaps(c) BY <1>6 DEF NoKeepCaps
<1>7. CASE DropCaps(c)
  <2>1. Storable(conf[c].caps) BY AllStorable DEF Sufficient
  <2>2. MaySet(c, conf[c].caps)
        BY <1>7, <2>1, GivenCaps DEF MaySet, DropCaps, Sufficient
  <2> QED BY <1>7, <2>1, <2>2 DEF DropCaps
<1>8. CASE GetCaps(c) \/ CloseStdio(c) BY <1>8 DEF GetCaps, CloseStdio
<1> QED BY <1>2, <1>3, <1>4, <1>5, <1>6, <1>7, <1>8 DEF DropStep

\* A daemon is created, ends or has an exception, or nothing happens to it.
LEMMA ProgressElse ==
    ASSUME TypeOK, NEW c \in Context, Progress(c), conf' = conf,
           \/ UNCHANGED <<daemon[c], cred[c], shown[c]>>
           \/ daemon[c] = "none" /\ daemon'[c] = "keepcaps" /\ cred' = cred
           \/ daemon'[c] \in {"cleanup", "raised", "exited"}
    PROVE  Progress(c)'
BY DEF Progress, Unraised, Dropped, Kept

LEMMA ProgressOthers ==
    ASSUME DropTypeOK, NEW c \in Context, DropStep(c), NEW d \in Context, d # c
    PROVE  UNCHANGED <<daemon[d], cred[d], shown[d]>>
<1> USE DEF DropTypeOK, Goto
<1>1. CASE KeepCaps(c) BY <1>1 DEF KeepCaps
<1>2. CASE SetGroups(c) BY <1>2 DEF SetGroups, Refused
<1>3. CASE SetGid(c) BY <1>3 DEF SetGid, Refused
<1>4. CASE SetUid(c) BY <1>4 DEF SetUid, Refused
<1>5. CASE NoKeepCaps(c) BY <1>5 DEF NoKeepCaps
<1>6. CASE DropCaps(c) BY <1>6 DEF DropCaps
<1>7. CASE GetCaps(c) BY <1>7 DEF GetCaps
<1>8. CASE CloseStdio(c) BY <1>8 DEF CloseStdio
<1> QED BY <1>1, <1>2, <1>3, <1>4, <1>5, <1>6, <1>7, <1>8 DEF DropStep

LEMMA DropFrame ==
    ASSUME NEW c \in Context, DropStep(c)
    PROVE  UNCHANGED <<conf, faults>> /\ daemon[c] \in Dropping
BY DEF DropStep, KeepCaps, SetGroups, SetGid, SetUid, NoKeepCaps, DropCaps, GetCaps,
       CloseStdio, Dropping

LEMMA CredStep ==
    ASSUME IInv, [Next]_vars
    PROVE  (\A c \in Context : Progress(c)') /\ EnoughPrivilegesServe'
<1> USE DEF IInv
<1>1. ASSUME NEW c \in Context, DropPrivs(c)
      PROVE  (\A d \in Context : Progress(d)') /\ EnoughPrivilegesServe'
  <2>1. DropStep(c) /\ UNCHANGED <<conf, faults>> BY <1>1, DropFrame DEF DropPrivs
  <2>2. ASSUME NEW d \in Context PROVE Progress(d)'
    <3>1. CASE d = c BY <2>1, <3>1, ProgressDrop DEF TypeOK
    <3>2. CASE d # c BY <2>1, <3>2, ProgressOthers, ProgressElse DEF TypeOK
    <3> QED BY <3>1, <3>2
  <2>3. ASSUME NEW d \in Context, Sufficient(d)', d \notin faults'
        PROVE  daemon'[d] \notin {"cleanup", "raised"}
    <3>1. Sufficient(d) /\ d \notin faults BY <2>1, <2>3 DEF Sufficient
    <3>2. daemon[d] \notin {"cleanup", "raised"} BY <3>1 DEF EnoughPrivilegesServe
    <3>3. CASE d = c BY <2>1, <3>1, <3>2, <3>3, NotRefused DEF TypeOK
    <3>4. CASE d # c BY <2>1, <3>2, <3>4, ProgressOthers DEF TypeOK
    <3> QED BY <3>3, <3>4
  <2> QED BY <2>2, <2>3 DEF EnoughPrivilegesServe
<1>2. ASSUME UNCHANGED dropVars
      PROVE  (\A d \in Context : Progress(d)') /\ EnoughPrivilegesServe'
  <2>1. \A d \in Context : Progress(d)' BY <1>2, ProgressElse DEF dropVars
  <2> QED BY <1>2, <2>1 DEF dropVars, EnoughPrivilegesServe, Sufficient
<1>3. ASSUME NEW c \in Context, UNCHANGED <<conf, cred, shown, faults>>,
             daemon[c] = "none", Goto(c, "keepcaps")
      PROVE  (\A d \in Context : Progress(d)') /\ EnoughPrivilegesServe'
  <2>1. \A d \in Context : /\ d = c => daemon'[d] = "keepcaps"
                           /\ d # c => daemon'[d] = daemon[d]
        BY <1>3 DEF Goto, TypeOK, DropTypeOK
  <2>2. \A d \in Context : Progress(d)' BY <1>3, <2>1, ProgressElse
  <2> QED BY <1>3, <2>1, <2>2 DEF EnoughPrivilegesServe, Sufficient
<1>4. ASSUME NEW c \in Context, Ends(c)
      PROVE  (\A d \in Context : Progress(d)') /\ EnoughPrivilegesServe'
  <2>1. \A d \in Context :
            /\ d = c => daemon'[d] = "exited"
            /\ d # c => UNCHANGED <<daemon[d], cred[d], shown[d]>>
        BY <1>4 DEF Ends, Goto, TypeOK, DropTypeOK
  <2>2. \A d \in Context : Progress(d)' BY <1>4, <2>1, ProgressElse DEF Ends
  <2> QED BY <1>4, <2>1, <2>2 DEF EnoughPrivilegesServe, Sufficient, Ends
<1>5. ASSUME NEW c \in Context, UNCHANGED <<conf, cred, shown>>,
             faults' = faults \cup {c}, Goto(c, "cleanup") \/ Goto(c, "raised")
      PROVE  (\A d \in Context : Progress(d)') /\ EnoughPrivilegesServe'
  <2>1. \A d \in Context : /\ d = c => daemon'[d] \in {"cleanup", "raised"}
                           /\ d # c => daemon'[d] = daemon[d]
        BY <1>5 DEF Goto, TypeOK, DropTypeOK
  <2>2. \A d \in Context : Progress(d)' BY <1>5, <2>1, ProgressElse
  <2> QED BY <1>5, <2>1, <2>2 DEF EnoughPrivilegesServe, Sufficient
<1>6. ASSUME NEW c \in Context, Fork(c) \/ HelperForks(c)
      PROVE  (\A d \in Context : Progress(d)') /\ EnoughPrivilegesServe'
      BY <1>3, <1>6 DEF Fork, HelperForks, InStep
<1>7. ASSUME NEW c \in Context, Eof(c) \/ HelperExits(c) \/ ChildEnds(c) \/ Crash(c)
      PROVE  (\A d \in Context : Progress(d)') /\ EnoughPrivilegesServe'
      BY <1>4, <1>7 DEF Eof, HelperExits, ChildEnds, Crash
<1>8. ASSUME NEW c \in Context, DropFails(c) \/ EofRaises(c)
      PROVE  (\A d \in Context : Progress(d)') /\ EnoughPrivilegesServe'
      BY <1>5, <1>8 DEF DropFails, Fault, EofRaises
<1>9. ASSUME NEW c \in Context,
             \/ Socketpair(c) \/ Listen(c) \/ Close(c) \/ CloseSockB(c) \/ NoFork(c)
             \/ Popen(c) \/ HelperOk(c) \/ Accept(c) \/ Abort(c) \/ CleanUp(c)
             \/ CleanUpFails(c) \/ SendPing(c) \/ Started(c) \/ PingFails(c)
             \/ CloseJoin(c) \/ Connect(c) \/ HelperReturns(c) \/ HelperFails(c)
             \/ ReadPing(c) \/ Pong(c)
      PROVE  UNCHANGED dropVars
      BY <1>9 DEF Socketpair, Listen, Close, CloseSockB, NoFork, Popen, HelperOk, Accept,
                  Abort, CleanUp, CleanUpFails, SendPing, Started, PingFails,
                  CloseJoin, Connect, HelperReturns, HelperFails, ReadPing, Pong
<1>10. CASE ClientDies \/ UNCHANGED vars BY <1>2, <1>10 DEF ClientDies, vars
<1>11. ASSUME NEW c \in Context, StartStep(c) \/ HelperStep(c) \/ DaemonStep(c) \/ Failure(c)
       PROVE  (\A d \in Context : Progress(d)') /\ EnoughPrivilegesServe'
       BY <1>1, <1>2, <1>6, <1>7, <1>8, <1>9, <1>11
          DEF StartStep, HelperStep, DaemonStep, Failure
<1>12. ASSUME NEW c \in Context, Socketpair(c) \/ Listen(c) \/ Close(c)
       PROVE  (\A d \in Context : Progress(d)') /\ EnoughPrivilegesServe'
       BY <1>2, <1>9, <1>12
<1> QED BY <1>10, <1>11, <1>12 DEF Next

-----------------------------------------------------------------------------
(* The order of the steps of the three processes *)

\* Nothing that InStep is about changes for d, except that its PING gets lost.
Untouched(d) ==
    /\ UNCHANGED <<start[d], helper[d], daemon[d], cred[d], conf[d]>>
    /\ tmpdir'[d] = tmpdir[d]
    /\ sock'[d].connected = sock[d].connected
    /\ ping'[d] = ping[d] \/ (ping[d] = "sent" /\ ping'[d] = "lost")

LEMMA UntouchedInStep ==
    ASSUME NEW d \in Context, InStep(d), Untouched(d)
    PROVE  InStep(d)'
BY DEF InStep, Untouched, Unraised, Dropped, Kept

\* Closing descriptors connects nothing, and loses a PING at most.
LEMMA ClosingFrame ==
    ASSUME TypeOK, NEW new \in [Context -> Socket], Sockets(new), NEW d \in Context,
           new[d].connected = sock[d].connected
    PROVE  /\ sock'[d].connected = sock[d].connected
           /\ ping'[d] = ping[d] \/ (ping[d] = "sent" /\ ping'[d] = "lost")
BY DEF Sockets, TypeOK

LEMMA ReleasedFrame ==
    ASSUME TypeOK, NEW p, Sockets(Released(p)), NEW d \in Context
    PROVE  /\ sock'[d].connected = sock[d].connected
           /\ ping'[d] = ping[d] \/ (ping[d] = "sent" /\ ping'[d] = "lost")
<1>1. Released(p) \in [Context -> Socket] BY SocketTypes
<1>2. Released(p)[d].connected = sock[d].connected BY DEF Released, TypeOK, Socket
<1> QED BY <1>1, <1>2, ClosingFrame

LEMMA InStepStart ==
    ASSUME IInv, NEW c \in Context,
           \/ Socketpair(c) \/ Listen(c) \/ Close(c) \/ Fork(c) \/ CloseSockB(c)
           \/ NoFork(c) \/ Popen(c) \/ HelperOk(c) \/ Accept(c) \/ Abort(c)
           \/ CleanUp(c) \/ CleanUpFails(c)
           \/ SendPing(c) \/ Started(c) \/ PingFails(c) \/ CloseJoin(c)
    PROVE  \A d \in Context : InStep(d)'
<1> SUFFICES ASSUME NEW d \in Context PROVE InStep(d)' OBVIOUS
<1> USE DEF IInv, TypeOK, DropTypeOK, StartAt, dropVars
<1>1. /\ TypeOK /\ InStep(c) /\ InStep(d)
      /\ sock[c] \in Socket /\ sock[d] \in Socket
      OBVIOUS
<1> HIDE DEF IInv
<1>2. CASE d # c
  <2>1. Untouched(d)
    <3>1. CASE Socketpair(c) BY <1>1, <1>2, <3>1 DEF Socketpair, Untouched
    <3>2. CASE Listen(c) BY <1>1, <1>2, <3>2 DEF Listen, Untouched
    <3>3. CASE Close(c) BY <1>1, <1>2, <3>3 DEF Close, Untouched
    <3>4. CASE Fork(c) BY <1>1, <1>2, <3>4 DEF Fork, Goto, Inherit, Socket, Untouched
    <3>5. CASE CloseSockB(c) BY <1>1, <1>2, <3>5 DEF CloseSockB, Untouched
    <3>6. CASE NoFork(c) BY <1>1, <1>2, <3>6 DEF NoFork, Untouched
    <3>7. CASE Popen(c) BY <1>1, <1>2, <3>7 DEF Popen, Untouched
    <3>8. CASE HelperOk(c) BY <1>1, <1>2, <3>8 DEF HelperOk, Untouched
    <3>9. CASE Accept(c) BY <1>1, <1>2, <3>9 DEF Accept, Untouched
    <3>10. CASE Abort(c) BY <1>1, <1>2, <3>10 DEF Abort, Untouched
    <3>11. CASE SendPing(c) BY <1>1, <1>2, <3>11 DEF SendPing, Untouched
    <3>12. CASE Started(c) BY <1>1, <1>2, <3>12 DEF Started, Untouched
    <3>13. CASE PingFails(c) BY <1>1, <1>2, <3>13 DEF PingFails, Untouched
    <3>14. CASE CleanUp(c) BY <1>1, <1>2, <3>14 DEF CleanUp, Untouched
    <3>15. CASE CleanUpFails(c) BY <1>1, <1>2, <3>15 DEF CleanUpFails, Untouched
    <3>16. CASE CloseJoin(c) BY <1>1, <1>2, <3>16 DEF CloseJoin, Untouched
    <3> QED BY <3>1, <3>2, <3>3, <3>4, <3>5, <3>6, <3>7, <3>8, <3>9, <3>10, <3>11,
               <3>12, <3>13, <3>14, <3>15, <3>16
  <2> QED BY <1>1, <2>1, UntouchedInStep
<1>3. CASE d = c
  <2> USE DEF InStep
  <2>1. Unraised(c)' = Unraised(c) /\ cred' = cred
        BY DEF Unraised, Dropped, Kept, Socketpair, Listen, Close, Fork, CloseSockB, NoFork,
               Popen, HelperOk, Accept, Abort, CleanUp, CleanUpFails, SendPing, Started,
               PingFails, CloseJoin
  <2>2. CASE Socketpair(c) BY <1>1, <1>3, <2>1, <2>2 DEF Socketpair
  <2>3. CASE Listen(c) BY <1>1, <1>3, <2>1, <2>3 DEF Listen
  <2>4. CASE Close(c) BY <1>1, <1>3, <2>1, <2>4 DEF Close, Socket
  <2>5. CASE Fork(c) BY <1>1, <1>3, <2>1, <2>5 DEF Fork, Goto, Inherit, Socket
  <2>6. CASE CloseSockB(c) BY <1>1, <1>3, <2>1, <2>6 DEF CloseSockB, Socket
  <2>7. CASE NoFork(c) BY <1>1, <1>3, <2>1, <2>7 DEF NoFork, Socket
  <2>8. CASE Popen(c) BY <1>1, <1>3, <2>1, <2>8 DEF Popen
  <2>9. CASE HelperOk(c) BY <1>1, <1>3, <2>1, <2>9 DEF HelperOk
  <2>10. CASE Accept(c) BY <1>1, <1>3, <2>1, <2>10 DEF Accept, Socket
  <2>11. CASE Abort(c) BY <1>1, <1>3, <2>1, <2>11 DEF Abort, MayAbort, Socket
  <2>12. CASE SendPing(c) BY <1>1, <1>3, <2>1, <2>12 DEF SendPing
  <2>13. CASE Started(c) BY <1>1, <1>3, <2>1, <2>13 DEF Started
  <2>14. CASE PingFails(c) BY <1>1, <1>3, <2>1, <2>14 DEF PingFails
  <2>15. CASE CleanUp(c) BY <1>1, <1>3, <2>1, <2>15 DEF CleanUp
  <2>16. CASE CleanUpFails(c) BY <1>1, <1>3, <2>1, <2>16 DEF CleanUpFails, Socket
  <2>17. CASE CloseJoin(c) BY <1>1, <1>3, <2>1, <2>17 DEF CloseJoin
  <2> QED BY <1>3, <2>2, <2>3, <2>4, <2>5, <2>6, <2>7, <2>8, <2>9, <2>10, <2>11,
             <2>12, <2>13, <2>14, <2>15, <2>16, <2>17
<1> QED BY <1>2, <1>3

LEMMA InStepHelper ==
    ASSUME IInv, NEW c \in Context,
           Connect(c) \/ HelperForks(c) \/ HelperReturns(c) \/ HelperFails(c)
    PROVE  \A d \in Context : InStep(d)'
<1> SUFFICES ASSUME NEW d \in Context PROVE InStep(d)' OBVIOUS
<1> USE DEF IInv, TypeOK, DropTypeOK, HelperAt, dropVars
<1>1. /\ TypeOK /\ InStep(c) /\ InStep(d)
      /\ sock[c] \in Socket /\ sock[d] \in Socket
      OBVIOUS
<1> HIDE DEF IInv
<1>2. ASSUME HelperReturns(c) \/ HelperFails(c)
      PROVE  /\ sock'[d].connected = sock[d].connected
             /\ ping'[d] = ping[d] \/ (ping[d] = "sent" /\ ping'[d] = "lost")
  <2> DEFINE new == [sock EXCEPT ![c].daemon = @ \ {"helper"}]
  <2>1. Sockets(new) BY <1>2 DEF HelperReturns, HelperFails
  <2>2. sock[c].daemon \ {"helper"} \in SUBSET Process BY <1>1, SocketTypes
  <2>3. new \in [Context -> Socket]
    <3>1. sock \in [Context -> Socket] BY <1>1
    <3>2. [sock[c] EXCEPT !.daemon = @ \ {"helper"}] \in Socket BY <3>1, <2>2 DEF Socket
    <3>3. new = [sock EXCEPT ![c] = [sock[c] EXCEPT !.daemon = @ \ {"helper"}]]
          BY <3>1
    <3> QED BY <3>1, <3>2, <3>3
  <2>4. new[d].connected = sock[d].connected
    <3>1. new = [sock EXCEPT ![c].daemon = sock[c].daemon \ {"helper"}] OBVIOUS
    <3>2. sock[c] \in Socket /\ DOMAIN sock = Context BY SocketTypes, <1>1 DEF TypeOK
    <3> HIDE DEF new
    <3>3. CASE d = c BY <3>1, <3>2, <3>3 DEF Socket
    <3>4. CASE d # c BY <3>1, <3>2, <3>4
    <3> QED BY <3>3, <3>4
  <2> HIDE DEF new
  <2> QED BY <1>1, <2>1, <2>3, <2>4, ClosingFrame
<1>3. CASE d # c
  <2>1. CASE Connect(c) \/ HelperForks(c)
        BY <1>1, <1>3, <2>1, UntouchedInStep DEF Connect, HelperForks, Goto, Untouched
  <2>2. CASE HelperReturns(c) \/ HelperFails(c)
        BY <1>1, <1>2, <1>3, <2>2, UntouchedInStep
           DEF HelperReturns, HelperFails, Untouched
  <2> QED BY <2>1, <2>2
<1>4. CASE d = c
  <2> USE DEF InStep
  <2>1. Unraised(c)' = Unraised(c) /\ cred' = cred
        BY DEF Unraised, Dropped, Kept, Connect, HelperForks, HelperReturns, HelperFails
  <2>2. CASE Connect(c) BY <1>1, <1>4, <2>1, <2>2 DEF Connect, Socket
  <2>3. CASE HelperForks(c) BY <1>1, <1>4, <2>1, <2>3 DEF HelperForks, Goto, Socket
  <2>4. CASE HelperReturns(c) BY <1>1, <1>2, <1>4, <2>1, <2>4 DEF HelperReturns
  <2>5. CASE HelperFails(c) BY <1>1, <1>2, <1>4, <2>1, <2>5 DEF HelperFails
  <2> QED BY <1>4, <2>2, <2>3, <2>4, <2>5
<1> QED BY <1>3, <1>4

LEMMA InStepDaemon ==
    ASSUME IInv, NEW c \in Context,
           \/ DropPrivs(c) \/ DropFails(c) \/ ReadPing(c) \/ Pong(c) \/ Eof(c)
           \/ EofRaises(c) \/ HelperExits(c) \/ ChildEnds(c) \/ Crash(c)
    PROVE  \A d \in Context : InStep(d)'
<1> SUFFICES ASSUME NEW d \in Context PROVE InStep(d)' OBVIOUS
<1> USE DEF IInv, TypeOK, DropTypeOK
<1>1. InStep(c) /\ InStep(d) /\ Progress(c) OBVIOUS
<1>2. ASSUME Ends(c), daemon[c] # "none", UNCHANGED <<client, start, helper, tmpdir>>
      PROVE  InStep(d)'
  <2>1. /\ sock'[d].connected = sock[d].connected
        /\ ping'[d] = ping[d] \/ (ping[d] = "sent" /\ ping'[d] = "lost")
        BY <1>2, ReleasedFrame DEF Ends
  <2>2. CASE d # c
        BY <1>1, <1>2, <2>1, <2>2, UntouchedInStep DEF Ends, Goto, Untouched
  <2>3. CASE d = c
    <3>1. daemon'[d] = "exited" BY <1>2, <2>3 DEF Ends, Goto
    <3> QED BY <1>1, <1>2, <2>1, <2>3, <3>1 DEF InStep
  <2> QED BY <2>2, <2>3
<1>3. CASE Eof(c) \/ HelperExits(c) \/ ChildEnds(c) \/ Crash(c)
      BY <1>2, <1>3 DEF Eof, HelperExits, ChildEnds, Crash, Dropping
<1>4. CASE DropPrivs(c)
  <2>1. /\ DropStep(c) /\ UNCHANGED <<client, start, helper, tmpdir, sock, ping, conf>>
        /\ daemon[c] \in Dropping
        BY <1>4, DropFrame DEF DropPrivs
  <2>2. CASE d # c
        BY <1>1, <2>1, <2>2, ProgressOthers, UntouchedInStep DEF Untouched
  <2>3. CASE d = c BY <1>1, <2>1, <2>3 DEF InStep, Dropping
  <2> QED BY <2>2, <2>3
<1>5. CASE DropFails(c)
  <2>1. daemon[c] \in Dropping BY <1>5 DEF DropFails, Fault
  <2>2. CASE d # c
        BY <1>1, <1>5, <2>2, UntouchedInStep DEF DropFails, Fault, Goto, Untouched
  <2>3. CASE d = c BY <1>1, <1>5, <2>1, <2>3 DEF DropFails, Fault, InStep, Dropping
  <2> QED BY <2>2, <2>3
<1>6. CASE EofRaises(c)
  <2>1. CASE d # c
        BY <1>1, <1>6, <2>1, UntouchedInStep DEF EofRaises, Goto, Untouched
  <2>2. CASE d = c
    <3>1. cred[c] = Unraised(c) /\ Unraised(c)' = Unraised(c)
          BY <1>1, <1>6 DEF EofRaises, Progress, Unraised, Dropped, Kept
    <3> QED BY <1>1, <1>6, <2>2, <3>1 DEF EofRaises, Goto, InStep
  <2> QED BY <2>1, <2>2
<1>7. CASE ReadPing(c) \/ Pong(c)
  <2>1. CASE d # c
        BY <1>1, <1>7, <2>1, UntouchedInStep DEF ReadPing, Pong, Untouched, dropVars
  <2>2. CASE d = c
    <3>1. cred[c] = Unraised(c) BY <1>1, <1>7 DEF ReadPing, Pong, Progress
    <3>2. Unraised(c)' = Unraised(c)
          BY <1>7 DEF ReadPing, Pong, Unraised, Dropped, Kept, dropVars
    <3> QED BY <1>1, <1>7, <2>2, <3>1, <3>2 DEF ReadPing, Pong, InStep, dropVars
  <2> QED BY <2>1, <2>2
<1> QED BY <1>3, <1>4, <1>5, <1>6, <1>7

LEMMA InStepStep ==
    ASSUME IInv, [Next]_vars
    PROVE  \A d \in Context : InStep(d)'
<1>1. ASSUME NEW c \in Context, StartStep(c) \/ Socketpair(c) \/ Listen(c) \/ Close(c)
      PROVE  \A d \in Context : InStep(d)'
      BY <1>1, InStepStart DEF StartStep
<1>2. ASSUME NEW c \in Context, HelperStep(c) PROVE \A d \in Context : InStep(d)'
      BY <1>2, InStepHelper DEF HelperStep
<1>3. ASSUME NEW c \in Context, DaemonStep(c) \/ Failure(c)
      PROVE  \A d \in Context : InStep(d)'
      BY <1>3, InStepStart, InStepHelper, InStepDaemon DEF DaemonStep, Failure
<1>4. CASE ClientDies
  <2>1. \A d \in Context : Untouched(d)
        BY <1>4, ReleasedFrame DEF ClientDies, Untouched, IInv, dropVars
  <2> QED BY <2>1, UntouchedInStep DEF IInv
<1>5. CASE UNCHANGED vars
  <2>1. \A d \in Context : Untouched(d) BY <1>5 DEF vars, dropVars, Untouched
  <2> QED BY <2>1, UntouchedInStep DEF IInv
<1> QED BY <1>1, <1>2, <1>3, <1>4, <1>5 DEF Next

-----------------------------------------------------------------------------
\* The initial states satisfy it.
LEMMA InitIInv == Init => IInv
<1> SUFFICES ASSUME Init PROVE IInv OBVIOUS
<1> USE SituationAssumption DEF Init, DropInit
<1>1. conf \in [Context -> Conf] OBVIOUS
<1>2. DropTypeOK BY <1>1 DEF DropTypeOK, Conf
<1>3. TypeOK BY <1>2 DEF TypeOK, Socket
<1>4. EnoughPrivilegesServe BY DEF EnoughPrivilegesServe
<1>5. \A c \in Context : Progress(c) /\ InStep(c) BY DEF Progress, InStep
<1> QED BY <1>3, <1>4, <1>5 DEF IInv

(***************************************************************************)
(* IInv is an invariant of Startup.                                        *)
(***************************************************************************)
THEOREM Invariance == Spec => []IInv
<1>1. Init => IInv BY InitIInv
<1>2. IInv /\ [Next]_vars => IInv' BY TypeStep, CredStep, InStepStep DEF IInv
<1> QED BY <1>1, <1>2, PTL DEF Spec

(***************************************************************************)
(* What the processes have has the types that the model declares.          *)
(***************************************************************************)
THEOREM TypeCorrect == Spec => []TypeOK
<1>1. IInv => TypeOK BY DEF IInv
<1> QED BY <1>1, Invariance, PTL

(***************************************************************************)
(* A daemon that serves, and the daemon of a start that succeeded, has     *)
(* exactly the identity and the capabilities asked for, root excepted: a   *)
(* daemon that is not root and should be keeps the user, or the group,     *)
(* that it was created with.                                               *)
(***************************************************************************)
THEOREM PrivilegesDropped == Spec => []ServesAsAsked
<1>1. ASSUME IInv, NEW c \in Context,
             \/ daemon[c] = "serving"
             \/ start[c] \in {"started", "closing", "stopped"} /\ daemon[c] # "exited"
      PROVE  cred[c] = Unraised(c)
      BY <1>1 DEF IInv, Progress, InStep
<1>2. IInv => ServesAsAsked BY <1>1, UnraisedOnly DEF ServesAsAsked
<1> QED BY <1>2, Invariance, PTL

(***************************************************************************)
(* The capabilities in the log of a serving daemon are those that it has.  *)
(***************************************************************************)
THEOREM LogIsRight == Spec => []ReportsWhatItHas
<1>1. IInv => ReportsWhatItHas BY DEF IInv, Progress, ReportsWhatItHas
<1> QED BY <1>1, Invariance, PTL

(***************************************************************************)
(* A daemon with sufficient credentials is refused no call.                *)
(***************************************************************************)
THEOREM EnoughIsEnough == Spec => []EnoughPrivilegesServe
<1>1. IInv => EnoughPrivilegesServe BY DEF IInv
<1> QED BY <1>1, Invariance, PTL

(***************************************************************************)
(* accept() finds a connection.                                            *)
(***************************************************************************)
THEOREM AcceptFindsOne == Spec => []AcceptReady
<1>1. IInv => AcceptReady BY DEF IInv, InStep, AcceptReady
<1> QED BY <1>1, Invariance, PTL

(***************************************************************************)
(* No start leaves a helper, and none a temporary directory but one that   *)
(* could not remove it, and failed.                                        *)
(***************************************************************************)
THEOREM NothingLeft == Spec => []Tidy
<1>1. IInv => Tidy BY DEF IInv, InStep, Tidy, TypeOK
<1> QED BY <1>1, Invariance, PTL

-----------------------------------------------------------------------------
(***************************************************************************)
(* Who keeps whom waiting.  A daemon has its own end of the socket, and    *)
(* whoever has an end of one is alive: the client only while it starts the *)
(* daemon, the helper only until it returns.                               *)
(***************************************************************************)
Held(c) ==
    /\ ~Gone(c) => c \in sock[c].daemon
    /\ \A p \in Context : p \in sock[c].client \cup sock[c].daemon => ~Gone(p)
    /\ sock[c].client \cap {c, "helper"} = {}
    /\ "helper" \in sock[c].daemon => helper[c] \in {"connected", "forked"}
    /\ "client" \in sock[c].daemon => start[c] \in {"paired", "forked"}
    /\ client = "dead" => "client" \notin sock[c].client \cup sock[c].daemon

\* What the start has come to, seen from the daemon.
Met(c) ==
    /\ start[c] \in {"started", "closing", "stopped"} => ping[c] = "answered"
    /\ start[c] \in {"closing", "stopped"} => sock[c].shut
    /\ start[c] \in {"aborted", "failed"} => Gone(c) \/ "client" \notin sock[c].client
    /\ ping[c] = "sent" => sock[c].daemon # {}
    /\ start[c] = "paired" /\ client = "alive" => "client" \in sock[c].daemon
    /\ start[c] \in {"forked", "accepting", "accepted", "pinging"} => daemon[c] # "none"
    /\ helper[c] \in {"forked", "ok"} => daemon[c] # "none"
    /\ start[c] = "waiting" => helper[c] # "none"
    /\ start[c] \in {"listening", "waiting", "accepting", "accepted", "aborted"}
          => conf[c].method = "ROOTWRAP"
    /\ start[c] = "failed" /\ conf[c].method = "FORK" => Gone(c)

HeldInv == IInv /\ \A c \in Context : Held(c) /\ Met(c)

\* Nothing changes for d, unless another daemon comes to life.
Same(d) ==
    /\ UNCHANGED <<sock[d], start[d], helper[d], daemon[d], ping[d], conf[d], client>>
    /\ \A p \in Context : ~Gone(p) => ~Gone(p)'

LEMMA SameHeld ==
    ASSUME NEW d \in Context, Held(d), Met(d), Same(d)
    PROVE  Held(d)' /\ Met(d)'
BY DEF Held, Met, Same, Gone

LEMMA HeldStart ==
    ASSUME HeldInv, NEW c \in Context,
           \/ Socketpair(c) \/ Listen(c) \/ Close(c) \/ CloseSockB(c)
           \/ NoFork(c) \/ Popen(c) \/ HelperOk(c) \/ Accept(c) \/ Abort(c)
           \/ CleanUp(c) \/ CleanUpFails(c)
           \/ SendPing(c) \/ Started(c) \/ PingFails(c) \/ CloseJoin(c)
    PROVE  \A d \in Context : Held(d)' /\ Met(d)'
<1> SUFFICES ASSUME NEW d \in Context PROVE Held(d)' /\ Met(d)' OBVIOUS
<1> USE DEF TypeOK, DropTypeOK, StartAt, dropVars
<1>1. /\ TypeOK /\ InStep(c) /\ Held(c) /\ Met(c) /\ Held(d) /\ Met(d)
      /\ sock[c] \in Socket /\ sock[d] \in Socket
      BY DEF HeldInv, IInv
<1>2. /\ daemon' = daemon /\ conf' = conf /\ client' = client /\ client = "alive"
      /\ \A p \in Context : Gone(p)' = Gone(p)
  <2>1. CASE Socketpair(c) \/ Listen(c) \/ Close(c) \/ CloseSockB(c) \/ NoFork(c) \/ Popen(c)
        BY <2>1 DEF Gone, Socketpair, Listen, Close, CloseSockB, NoFork, Popen
  <2>2. CASE HelperOk(c) \/ Accept(c) \/ Abort(c) \/ CleanUp(c) \/ CleanUpFails(c)
        BY <2>2 DEF Gone, HelperOk, Accept, Abort, MayAbort, CleanUp, CleanUpFails
  <2>3. CASE SendPing(c) \/ Started(c) \/ PingFails(c) \/ CloseJoin(c)
        BY <2>3 DEF Gone, SendPing, Started, PingFails, CloseJoin
  <2> QED BY <2>1, <2>2, <2>3
<1>3. CASE d # c
  <2>1. /\ sock'[d] = sock[d] /\ start'[d] = start[d] /\ helper'[d] = helper[d]
        /\ ping'[d] = ping[d]
    <3>1. CASE Socketpair(c) BY <1>1, <1>3, <3>1 DEF Socketpair
    <3>2. CASE Listen(c) BY <1>1, <1>3, <3>2 DEF Listen
    <3>3. CASE Close(c) BY <1>1, <1>3, <3>3 DEF Close
    <3>4. CASE CloseSockB(c) BY <1>1, <1>3, <3>4 DEF CloseSockB
    <3>5. CASE NoFork(c) BY <1>1, <1>3, <3>5 DEF NoFork
    <3>6. CASE Popen(c) \/ HelperOk(c) BY <1>1, <1>3, <3>6 DEF Popen, HelperOk
    <3>7. CASE Accept(c) BY <1>1, <1>3, <3>7 DEF Accept
    <3>8. CASE Abort(c) BY <1>1, <1>3, <3>8 DEF Abort
    <3>9. CASE SendPing(c) \/ Started(c) \/ PingFails(c) \/ CleanUp(c) \/ CloseJoin(c)
          BY <1>1, <1>3, <3>9 DEF SendPing, Started, PingFails, CleanUp, CloseJoin
    <3>10. CASE CleanUpFails(c) BY <1>1, <1>3, <3>10 DEF CleanUpFails
    <3> QED BY <3>1, <3>2, <3>3, <3>4, <3>5, <3>6, <3>7, <3>8, <3>9, <3>10
  <2> QED BY <1>1, <1>2, <2>1, SameHeld DEF Same
<1>4. CASE d = c
  <2> USE DEF Held, Met
  <2>1. CASE Socketpair(c) BY <1>1, <1>2, <1>4, <2>1, ProcessAssumption DEF Socketpair, InStep, Gone
  <2>2. CASE Listen(c) BY <1>1, <1>2, <1>4, <2>2, ProcessAssumption DEF Listen, Socket, InStep, Gone
  <2>3. CASE Close(c) BY <1>1, <1>2, <1>4, <2>3 DEF Close, Socket
  <2>4. CASE CloseSockB(c) BY <1>1, <1>2, <1>4, <2>4, ProcessAssumption DEF CloseSockB, Socket, InStep
  <2>5. CASE NoFork(c) BY <1>1, <1>2, <1>4, <2>5 DEF NoFork, Socket, InStep
  <2>6. CASE Popen(c) \/ HelperOk(c) BY <1>1, <1>2, <1>4, <2>6 DEF Popen, HelperOk, InStep
  <2> HIDE DEF Held, Met
  <2>7. CASE Accept(c)
    <3>1. /\ start[c] = "accepting" /\ start'[c] = "accepted" /\ UNCHANGED <<helper, ping>>
          /\ sock'[c].client = {"client"} /\ sock'[c].daemon = sock[c].daemon
          /\ sock'[c].shut = sock[c].shut
          BY <1>1, <2>7 DEF Accept, Socket
    <3> HIDE DEF TypeOK, DropTypeOK
    <3> QED BY <1>1, <1>2, <1>4, <3>1, ProcessAssumption DEF Held, Met
  <2>8. CASE Abort(c) \/ CleanUpFails(c)
    <3>1. /\ start[c] \in {"listening", "waiting", "accepting", "accepted", "aborted"}
          /\ start'[c] \in {"aborted", "failed"} /\ UNCHANGED <<helper, ping>>
          /\ sock'[c].client = sock[c].client \ {"client"}
          /\ sock'[c].daemon = sock[c].daemon /\ sock'[c].shut = sock[c].shut
          BY <1>1, <2>8 DEF Abort, MayAbort, CleanUpFails, Socket
    <3> HIDE DEF TypeOK, DropTypeOK
    <3>2. Held(c)' BY <1>1, <1>2, <3>1 DEF Held
    <3>3. Met(c)' BY <1>1, <1>2, <3>1 DEF Met
    <3> QED BY <1>4, <3>2, <3>3
  <2>9. CASE SendPing(c)
    <3>1. /\ UNCHANGED <<start, helper, sock>> /\ ping'[c] = "sent"
          /\ start[c] = "pinging" /\ sock[c].daemon # {}
          BY <1>1, <2>9 DEF SendPing
    <3> HIDE DEF TypeOK, DropTypeOK
    <3> QED BY <1>1, <1>2, <1>4, <3>1 DEF Held, Met
  <2>10. ASSUME UNCHANGED <<helper, sock, ping>>,
                \/ start[c] = "accepted" /\ start'[c] = "pinging"
                \/ start[c] = "aborted" /\ start'[c] = "failed"
                \/ start[c] = "pinging" /\ start'[c] = "started" /\ ping[c] = "answered"
                \/ start[c] = "pinging" /\ start'[c] = "failed" /\ sock[c].daemon = {}
                \/ start[c] = "closing" /\ start'[c] = "stopped"
         PROVE  Held(c)' /\ Met(c)'
    <3> HIDE DEF TypeOK, DropTypeOK
    <3>1. Held(c)' BY <1>1, <1>2, <2>10 DEF Held
    <3>2. Met(c)' BY <1>1, <1>2, <2>10 DEF Held, Met
    <3> QED BY <3>1, <3>2
  <2>11. CASE Started(c) \/ PingFails(c)
         BY <1>1, <1>4, <2>10, <2>11 DEF Started, PingFails
  <2>12. CASE CleanUp(c) \/ CloseJoin(c)
         BY <1>1, <1>4, <2>10, <2>12 DEF CleanUp, CloseJoin
  <2> QED BY <1>4, <2>1, <2>2, <2>3, <2>4, <2>5, <2>6, <2>7, <2>8, <2>9, <2>10, <2>11,
             <2>12
<1> QED BY <1>3, <1>4

\* The child of fork() has what the parent has, but for the other end of its own socket.
LEMMA HeldFork ==
    ASSUME HeldInv, NEW c \in Context, Fork(c)
    PROVE  \A d \in Context : Held(d)' /\ Met(d)'
<1> SUFFICES ASSUME NEW d \in Context PROVE Held(d)' /\ Met(d)' OBVIOUS
<1>1. /\ InStep(c) /\ Held(d) /\ Met(d) /\ sock[d] \in Socket
      /\ DOMAIN daemon = Context /\ DOMAIN start = Context
      /\ daemon[c] = "none" /\ start[c] = "paired" /\ client = "alive"
      BY DEF HeldInv, IInv, TypeOK, DropTypeOK, Fork, InStep
<1>2. /\ start' = [start EXCEPT ![c] = "forked"] /\ daemon' = [daemon EXCEPT ![c] = "keepcaps"]
      /\ UNCHANGED <<helper, ping, conf, client>> /\ sock' = Inherit(c)
      BY DEF Fork, StartAt, Goto
<1>3. /\ sock'[d].client \subseteq sock[d].client \cup {c}
      /\ c = d \/ c = "helper" => sock'[d].client = sock[d].client
      BY <1>1, <1>2, ProcessAssumption DEF Inherit, Socket
<1>4. /\ sock[d].daemon \subseteq sock'[d].daemon /\ sock'[d].daemon \subseteq sock[d].daemon \cup {c}
      /\ "client" \in sock[d].daemon => c \in sock'[d].daemon
      /\ sock'[d].shut = sock[d].shut
      BY <1>1, <1>2 DEF Inherit, Socket
<1>5. \A p \in Context : ~Gone(p)' <=> (~Gone(p) \/ p = c)
      BY <1>1, <1>2 DEF Gone
<1>6. /\ start'[d] = (IF d = c THEN "forked" ELSE start[d])
      /\ daemon'[d] = (IF d = c THEN "keepcaps" ELSE daemon[d])
      BY <1>1, <1>2
<1>7. Held(d)' BY <1>1, <1>2, <1>3, <1>4, <1>5, <1>6, ProcessAssumption DEF Held, Met
<1>8. Met(d)' BY <1>1, <1>2, <1>3, <1>4, <1>5, <1>6, ProcessAssumption DEF Met
<1> QED BY <1>7, <1>8

\* What the closing of descriptors does to the ends of a socket, and to its PING.
LEMMA Closed ==
    ASSUME TypeOK, NEW c \in Context, NEW d \in Context,
           Sockets([sock EXCEPT ![c].daemon = @ \ {"helper"}])
    PROVE  /\ sock'[d].client = sock[d].client /\ sock'[d].shut = sock[d].shut
           /\ sock'[d].daemon = (IF d = c THEN sock[d].daemon \ {"helper"} ELSE sock[d].daemon)
           /\ ping'[d] = IF ping[d] = "sent" /\ sock'[d].daemon = {} THEN "lost" ELSE ping[d]
<1>1. sock[c] \in Socket /\ sock[d] \in Socket /\ DOMAIN sock = Context BY DEF TypeOK
<1>2. sock' = [sock EXCEPT ![c].daemon = @ \ {"helper"}] BY DEF Sockets
<1>3. ping'[d] = IF ping[d] = "sent" /\ sock'[d].daemon = {} THEN "lost" ELSE ping[d]
      BY DEF Sockets
<1> QED BY <1>1, <1>2, <1>3 DEF Socket

LEMMA ReleasedEnds ==
    ASSUME TypeOK, NEW p, NEW d \in Context, Sockets(Released(p))
    PROVE  /\ sock'[d].client = sock[d].client \ {p} /\ sock'[d].shut = sock[d].shut
           /\ sock'[d].daemon = sock[d].daemon \ {p}
           /\ ping'[d] = IF ping[d] = "sent" /\ sock'[d].daemon = {} THEN "lost" ELSE ping[d]
<1>1. sock[d] \in Socket BY DEF TypeOK
<1>2. sock'[d] = [sock[d] EXCEPT !.client = @ \ {p}, !.daemon = @ \ {p}] BY DEF Sockets, Released
<1>3. ping'[d] = IF ping[d] = "sent" /\ sock'[d].daemon = {} THEN "lost" ELSE ping[d]
      BY DEF Sockets
<1> QED BY <1>1, <1>2, <1>3 DEF Socket

LEMMA HeldHelper ==
    ASSUME HeldInv, NEW c \in Context,
           Connect(c) \/ HelperForks(c) \/ HelperReturns(c) \/ HelperFails(c)
    PROVE  \A d \in Context : Held(d)' /\ Met(d)'
<1> SUFFICES ASSUME NEW d \in Context PROVE Held(d)' /\ Met(d)' OBVIOUS
<1> USE DEF HelperAt
<1>1. /\ TypeOK /\ InStep(c) /\ Held(d) /\ Met(d) /\ Held(c) /\ sock[d] \in Socket
      /\ DOMAIN daemon = Context /\ DOMAIN helper = Context /\ DOMAIN sock = Context
      BY DEF HeldInv, IInv, TypeOK, DropTypeOK
<1>2. /\ UNCHANGED <<start, conf, client>>
      /\ helper[c] \in {"connected", "forked", "running"} => start[c] = "waiting"
      /\ helper[c] \in {"connected", "running"} => daemon[c] = "none"
      BY <1>1 DEF Connect, HelperForks, HelperReturns, HelperFails, InStep, dropVars
<1>3. CASE Connect(c)
  <2>1. /\ UNCHANGED <<daemon, ping>> /\ helper'[d] = (IF d = c THEN "connected" ELSE helper[d])
        /\ sock'[d].client = sock[d].client /\ sock'[d].shut = sock[d].shut
        /\ sock'[d].daemon = IF d = c THEN {"helper"} ELSE sock[d].daemon
        BY <1>1, <1>3 DEF Connect, Socket, dropVars
  <2>2. helper[c] = "running" BY <1>3 DEF Connect
  <2>3. Held(d)' BY <1>1, <1>2, <2>1, <2>2, ProcessAssumption DEF Held, Gone
  <2>4. Met(d)' BY <1>1, <1>2, <2>1, <2>2 DEF Met, Gone
  <2> QED BY <2>3, <2>4
<1>4. CASE HelperForks(c)
  <2>1. /\ UNCHANGED ping /\ helper'[d] = (IF d = c THEN "forked" ELSE helper[d])
        /\ sock'[d].client = sock[d].client /\ sock'[d].shut = sock[d].shut
        /\ sock'[d].daemon = IF d = c THEN sock[d].daemon \cup {c} ELSE sock[d].daemon
        BY <1>1, <1>4 DEF HelperForks, Socket
  <2>2. helper[c] = "connected" /\ daemon' = [daemon EXCEPT ![c] = "keepcaps"]
        BY <1>4 DEF HelperForks, Goto
  <2>3. \A p \in Context : ~Gone(p)' <=> (~Gone(p) \/ p = c)
        BY <1>1, <2>2 DEF Gone
  <2>4. Held(d)' BY <1>1, <1>2, <2>1, <2>2, <2>3, ProcessAssumption DEF Held
  <2>5. Met(d)' BY <1>1, <1>2, <2>1, <2>2, <2>3 DEF Met
  <2> QED BY <2>4, <2>5
<1>5. CASE HelperReturns(c) \/ HelperFails(c)
  <2>1. /\ UNCHANGED daemon
        /\ helper'[d] \in (IF d = c THEN {"ok", "error"} ELSE {helper[d]})
        /\ helper'[d] = "ok" => helper[d] \in {"forked", "ok"}
        /\ helper[c] \in {"connected", "forked", "running"}
        BY <1>1, <1>5 DEF HelperReturns, HelperFails, dropVars
  <2>2. Sockets([sock EXCEPT ![c].daemon = @ \ {"helper"}])
        BY <1>5 DEF HelperReturns, HelperFails
  <2>3. /\ sock'[d].client = sock[d].client /\ sock'[d].shut = sock[d].shut
        /\ sock'[d].daemon = (IF d = c THEN sock[d].daemon \ {"helper"} ELSE sock[d].daemon)
        /\ ping'[d] = IF ping[d] = "sent" /\ sock'[d].daemon = {} THEN "lost" ELSE ping[d]
        BY <1>1, <2>2, Closed
  <2>4. \A p \in Context : Gone(p)' = Gone(p) BY <2>1 DEF Gone
  <2>5. Held(d)' BY <1>1, <1>2, <2>1, <2>3, <2>4, ProcessAssumption DEF Held
  <2>6. Met(d)' BY <1>1, <1>2, <2>1, <2>3, <2>4 DEF Met
  <2> QED BY <2>5, <2>6
<1> QED BY <1>3, <1>4, <1>5

LEMMA HeldDaemon ==
    ASSUME HeldInv, NEW c \in Context,
           \/ DropPrivs(c) \/ DropFails(c) \/ ReadPing(c) \/ Pong(c) \/ Eof(c)
           \/ EofRaises(c) \/ HelperExits(c) \/ ChildEnds(c) \/ Crash(c)
    PROVE  \A d \in Context : Held(d)' /\ Met(d)'
<1> SUFFICES ASSUME NEW d \in Context PROVE Held(d)' /\ Met(d)' OBVIOUS
<1>1. /\ TypeOK /\ InStep(c) /\ InStep(d) /\ Held(d) /\ Met(d) /\ Held(c) /\ Met(c)
      /\ DOMAIN daemon = Context /\ DOMAIN ping = Context
      BY DEF HeldInv, IInv, TypeOK, DropTypeOK
<1>2. /\ UNCHANGED <<start, helper, conf, client>> /\ ~Gone(c)
      BY DropFrame DEF DropPrivs, DropFails, Fault, ReadPing, Pong, Eof, EofRaises, HelperExits,
             ChildEnds, Crash, Ends, dropVars, Gone, Dropping
<1>3. CASE Eof(c) \/ HelperExits(c) \/ ChildEnds(c) \/ Crash(c)
  <2>1. daemon' = [daemon EXCEPT ![c] = "exited"] /\ Sockets(Released(c))
        BY <1>3 DEF Eof, HelperExits, ChildEnds, Crash, Ends, Goto
  <2>2. /\ sock'[d].client = sock[d].client \ {c} /\ sock'[d].shut = sock[d].shut
        /\ sock'[d].daemon = sock[d].daemon \ {c}
        /\ ping'[d] = IF ping[d] = "sent" /\ sock'[d].daemon = {} THEN "lost" ELSE ping[d]
        BY <1>1, <2>1, ReleasedEnds
  <2>3. \A p \in Context : ~Gone(p)' <=> (~Gone(p) /\ p # c)
        BY <1>1, <2>1 DEF Gone
  <2>4. daemon'[d] = "none" => daemon[d] = "none"
        BY <1>1, <2>1
  <2>5. Held(d)' BY <1>1, <1>2, <2>2, <2>3 DEF Held
  <2>6. Met(d)' BY <1>1, <1>2, <2>2, <2>3, <2>4, ProcessAssumption DEF Met
  <2> QED BY <2>5, <2>6
<1>4. ASSUME UNCHANGED <<sock, ping>>, \A p \in Context \ {c} : daemon'[p] = daemon[p], ~Gone(c)'
      PROVE  Held(d)' /\ Met(d)'
  <2>1. /\ \A p \in Context : Gone(p)' = Gone(p)
        /\ daemon'[d] = "none" => daemon[d] = "none"
        BY <1>2, <1>4 DEF Gone
  <2>2. Held(d)' BY <1>1, <1>2, <1>4, <2>1 DEF Held
  <2>3. Met(d)' BY <1>1, <1>2, <1>4, <2>1 DEF Met
  <2> QED BY <2>2, <2>3
<1>5. CASE DropPrivs(c)
  <2>1. DropStep(c) /\ UNCHANGED <<sock, ping>> BY <1>5 DEF DropPrivs
  <2>2. \E place \in Dropping \cup {"raised", "serving"} : Goto(c, place)
        BY <2>1 DEF DropStep, KeepCaps, SetGroups, SetGid, SetUid, NoKeepCaps, DropCaps, GetCaps,
               CloseStdio, Refused, NextCall, Dropping
  <2>3. (\A p \in Context \ {c} : daemon'[p] = daemon[p]) /\ ~Gone(c)'
        BY <1>1, <2>2 DEF Goto, Gone, Dropping
  <2> QED BY <1>4, <2>1, <2>3
<1>6. CASE DropFails(c) \/ EofRaises(c)
  <2>1. (\A p \in Context \ {c} : daemon'[p] = daemon[p]) /\ ~Gone(c)'
        BY <1>1, <1>6 DEF DropFails, Fault, EofRaises, Goto, Gone
  <2> QED BY <1>4, <1>6, <2>1 DEF DropFails, EofRaises
<1>7. CASE ReadPing(c) \/ Pong(c)
  <2>1. UNCHANGED <<sock, daemon>> /\ (\A p \in Context : Gone(p)' = Gone(p))
        BY <1>7 DEF ReadPing, Pong, dropVars, Gone
  <2>2. /\ ping'[d] = ping[d] \/ ping'[d] \in {"read", "answered"}
        /\ ping[d] = "answered" => ping'[d] = "answered"
        BY <1>1, <1>7 DEF ReadPing, Pong
  <2>3. Held(d)' BY <1>1, <1>2, <2>1 DEF Held
  <2>4. Met(d)' BY <1>1, <1>2, <2>1, <2>2 DEF Met
  <2> QED BY <2>3, <2>4
<1> QED BY <1>3, <1>5, <1>6, <1>7

LEMMA HeldDies ==
    ASSUME HeldInv, ClientDies
    PROVE  \A d \in Context : Held(d)' /\ Met(d)'
<1> SUFFICES ASSUME NEW d \in Context PROVE Held(d)' /\ Met(d)' OBVIOUS
<1>1. TypeOK /\ Held(d) /\ Met(d) BY DEF HeldInv, IInv
<1>2. UNCHANGED <<start, helper, daemon, conf>> /\ client' = "dead" /\ Sockets(Released("client"))
      BY DEF ClientDies, dropVars
<1>3. /\ sock'[d].client = sock[d].client \ {"client"} /\ sock'[d].shut = sock[d].shut
      /\ sock'[d].daemon = sock[d].daemon \ {"client"}
      /\ ping'[d] = IF ping[d] = "sent" /\ sock'[d].daemon = {} THEN "lost" ELSE ping[d]
      BY <1>1, <1>2, ReleasedEnds
<1>4. \A p \in Context : Gone(p)' = Gone(p) BY <1>2 DEF Gone
<1>5. Held(d)' BY <1>1, <1>2, <1>3, <1>4, ProcessAssumption DEF Held
<1>6. Met(d)' BY <1>1, <1>2, <1>3, <1>4 DEF Met
<1> QED BY <1>5, <1>6

LEMMA HeldStep == HeldInv /\ [Next]_vars => HeldInv'
<1> SUFFICES ASSUME HeldInv, [Next]_vars PROVE HeldInv' OBVIOUS
<1>1. IInv' BY TypeStep, CredStep, InStepStep DEF HeldInv, IInv
<1>2. ASSUME NEW c \in Context, StartStep(c) \/ Socketpair(c) \/ Listen(c) \/ Close(c)
      PROVE  \A d \in Context : Held(d)' /\ Met(d)'
      BY <1>2, HeldStart, HeldFork DEF StartStep
<1>3. ASSUME NEW c \in Context, HelperStep(c) PROVE \A d \in Context : Held(d)' /\ Met(d)'
      BY <1>3, HeldHelper DEF HelperStep
<1>4. ASSUME NEW c \in Context, DaemonStep(c) \/ Failure(c)
      PROVE  \A d \in Context : Held(d)' /\ Met(d)'
      BY <1>4, HeldStart, HeldHelper, HeldDaemon DEF DaemonStep, Failure
<1>5. CASE UNCHANGED vars
  <2>1. \A d \in Context : Same(d) BY <1>5 DEF vars, dropVars, Same, Gone
  <2> QED BY <1>1, <2>1, SameHeld DEF HeldInv
<1>6. \A d \in Context : Held(d)' /\ Met(d)'
      BY <1>2, <1>3, <1>4, <1>5, HeldDies DEF Next, HeldInv
<1> QED BY <1>1, <1>6 DEF HeldInv

LEMMA InitHeld == Init => HeldInv
<1> SUFFICES ASSUME Init PROVE HeldInv OBVIOUS
<1>1. ASSUME NEW c \in Context PROVE Held(c) /\ Met(c)
  <2>1. /\ daemon[c] = "none" /\ client = "alive" /\ start[c] = "idle" /\ helper[c] = "none"
        /\ ping[c] = "none" /\ sock[c].client = {}
        BY DEF Init, DropInit
  <2>2. \A d \in Context : sock[d].daemon = {} /\ daemon[d] = "none"
        BY DEF Init, DropInit
  <2>3. Held(c) BY <2>1, <2>2 DEF Held, Gone
  <2>4. Met(c) BY <2>1 DEF Met
  <2> QED BY <2>3, <2>4
<1> QED BY <1>1, InitIInv DEF HeldInv

-----------------------------------------------------------------------------
(***************************************************************************)
(* Who keeps whom alive.  fork() gives the child every socket that is open *)
(* in the client: a daemon that has not got another one's socket was       *)
(* forked before it was made, and whoever has that socket has the daemon's *)
(* own, too.  So daemons that hold each other's sockets in a ring, however *)
(* long, are or contain two that hold each other's.                        *)
(***************************************************************************)

\* It was made for a forked daemon and its start has neither failed nor been stopped.
Open(c) == /\ conf[c].method = "FORK"
           /\ start[c] \in {"paired", "forked", "pinging", "started"}

\* d has the socket of c, or was there first.
Ordered(c, d) == d \in sock[c].client \/ sock[c].client \cap Context \subseteq sock[d].client

Busy == {c \in Context : start[c] # "idle"}

Nested == /\ \A c \in Context :
                 /\ start[c] \in {"paired", "forked"} => conf[c].method = "FORK"
                 /\ client = "alive" /\ Open(c) => "client" \in sock[c].client
                 /\ \A p \in sock[c].client \cap Context : conf[p].method = "FORK"
          /\ \A c, d \in Context : Open(c) /\ Open(d) /\ ~Gone(d) /\ c # d => Ordered(c, d)

\* The order survives a step in which the processes of gone close what they have.
LEMMA Fewer ==
    ASSUME Nested, NEW gone,
           conf' = conf, client' = "alive" => client = "alive" /\ "client" \notin gone,
           \A c \in Context :
               /\ start'[c] \in {"paired", "forked"} => conf[c].method = "FORK"
               /\ sock'[c].client \cap Context \subseteq sock[c].client
               /\ Open(c)' => \/ Open(c) /\ sock'[c].client = sock[c].client \ gone
                              \/ sock'[c].client = {"client"} /\ Gone(c)'
               /\ ~Gone(c)' => c \notin gone /\ (~Gone(c) \/ ~Open(c)')
    PROVE  Nested'
<1>1. ASSUME NEW c \in Context
      PROVE  /\ start'[c] \in {"paired", "forked"} => conf'[c].method = "FORK"
             /\ client' = "alive" /\ Open(c)' => "client" \in sock'[c].client
             /\ \A p \in sock'[c].client \cap Context : conf'[p].method = "FORK"
      BY DEF Nested
<1>2. ASSUME NEW c \in Context, NEW d \in Context, Open(c)', Open(d)', ~Gone(d)', c # d
      PROVE  Ordered(c, d)'
  <2>1. CASE sock'[c].client = {"client"} BY <2>1, ProcessAssumption DEF Ordered
  <2>2. CASE Open(c) /\ sock'[c].client = sock[c].client \ gone
    <3>1. Open(d) /\ ~Gone(d) /\ d \notin gone /\ sock'[d].client = sock[d].client \ gone BY <1>2
    <3>2. Ordered(c, d) BY <1>2, <2>2, <3>1 DEF Nested
    <3> QED BY <2>2, <3>1, <3>2 DEF Ordered
  <2> QED BY <1>2, <2>1, <2>2
<1> QED BY <1>1, <1>2 DEF Nested

\* The same when no process closes anything.
LEMMA NoFewer ==
    ASSUME Nested, conf' = conf, client' = client,
           \A c \in Context :
               /\ start'[c] \in {"paired", "forked"} => conf[c].method = "FORK"
               /\ sock'[c].client \cap Context \subseteq sock[c].client
               /\ Open(c)' => \/ Open(c) /\ sock'[c].client = sock[c].client
                              \/ sock'[c].client = {"client"} /\ Gone(c)'
               /\ ~Gone(c)' => ~Gone(c) \/ ~Open(c)'
    PROVE  Nested'
<1>1. PICK gone : gone = {} OBVIOUS
<1>2. \A s : s \ gone = s BY <1>1
<1>3. \A c : c \notin gone BY <1>1
<1> QED BY <1>2, <1>3, Fewer

LEMMA NestedStart ==
    ASSUME HeldInv, Nested, NEW c \in Context,
           \/ Socketpair(c) \/ Listen(c) \/ Close(c) \/ CloseSockB(c)
           \/ NoFork(c) \/ Popen(c) \/ HelperOk(c) \/ Accept(c) \/ Abort(c)
           \/ CleanUp(c) \/ CleanUpFails(c)
           \/ SendPing(c) \/ Started(c) \/ PingFails(c) \/ CloseJoin(c)
    PROVE  Nested'
<1> USE DEF StartAt, dropVars
<1>1. /\ InStep(c) /\ Held(c) /\ Met(c)
      /\ sock \in [Context -> Socket] /\ DOMAIN start = Context
      BY DEF HeldInv, IInv, TypeOK
<1>2. daemon' = daemon /\ conf' = conf /\ client' = client /\ \A p \in Context : Gone(p)' = Gone(p)
      BY DEF Gone, Socketpair, Listen, Close, CloseSockB, NoFork, Popen, HelperOk, Accept,
             Abort, CleanUp, CleanUpFails, SendPing, Started, PingFails, CloseJoin
<1>3. ASSUME NEW d \in Context \ {c}
      PROVE  start'[d] = start[d] /\ sock'[d] = sock[d]
      BY <1>1 DEF Socketpair, Listen, Close, CloseSockB, NoFork, Popen, HelperOk, Accept,
             Abort, CleanUp, CleanUpFails, SendPing, Started, PingFails, CloseJoin
<1>4. /\ start'[c] \in {"paired", "forked"} => conf[c].method = "FORK"
      /\ sock'[c].client \cap Context \subseteq sock[c].client
      /\ Open(c)' => \/ Open(c) /\ sock'[c].client = sock[c].client
                     \/ sock'[c].client = {"client"} /\ Gone(c)'
  <2>1. CASE Socketpair(c)
        BY <1>1, <1>2, <2>1, ProcessAssumption DEF Socketpair, InStep, Gone
  <2>2. CASE Listen(c) \/ Accept(c) \/ Abort(c)
        BY <1>1, <1>2, <2>2, ProcessAssumption DEF Listen, Accept, Abort, Socket, Open, Met
  <2>3. CASE CloseSockB(c) BY <1>1, <1>2, <2>3 DEF CloseSockB, Socket, Open
  <2>4. CASE NoFork(c) BY <1>1, <1>2, <2>4 DEF NoFork, Socket, Open
  <2>5. CASE Close(c) BY <1>1, <1>2, <2>5 DEF Close, Socket, Open
  <2>6. CASE Popen(c) \/ HelperOk(c) \/ SendPing(c) \/ Started(c) \/ PingFails(c)
        BY <1>1, <1>2, <2>6 DEF Popen, HelperOk, SendPing, Started, PingFails, Open, Nested
  <2>7. CASE CleanUp(c) \/ CleanUpFails(c) \/ CloseJoin(c)
        BY <1>1, <1>2, <2>7 DEF CleanUp, CleanUpFails, CloseJoin, Socket, Open, Met
  <2> QED BY <2>1, <2>2, <2>3, <2>4, <2>5, <2>6, <2>7
<1>5. ASSUME NEW d \in Context
      PROVE  /\ start'[d] \in {"paired", "forked"} => conf[d].method = "FORK"
             /\ sock'[d].client \cap Context \subseteq sock[d].client
             /\ Open(d)' => \/ Open(d) /\ sock'[d].client = sock[d].client
                            \/ sock'[d].client = {"client"} /\ Gone(d)'
             /\ ~Gone(d)' => ~Gone(d)
  <2>1. CASE d = c BY <1>2, <1>4, <2>1
  <2>2. CASE d # c BY <1>2, <1>3, <2>2 DEF Open, Nested
  <2> QED BY <2>1, <2>2
<1> QED BY <1>2, <1>5, NoFewer

\* The child joins those that have each socket, but for its own.
LEMMA NestedFork ==
    ASSUME HeldInv, Nested, NEW c \in Context, Fork(c)
    PROVE  Nested'
<1>1. /\ sock \in [Context -> Socket] /\ DOMAIN start = Context /\ DOMAIN daemon = Context
      /\ start[c] = "paired" /\ client = "alive" /\ conf[c].method = "FORK"
      BY DEF HeldInv, IInv, TypeOK, DropTypeOK, Fork, Nested
<1>2. /\ start' = [start EXCEPT ![c] = "forked"] /\ daemon' = [daemon EXCEPT ![c] = "keepcaps"]
      /\ conf' = conf /\ client' = client /\ sock' = Inherit(c)
      BY DEF Fork, StartAt, Goto
<1>3. ASSUME NEW d \in Context
      PROVE  /\ sock'[d].client = IF "client" \in sock[d].client /\ d # c
                                  THEN sock[d].client \cup {c} ELSE sock[d].client
             /\ Open(d)' = Open(d)
             /\ ~Gone(d)' => ~Gone(d) \/ d = c
      BY <1>1, <1>2 DEF Inherit, Socket, Open, Gone
<1>4. ASSUME NEW d \in Context
      PROVE  /\ start'[d] \in {"paired", "forked"} => conf'[d].method = "FORK"
             /\ client' = "alive" /\ Open(d)' => "client" \in sock'[d].client
             /\ \A p \in sock'[d].client \cap Context : conf'[p].method = "FORK"
      BY <1>1, <1>2, <1>3 DEF Nested
<1>5. ASSUME NEW d \in Context, NEW e \in Context, Open(d)', Open(e)', ~Gone(e)', d # e
      PROVE  Ordered(d, e)'
  <2>1. Open(d) /\ Open(e) /\ "client" \in sock[d].client /\ "client" \in sock[e].client
        BY <1>1, <1>3, <1>5 DEF Nested
  <2>2. CASE e = c BY <1>3, <1>5, <2>1, <2>2 DEF Ordered
  <2>3. CASE e # c
    <3>1. Ordered(d, e) BY <1>3, <1>5, <2>1, <2>3 DEF Nested
    <3> QED BY <1>3, <2>1, <2>3, <3>1 DEF Ordered
  <2> QED BY <2>2, <2>3
<1> QED BY <1>4, <1>5 DEF Nested

LEMMA NestedHelper ==
    ASSUME HeldInv, Nested, NEW c \in Context,
           Connect(c) \/ HelperForks(c) \/ HelperReturns(c) \/ HelperFails(c)
    PROVE  Nested'
<1>1. /\ TypeOK /\ InStep(c) /\ sock \in [Context -> Socket] /\ DOMAIN daemon = Context
      BY DEF HeldInv, IInv, TypeOK, DropTypeOK
<1>2. /\ UNCHANGED <<start, conf, client>>
      /\ helper[c] = "connected" => start[c] = "waiting"
      BY <1>1 DEF Connect, HelperForks, HelperReturns, HelperFails, InStep, dropVars
<1>3. \A d \in Context : sock'[d].client = sock[d].client
  <2>1. CASE Connect(c) BY <1>1, <2>1 DEF Connect, Socket
  <2>2. CASE HelperForks(c) BY <1>1, <2>2 DEF HelperForks, Socket
  <2>3. CASE HelperReturns(c) \/ HelperFails(c)
        BY <1>1, <2>3, Closed DEF HelperReturns, HelperFails
  <2> QED BY <2>1, <2>2, <2>3
<1>4. \A d \in Context : ~Gone(d)' => ~Gone(d) \/ ~Open(d)'
  <2>1. CASE HelperForks(c)
        BY <1>1, <1>2, <2>1 DEF HelperForks, Goto, Gone, Open
  <2>2. CASE Connect(c) \/ HelperReturns(c) \/ HelperFails(c)
        BY <2>2 DEF Connect, HelperReturns, HelperFails, Gone, dropVars
  <2> QED BY <2>1, <2>2
<1>5. ASSUME NEW d \in Context
      PROVE  /\ start'[d] \in {"paired", "forked"} => conf[d].method = "FORK"
             /\ sock'[d].client \cap Context \subseteq sock[d].client
             /\ Open(d)' => Open(d) /\ sock'[d].client = sock[d].client
      BY <1>2, <1>3 DEF Nested, Open
<1> QED BY <1>2, <1>4, <1>5, NoFewer

LEMMA NestedDaemon ==
    ASSUME HeldInv, Nested, NEW c \in Context,
           \/ DropPrivs(c) \/ DropFails(c) \/ ReadPing(c) \/ Pong(c) \/ Eof(c)
           \/ EofRaises(c) \/ HelperExits(c) \/ ChildEnds(c) \/ Crash(c)
    PROVE  Nested'
<1>1. TypeOK /\ DOMAIN daemon = Context BY DEF HeldInv, IInv, TypeOK, DropTypeOK
<1>2. /\ UNCHANGED <<start, conf, client>> /\ ~Gone(c)
      BY DropFrame DEF DropPrivs, DropFails, Fault, ReadPing, Pong, Eof, EofRaises, HelperExits,
             ChildEnds, Crash, Ends, dropVars, Gone, Dropping
<1>3. CASE Eof(c) \/ HelperExits(c) \/ ChildEnds(c) \/ Crash(c)
  <2>1. daemon' = [daemon EXCEPT ![c] = "exited"] /\ Sockets(Released(c))
        BY <1>3 DEF Eof, HelperExits, ChildEnds, Crash, Ends, Goto
  <2>2. \A d \in Context : sock'[d].client = sock[d].client \ {c}
        BY <1>1, <2>1, ReleasedEnds
  <2>3. \A d \in Context : ~Gone(d)' => d \notin {c} /\ ~Gone(d)
        BY <1>1, <2>1 DEF Gone
  <2>4. ASSUME NEW d \in Context
        PROVE  /\ start'[d] \in {"paired", "forked"} => conf[d].method = "FORK"
               /\ sock'[d].client \cap Context \subseteq sock[d].client
               /\ Open(d)' => Open(d) /\ sock'[d].client = sock[d].client \ {c}
        BY <1>2, <2>2 DEF Nested, Open
  <2> QED BY <1>2, <2>3, <2>4, ProcessAssumption, Fewer
<1>4. CASE DropPrivs(c) \/ DropFails(c) \/ EofRaises(c) \/ ReadPing(c) \/ Pong(c)
  <2>1. UNCHANGED sock BY <1>4 DEF DropPrivs, DropFails, EofRaises, ReadPing, Pong
  <2>2. daemon' = daemon \/ \E place : Goto(c, place)
        BY <1>4 DEF DropPrivs, DropFails, Fault, EofRaises, ReadPing, Pong, dropVars, DropStep,
               KeepCaps, SetGroups, SetGid, SetUid, NoKeepCaps, DropCaps, GetCaps, CloseStdio,
               Refused
  <2>3. \A d \in Context : ~Gone(d)' => ~Gone(d) BY <1>1, <1>2, <2>2 DEF Goto, Gone
  <2>4. ASSUME NEW d \in Context
        PROVE  /\ start'[d] \in {"paired", "forked"} => conf[d].method = "FORK"
               /\ sock'[d].client \cap Context \subseteq sock[d].client
               /\ Open(d)' => Open(d) /\ sock'[d].client = sock[d].client
        BY <1>2, <2>1 DEF Nested, Open
  <2> QED BY <1>2, <2>3, <2>4, NoFewer
<1> QED BY <1>3, <1>4

LEMMA NestedDies ==
    ASSUME HeldInv, Nested, ClientDies
    PROVE  Nested'
<1>1. UNCHANGED <<start, daemon, conf>> /\ client' = "dead" /\ Sockets(Released("client"))
      BY DEF ClientDies, dropVars
<1>2. \A d \in Context : sock'[d].client = sock[d].client \ {"client"}
      BY <1>1, ReleasedEnds DEF HeldInv, IInv
<1>3. ASSUME NEW d \in Context
      PROVE  /\ start'[d] \in {"paired", "forked"} => conf[d].method = "FORK"
             /\ sock'[d].client \cap Context \subseteq sock[d].client
             /\ Open(d)' => Open(d) /\ sock'[d].client = sock[d].client \ {"client"}
             /\ ~Gone(d)' => d \notin {"client"} /\ ~Gone(d)
      BY <1>1, <1>2, ProcessAssumption DEF Nested, Open, Gone
<1> QED BY <1>1, <1>3, Fewer

LEMMA BusyStep == IsFiniteSet(Busy) /\ TypeOK /\ [Next]_vars => IsFiniteSet(Busy')
<1> SUFFICES ASSUME IsFiniteSet(Busy), TypeOK, [Next]_vars PROVE IsFiniteSet(Busy') OBVIOUS
<1>1. ASSUME UNCHANGED start PROVE Busy' = Busy BY <1>1 DEF Busy
<1>2. ASSUME NEW c \in Context, NEW place, StartAt(c, place) PROVE Busy' \subseteq Busy \cup {c}
      BY <1>2 DEF StartAt, Busy, TypeOK
<1>3. ASSUME NEW c \in Context, StartStep(c) \/ Socketpair(c) \/ Listen(c) \/ Close(c)
                                \/ NoFork(c) \/ Abort(c) \/ CleanUpFails(c)
      PROVE  UNCHANGED start \/ \E place : StartAt(c, place)
      BY <1>3 DEF StartStep, Socketpair, Listen, Close, Fork, CloseSockB, NoFork, Popen,
             HelperOk, Accept, Abort, CleanUp, CleanUpFails, SendPing, Started,
             PingFails, CloseJoin
<1>4. ASSUME NEW c \in Context, HelperStep(c) \/ DaemonStep(c) \/ HelperFails(c) \/ DropFails(c)
                                \/ ChildEnds(c) \/ Crash(c)
      PROVE  UNCHANGED start
      BY <1>4 DEF HelperStep, DaemonStep, Connect, HelperForks, HelperReturns, HelperFails,
             DropPrivs, DropFails, ReadPing, Pong, Eof, EofRaises, HelperExits, ChildEnds, Crash
<1>5. Busy' = Busy \/ \E c \in Context : Busy' \subseteq Busy \cup {c}
      BY <1>1, <1>2, <1>3, <1>4 DEF Next, Failure, ClientDies, vars
<1>6. \A c : IsFiniteSet(Busy \cup {c}) BY FS_AddElement
<1> QED BY <1>5, <1>6, FS_Subset

LEMMA NestedStep == HeldInv /\ Nested /\ [Next]_vars => Nested'
<1> SUFFICES ASSUME HeldInv, Nested, [Next]_vars PROVE Nested' OBVIOUS
<1>1. CASE UNCHANGED vars BY <1>1 DEF vars, dropVars, Nested, Open, Ordered, Gone
<1>2. CASE ClientDies BY <1>2, NestedDies
<1>3. ASSUME NEW c \in Context, StartStep(c) \/ Socketpair(c) \/ Listen(c) \/ Close(c)
      PROVE  Nested'
      BY <1>3, NestedStart, NestedFork DEF StartStep
<1>4. ASSUME NEW c \in Context, HelperStep(c) PROVE Nested' BY <1>4, NestedHelper DEF HelperStep
<1>5. ASSUME NEW c \in Context, DaemonStep(c) \/ Failure(c) PROVE Nested'
      BY <1>5, NestedStart, NestedHelper, NestedDaemon DEF DaemonStep, Failure
<1> QED BY <1>1, <1>2, <1>3, <1>4, <1>5 DEF Next

NestedInv == HeldInv /\ Nested /\ IsFiniteSet(Busy)

LEMMA NestedInvariance == Spec => []NestedInv
<1>1. Init => Nested
  <2> SUFFICES ASSUME Init PROVE Nested OBVIOUS
  <2>1. \A c \in Context : start[c] = "idle" /\ sock[c].client = {} BY DEF Init
  <2> QED BY <2>1 DEF Nested, Open
<1>2. Init => IsFiniteSet(Busy)
  <2> SUFFICES ASSUME Init PROVE IsFiniteSet(Busy) OBVIOUS
  <2>1. Busy = {} BY DEF Init, Busy
  <2> QED BY <2>1, FS_EmptySet
<1>3. Init => HeldInv BY InitHeld
<1>4. Init => NestedInv BY <1>1, <1>2, <1>3 DEF NestedInv
<1>5. NestedInv /\ [Next]_vars => NestedInv'
  <2>1. HeldInv => TypeOK BY DEF HeldInv, IInv
  <2> QED BY <2>1, HeldStep, NestedStep, BusyStep DEF NestedInv
<1> QED BY <1>4, <1>5, PTL DEF Spec

(***************************************************************************)
(* If each of some daemons keeps another one of them waiting, two of them  *)
(* keep each other: of those, take one whose socket the fewest have.       *)
(***************************************************************************)
LEMMA TwoHoldEachOther ==
    ASSUME Nested, IsFiniteSet(Busy), NEW left \in SUBSET Context, left # {},
           \A c \in left : /\ Open(c) /\ ~Gone(c) /\ c \notin sock[c].client
                           /\ sock[c].client \cap Context \subseteq Busy
                           /\ sock[c].client \cap left # {}
    PROVE  HoldEachOther
<1> DEFINE H(c) == sock[c].client \cap Context
           T == {H(c) : c \in left}
<1>1. IsWellFoundedOn(StrictSubsetOrdering(Busy), FiniteSubsetsOf(Busy))
      BY FS_StrictSubsetOrderingWellFounded
<1>2. FiniteSubsetsOf(Busy) = SUBSET Busy BY FS_FiniteSubsetsOfFinite
<1>3. T \subseteq FiniteSubsetsOf(Busy) /\ T # {}
  <2>1. \A c \in left : H(c) \in SUBSET Busy OBVIOUS
  <2>2. PICK c : c \in left OBVIOUS
  <2>3. H(c) \in T BY <2>2
  <2>4. T \subseteq SUBSET Busy BY <2>1
  <2> QED BY <1>2, <2>3, <2>4
<1>4. PICK h \in T : \A g \in T : <<g, h>> \notin StrictSubsetOrdering(Busy)
  <2> HIDE DEF T
  <2> QED BY <1>1, <1>3, WFMin
<1>5. PICK c \in left : h = H(c) BY <1>4
<1>6. PICK d \in left : d \in sock[c].client BY <1>5
<1>7. H(d) = H(c) \/ ~(H(d) \subseteq H(c))
  <2>1. H(d) \in SUBSET Busy /\ H(c) \in SUBSET Busy /\ H(d) \in T BY <1>5, <1>6
  <2>2. <<H(d), H(c)>> \notin StrictSubsetOrdering(Busy) BY <1>4, <1>5, <2>1
  <2> QED BY <2>1, <2>2 DEF StrictSubsetOrdering
<1>8. c # d /\ d \in H(c) /\ d \notin H(d) BY <1>5, <1>6
<1>9. Ordered(d, c) BY <1>5, <1>6, <1>8 DEF Nested
<1>10. c \in sock[d].client BY <1>7, <1>8, <1>9 DEF Ordered
<1> QED BY <1>6, <1>8, <1>10 DEF HoldEachOther

(***************************************************************************)
(* When nothing moves, every start is over, or its daemon is dead or out   *)
(* of control while somebody has its end of the socket; close() and        *)
(* failure have ended their daemons; and of those of a dead client none is *)
(* left, unless one has escaped or two have each other's sockets.          *)
(***************************************************************************)
THEOREM StandstillIsExcused == Spec => []NothingElseWaits
<1>1. ASSUME NestedInv, Quiet PROVE NothingElseWaits
  <2>0. ASSUME NEW c \in Context
        PROVE  /\ TypeOK /\ InStep(c) /\ Held(c) /\ Met(c)
               /\ StartWaits(c) /\ HelperWaits(c) /\ DaemonWaits(c)
               /\ sock[c].client \subseteq {"client", "helper"} \cup Context
               /\ sock[c].daemon \subseteq {"client", "helper"} \cup Context
               /\ start[c] \in {"idle", "paired", "forked", "listening", "waiting", "accepting",
                                "accepted", "aborted", "pinging", "started", "failed",
                                "closing", "stopped"}
    <3>1. TypeOK /\ InStep(c) /\ Held(c) /\ Met(c)
          BY <1>1 DEF NestedInv, HeldInv, IInv
    <3>2. StartWaits(c) /\ HelperWaits(c) /\ DaemonWaits(c) BY <1>1 DEF Quiet
    <3>3. start[c] \in {"idle", "paired", "forked", "listening", "waiting", "accepting",
                        "accepted", "aborted", "pinging", "started", "failed",
                        "closing", "stopped"}
          BY <3>1 DEF TypeOK
    <3> QED BY <3>1, <3>2, <3>3, SocketTypes DEF Process
  <2>1. ASSUME NEW c \in Context, client = "alive",
               start[c] \notin {"idle", "started", "stopped", "failed"}
        PROVE  ping[c] = "lost" \/ Orphaned(c)
    <3>1. start[c] \in {"pinging", "closing"} /\ helper[c] \notin {"connected", "forked"}
          BY <2>0, <2>1 DEF StartWaits, HelperWaits, InStep, Met
    <3>2. \/ ping[c] = "lost"
          \/ ping[c] \in {"sent", "read"} /\ sock[c].daemon # {}
          \/ start[c] = "closing" /\ sock[c].daemon # {}
          BY <2>0, <2>1, <3>1 DEF StartWaits, Met
    <3>3. sock[c].daemon \subseteq Context
          BY <2>0, <3>1 DEF Held
    <3>4. ping[c] \in {"sent", "read"} => daemon[c] \in {"raised", "exited"}
      <4>1. ping[c] \in {"sent", "read"} => start[c] = "pinging"
            BY <2>0, <3>1 DEF Met
      <4> QED BY <2>0, <3>1, <4>1 DEF Met, DaemonWaits, Gone, Escaped
    <3>5. start[c] = "closing" => daemon[c] \in {"raised", "exited"}
          BY <2>0 DEF Met, DaemonWaits, Gone, Escaped, InStep
    <3> QED BY <3>1, <3>2, <3>3, <3>4, <3>5 DEF Orphaned
  <2>2. ASSUME NEW c \in Context, start[c] \in {"closing", "stopped"}
        PROVE  daemon[c] = "exited" \/ Escaped(c)
        BY <2>0, <2>2 DEF Met, DaemonWaits, Gone, Escaped, InStep
  <2>3. ASSUME NEW c \in Context, start[c] = "failed", ~Gone(c)
        PROVE  sock[c].client \cap Context # {}
    <3>1. CASE Escaped(c) BY <2>0, <2>3, <3>1 DEF Met, Escaped
    <3>2. CASE ~Escaped(c)
      <4>1. sock[c].client # {} BY <2>0, <2>3, <3>2 DEF DaemonWaits
      <4> QED BY <2>0, <2>3, <4>1 DEF Held, Met
    <3> QED BY <3>1, <3>2
  <2>4. ASSUME client = "dead", \A c \in Context : ~Escaped(c), NEW live \in Context, ~Gone(live)
        PROVE  HoldEachOther
    <3> DEFINE left == {c \in Context : conf[c].method = "FORK" /\ ~Gone(c)}
    <3>1. ASSUME NEW c \in Context, ~Gone(c)
          PROVE  \E d \in left : d \in sock[c].client
      <4>1. sock[c].client # {} BY <2>0, <2>4, <3>1 DEF DaemonWaits
      <4>2. PICK d \in Context : d \in sock[c].client BY <2>0, <2>4, <4>1 DEF Held
      <4>3. ~Gone(d) /\ conf[d].method = "FORK" BY <1>1, <2>0, <4>2 DEF NestedInv, Held, Nested
      <4> QED BY <4>2, <4>3
    <3>2. ASSUME NEW c \in left PROVE Open(c)
      <4>1. start[c] \notin {"idle", "listening", "waiting", "accepting", "accepted",
                             "aborted", "closing", "stopped", "failed"}
            BY <2>0, <2>2, <2>4 DEF InStep, Met, Gone
      <4> QED BY <2>0, <4>1 DEF Open
    <3>3. ASSUME NEW c \in Context
          PROVE  c \notin sock[c].client /\ sock[c].client \cap Context \subseteq Busy
      <4>1. \A d \in Context : ~Gone(d) => d \in Busy BY <2>0 DEF Busy, InStep, Gone
      <4> QED BY <2>0, <4>1 DEF Held
    <3>4. left # {} BY <2>4, <3>1
    <3>5. ASSUME NEW c \in left
          PROVE  /\ Open(c) /\ ~Gone(c) /\ c \notin sock[c].client
                 /\ sock[c].client \cap Context \subseteq Busy
                 /\ sock[c].client \cap left # {}
          BY <3>1, <3>2, <3>3
    <3>6. left \in SUBSET Context OBVIOUS
    <3> HIDE DEF left
    <3> QED BY <1>1, <3>4, <3>5, <3>6, TwoHoldEachOther DEF NestedInv
  <2> QED BY <2>1, <2>2, <2>3, <2>4 DEF NothingElseWaits
<1>2. NestedInv => NothingElseWaits BY <1>1 DEF NothingElseWaits
<1> QED BY <1>2, NestedInvariance, PTL

-----------------------------------------------------------------------------
(***************************************************************************)
(* Where the thread in start(), the helper, the daemon and the PING of a   *)
(* context stand on their way: none of them has a loop.                    *)
(***************************************************************************)
StartRank(place) == CASE place = "idle" -> 0
                      [] place \in {"paired", "listening"} -> 1
                      [] place \in {"forked", "waiting"} -> 2
                      [] place = "accepting" -> 3
                      [] place \in {"accepted", "aborted"} -> 4
                      [] place = "pinging" -> 5
                      [] place = "started" -> 6
                      [] place = "closing" -> 7
                      [] OTHER -> 8

HelperRank(place) == CASE place = "none" -> 0
                       [] place = "running" -> 1
                       [] place = "connected" -> 2
                       [] place = "forked" -> 3
                       [] OTHER -> 4

DaemonRank(place) == CASE place = "none" -> 0
                       [] place = "keepcaps" -> 1
                       [] place = "setgroups" -> 2
                       [] place = "setgid" -> 3
                       [] place = "setuid" -> 4
                       [] place \in {"nokeep", "cleanup"} -> 5
                       [] place = "capset" -> 6
                       [] place = "capget" -> 7
                       [] place = "stdio" -> 8
                       [] place = "serving" -> 9
                       [] place = "raised" -> 10
                       [] OTHER -> 11

PingRank(state) == CASE state = "none" -> 0 [] state = "sent" -> 1
                     [] state = "read" -> 2 [] OTHER -> 3

Part == {"start", "helper", "daemon", "ping"}

Rank(c, part) == CASE part = "start" -> StartRank(start[c])
                   [] part = "helper" -> HelperRank(helper[c])
                   [] part = "daemon" -> DaemonRank(daemon[c])
                   [] OTHER -> PingRank(ping[c])

\* What lies ahead of the parts of each context.
Ahead == {p \in (Context \X Part) \X (1 .. 11) : Rank(p[1][1], p[1][2]) < p[2]}

\* How many steps can still be taken, at most.
Left == Cardinality(Ahead) + IF client = "alive" THEN 1 ELSE 0

\* A step leaves every part of c where it is or takes it further, ...
Onward(c) == /\ StartRank(start[c]) <= StartRank(start'[c])
             /\ HelperRank(helper[c]) <= HelperRank(helper'[c])
             /\ DaemonRank(daemon[c]) <= DaemonRank(daemon'[c])
             /\ PingRank(ping[c]) <= PingRank(ping'[c])

\* ... and one of them further indeed.
Further(c) == \/ StartRank(start[c]) < StartRank(start'[c])
              \/ HelperRank(helper[c]) < HelperRank(helper'[c])
              \/ DaemonRank(daemon[c]) < DaemonRank(daemon'[c])
              \/ PingRank(ping[c]) < PingRank(ping'[c])

\* Ranks are numbers that Ahead reaches.
LEMMA Ranked == \A place : /\ StartRank(place) \in 0 .. 11
                           /\ HelperRank(place) \in 0 .. 11
                           /\ DaemonRank(place) \in 0 .. 11
                           /\ PingRank(place) \in 0 .. 11
<1>1. \A place : StartRank(place) \in 0 .. 11 BY DEF StartRank
<1>2. \A place : HelperRank(place) \in 0 .. 11 BY DEF HelperRank
<1>3. \A place : DaemonRank(place) \in 0 .. 11 BY DEF DaemonRank
<1>4. \A place : PingRank(place) \in 0 .. 11 BY DEF PingRank
<1> QED BY <1>1, <1>2, <1>3, <1>4

\* What does not move stays where it is.
LEMMA RankStays == \A place : /\ StartRank(place) <= StartRank(place)
                              /\ HelperRank(place) <= HelperRank(place)
                              /\ DaemonRank(place) <= DaemonRank(place)
                              /\ PingRank(place) <= PingRank(place)
<1>1. \A n \in 0 .. 11 : n <= n OBVIOUS
<1> QED BY <1>1, Ranked

\* Descriptors that are closed can lose a PING, which is the end of its way.
LEMMA SocketsOnward ==
    ASSUME TypeOK, NEW new, Sockets(new), NEW d \in Context
    PROVE  PingRank(ping[d]) <= PingRank(ping'[d])
<1>1. ping'[d] = ping[d] \/ (ping[d] = "sent" /\ ping'[d] = "lost")
      BY DEF Sockets
<1>2. PingRank("sent") <= PingRank("lost") BY DEF PingRank
<1> QED BY <1>1, <1>2, RankStays

\* There is no helper before it is run.
Unhelped == \A c \in Context :
                start[c] \in {"idle", "paired", "listening"} => helper[c] = "none"

LEMMA UnhelpedStep ==
    ASSUME IInv, Unhelped, [Next]_vars
    PROVE  Unhelped'
<1> USE DEF TypeOK, DropTypeOK, StartAt, HelperAt, Unhelped, dropVars
<1>1. TypeOK /\ \A c \in Context : InStep(c) BY DEF IInv
<1>2. ASSUME NEW c \in Context, Socketpair(c) \/ Listen(c) \/ Fork(c) \/ Popen(c)
      PROVE  Unhelped'
      BY <1>1, <1>2 DEF Socketpair, Listen, Fork, Popen
<1>3. ASSUME NEW c \in Context,
             \/ Close(c) \/ CloseSockB(c) \/ NoFork(c) \/ HelperOk(c) \/ Accept(c)
             \/ Abort(c) \/ CleanUp(c) \/ CleanUpFails(c) \/ SendPing(c) \/ Started(c)
             \/ PingFails(c) \/ CloseJoin(c)
      PROVE  Unhelped'
      BY <1>1, <1>3 DEF Close, CloseSockB, NoFork, HelperOk, Accept, Abort, CleanUp,
                        CleanUpFails, SendPing, Started, PingFails, CloseJoin
<1>4. ASSUME NEW c \in Context, HelperStep(c) \/ HelperFails(c)
      PROVE  Unhelped'
  <2>1. /\ start' = start /\ start[c] = "waiting"
        /\ \A d \in Context \ {c} : helper'[d] = helper[d]
        BY <1>1, <1>4 DEF HelperStep, Connect, HelperForks, HelperReturns, HelperFails, InStep
  <2> QED BY <2>1
<1>5. CASE start' = start /\ helper' = helper BY <1>5
<1>6. ASSUME NEW c \in Context, DaemonStep(c) \/ DropFails(c) \/ ChildEnds(c) \/ Crash(c)
      PROVE  start' = start /\ helper' = helper
      BY <1>6 DEF DaemonStep, DropPrivs, ReadPing, Pong, Eof, EofRaises, HelperExits,
                  DropFails, ChildEnds, Crash
<1> QED BY <1>2, <1>3, <1>4, <1>5, <1>6 DEF Next, StartStep, Failure, ClientDies, vars

\* Every step of the client's thread takes its start further.
LEMMA StartOnward ==
    ASSUME IInv, NEW c \in Context, Unhelped,
           \/ Socketpair(c) \/ Listen(c) \/ Close(c) \/ Fork(c) \/ CloseSockB(c)
           \/ NoFork(c) \/ Popen(c) \/ HelperOk(c) \/ Accept(c) \/ Abort(c)
           \/ CleanUp(c) \/ CleanUpFails(c)
           \/ SendPing(c) \/ Started(c) \/ PingFails(c) \/ CloseJoin(c)
    PROVE  Further(c) /\ client' = client /\ \A d \in Context : Onward(d)
<1> USE DEF TypeOK, DropTypeOK, StartAt, dropVars
<1>1. TypeOK /\ InStep(c) BY DEF IInv
<1>2. CASE Fork(c)
  <2>1. /\ start[c] = "paired" /\ start' = [start EXCEPT ![c] = "forked"]
        /\ daemon[c] = "none" /\ daemon' = [daemon EXCEPT ![c] = "keepcaps"]
        /\ UNCHANGED <<client, helper, ping>>
        BY <1>1, <1>2 DEF Fork, Goto, InStep
  <2>2. Further(c) BY <1>1, <2>1 DEF Further, StartRank
  <2>3. ASSUME NEW d \in Context PROVE Onward(d)
        BY <1>1, <2>1, RankStays DEF Onward, StartRank, DaemonRank
  <2> QED BY <2>1, <2>2, <2>3
<1>3. CASE Popen(c)
  <2>1. /\ start[c] = "listening" /\ start' = [start EXCEPT ![c] = "waiting"]
        /\ helper' = [helper EXCEPT ![c] = "running"]
        /\ helper[c] = "none" /\ UNCHANGED <<client, daemon, ping>>
        BY <1>1, <1>3 DEF Popen, Unhelped
  <2>2. Further(c) BY <1>1, <2>1 DEF Further, StartRank
  <2>3. ASSUME NEW d \in Context PROVE Onward(d)
        BY <1>1, <2>1, RankStays DEF Onward, StartRank, HelperRank
  <2> QED BY <2>1, <2>2, <2>3
<1>4. CASE SendPing(c)
  <2>1. /\ ping[c] = "none" /\ ping' = [ping EXCEPT ![c] = "sent"]
        /\ UNCHANGED <<client, start, helper, daemon>>
        BY <1>1, <1>4 DEF SendPing
  <2>2. Further(c) BY <1>1, <2>1 DEF Further, PingRank
  <2>3. ASSUME NEW d \in Context PROVE Onward(d)
        BY <1>1, <2>1, RankStays DEF Onward, PingRank
  <2> QED BY <2>1, <2>2, <2>3
<1>5. CASE \/ Socketpair(c) \/ Listen(c) \/ Close(c) \/ CloseSockB(c) \/ NoFork(c)
           \/ HelperOk(c) \/ Accept(c) \/ Abort(c) \/ CleanUp(c) \/ CleanUpFails(c)
           \/ Started(c) \/ PingFails(c) \/ CloseJoin(c)
  <2>1. /\ start' = [start EXCEPT ![c] = start'[c]]
        /\ UNCHANGED <<client, helper, daemon, ping>>
        BY <1>1, <1>5 DEF Socketpair, Listen, Close, CloseSockB, NoFork, HelperOk,
                          Accept, Abort, CleanUp, CleanUpFails, Started, PingFails,
                          CloseJoin
  <2>2. StartRank(start[c]) < StartRank(start'[c])
    <3>1. CASE Socketpair(c) \/ Listen(c) \/ Close(c) \/ CloseSockB(c) \/ NoFork(c)
          BY <1>1, <3>1 DEF Socketpair, Listen, Close, CloseSockB, NoFork, StartRank
    <3>2. CASE HelperOk(c) \/ Accept(c) \/ Started(c) \/ PingFails(c) \/ CloseJoin(c)
          BY <1>1, <3>2 DEF HelperOk, Accept, Started, PingFails, CloseJoin, StartRank
    <3>3. CASE Abort(c)
          BY <1>1, <3>3 DEF Abort, MayAbort, StartRank
    <3>4. CASE CleanUp(c) \/ CleanUpFails(c)
          BY <1>1, <3>4 DEF CleanUp, CleanUpFails, StartRank
    <3> QED BY <1>5, <3>1, <3>2, <3>3, <3>4
  <2>3. StartRank(start[c]) \in Nat /\ StartRank(start'[c]) \in Nat BY Ranked
  <2>4. ASSUME NEW d \in Context PROVE Onward(d)
    <3>1. StartRank(start[d]) <= StartRank(start'[d])
          BY <1>1, <2>1, <2>2, <2>3, RankStays
    <3> QED BY <2>1, <3>1, RankStays DEF Onward
  <2> QED BY <2>1, <2>2, <2>4 DEF Further
<1> QED BY <1>2, <1>3, <1>4, <1>5

\* Every step of a helper takes it further.
LEMMA HelperOnward ==
    ASSUME IInv, NEW c \in Context,
           Connect(c) \/ HelperForks(c) \/ HelperReturns(c) \/ HelperFails(c)
    PROVE  Further(c) /\ client' = client /\ \A d \in Context : Onward(d)
<1> USE DEF TypeOK, DropTypeOK, HelperAt, dropVars
<1>1. TypeOK /\ InStep(c) BY DEF IInv
<1>2. /\ UNCHANGED <<client, start>> /\ helper' = [helper EXCEPT ![c] = helper'[c]]
      BY <1>1 DEF Connect, HelperForks, HelperReturns, HelperFails
<1>3. HelperRank(helper[c]) < HelperRank(helper'[c])
      BY <1>1 DEF Connect, HelperForks, HelperReturns, HelperFails, HelperRank
<1>4. HelperRank(helper[c]) \in Nat /\ HelperRank(helper'[c]) \in Nat BY Ranked
<1>5. ASSUME NEW d \in Context PROVE Onward(d)
  <2>1. StartRank(start[d]) <= StartRank(start'[d]) BY <1>2, RankStays
  <2>2. HelperRank(helper[d]) <= HelperRank(helper'[d])
        BY <1>1, <1>2, <1>3, <1>4, RankStays
  <2>3. DaemonRank(daemon[d]) <= DaemonRank(daemon'[d])
    <3>1. CASE HelperForks(c)
      <4>1. daemon[c] = "none" /\ daemon' = [daemon EXCEPT ![c] = "keepcaps"]
            BY <1>1, <3>1 DEF HelperForks, Goto, InStep
      <4> QED BY <1>1, <4>1, RankStays DEF DaemonRank
    <3>2. CASE daemon' = daemon BY <3>2, RankStays
    <3> QED BY <3>1, <3>2 DEF Connect, HelperReturns, HelperFails
  <2>4. PingRank(ping[d]) <= PingRank(ping'[d])
        BY <1>1, SocketsOnward, RankStays DEF Connect, HelperForks, HelperReturns, HelperFails
  <2> QED BY <2>1, <2>2, <2>3, <2>4 DEF Onward
<1> QED BY <1>2, <1>3, <1>5 DEF Further

\* Every step of a daemon takes it or the PING further.
LEMMA DaemonOnward ==
    ASSUME IInv, NEW c \in Context,
           DaemonStep(c) \/ DropFails(c) \/ ChildEnds(c) \/ Crash(c)
    PROVE  Further(c) /\ client' = client /\ \A d \in Context : Onward(d)
<1> USE DEF TypeOK, DropTypeOK, dropVars
<1>1. TypeOK BY DEF IInv
<1>2. CASE ReadPing(c) \/ Pong(c)
  <2>1. /\ UNCHANGED <<client, start, helper, daemon>>
        /\ PingRank(ping[c]) < PingRank(ping'[c])
        /\ ping' = [ping EXCEPT ![c] = ping'[c]]
        BY <1>1, <1>2 DEF ReadPing, Pong, PingRank
  <2>2. PingRank(ping[c]) \in Nat /\ PingRank(ping'[c]) \in Nat BY Ranked
  <2>3. ASSUME NEW d \in Context PROVE Onward(d)
    <3>1. PingRank(ping[d]) <= PingRank(ping'[d]) BY <1>1, <2>1, <2>2, RankStays
    <3> QED BY <2>1, <3>1, RankStays DEF Onward
  <2> QED BY <2>1, <2>3 DEF Further
<1>3. CASE \/ DropPrivs(c) \/ DropFails(c) \/ Eof(c) \/ EofRaises(c) \/ HelperExits(c)
           \/ ChildEnds(c) \/ Crash(c)
  <2>1. /\ UNCHANGED <<client, start, helper>>
        /\ daemon' = [daemon EXCEPT ![c] = daemon'[c]]
    <3>1. CASE DropPrivs(c)
          BY <1>1, <3>1 DEF DropPrivs, DropStep, KeepCaps, SetGroups, SetGid, SetUid,
                            NoKeepCaps, DropCaps, GetCaps, CloseStdio, Refused, Goto
    <3>2. CASE DropFails(c) \/ EofRaises(c)
          BY <1>1, <3>2 DEF DropFails, Fault, EofRaises, Goto
    <3>3. CASE Eof(c) \/ HelperExits(c) \/ ChildEnds(c) \/ Crash(c)
          BY <1>1, <3>3 DEF Eof, HelperExits, ChildEnds, Crash, Ends, Goto
    <3> QED BY <1>3, <3>1, <3>2, <3>3
  <2>2. DaemonRank(daemon[c]) < DaemonRank(daemon'[c])
    <3> USE DEF Goto, DaemonRank
    <3>1. CASE DropPrivs(c)
      <4>1. CASE KeepCaps(c) BY <1>1, <4>1 DEF KeepCaps, NextCall
      <4>2. CASE SetGroups(c) BY <1>1, <4>2 DEF SetGroups, NextCall, Refused
      <4>3. CASE SetGid(c)
        <5>1. daemon'[c] \in {NextCall(c), "cleanup"} /\ daemon[c] = "setgid"
              BY <1>1, <4>3 DEF SetGid, Refused
        <5> QED BY <5>1 DEF NextCall
      <4>4. CASE SetUid(c)
        <5>1. daemon'[c] \in {NextCall(c), "cleanup"} /\ daemon[c] = "setuid"
              BY <1>1, <4>4 DEF SetUid, Refused
        <5> QED BY <5>1 DEF NextCall
      <4>5. CASE NoKeepCaps(c) BY <1>1, <4>5 DEF NoKeepCaps
      <4>6. CASE DropCaps(c)
        <5>1. daemon'[c] \in {"capget", "raised"} /\ daemon[c] = "capset"
              BY <1>1, <4>6 DEF DropCaps
        <5> QED BY <5>1
      <4>7. CASE GetCaps(c) \/ CloseStdio(c) BY <1>1, <4>7 DEF GetCaps, CloseStdio
      <4> QED BY <3>1, <4>1, <4>2, <4>3, <4>4, <4>5, <4>6, <4>7 DEF DropPrivs, DropStep
    <3>2. CASE DropFails(c) \/ EofRaises(c)
          BY <1>1, <3>2 DEF DropFails, Fault, EofRaises, Dropping
    <3>3. CASE Eof(c) \/ HelperExits(c) \/ ChildEnds(c) \/ Crash(c)
          BY <1>1, <3>3 DEF Eof, HelperExits, ChildEnds, Crash, Ends, Dropping
    <3> QED BY <1>3, <3>1, <3>2, <3>3
  <2>3. DaemonRank(daemon[c]) \in Nat /\ DaemonRank(daemon'[c]) \in Nat BY Ranked
  <2>4. ASSUME NEW d \in Context PROVE Onward(d)
    <3>1. DaemonRank(daemon[d]) <= DaemonRank(daemon'[d])
          BY <1>1, <2>1, <2>2, <2>3, RankStays
    <3>2. PingRank(ping[d]) <= PingRank(ping'[d])
      <4>1. CASE ping' = ping BY <4>1, RankStays
      <4>2. CASE \E new : Sockets(new) BY <1>1, <4>2, SocketsOnward
      <4> QED BY <1>3, <4>1, <4>2 DEF DropPrivs, DropFails, Eof, EofRaises, HelperExits,
                                      ChildEnds, Crash, Ends
    <3> QED BY <2>1, <3>1, <3>2, RankStays DEF Onward
  <2> QED BY <2>1, <2>2, <2>4 DEF Further
<1> QED BY <1>2, <1>3 DEF DaemonStep

\* All steps together.
LEMMA StepOnward ==
    ASSUME IInv, Unhelped, [Next]_vars, vars' # vars
    PROVE  /\ \A d \in Context : Onward(d)
           /\ \/ client' = client /\ \E c \in Context : Further(c)
              \/ client = "alive" /\ client' = "dead"
<1>1. ASSUME NEW c \in Context,
             \/ Socketpair(c) \/ Listen(c) \/ Close(c) \/ StartStep(c)
             \/ NoFork(c) \/ Abort(c) \/ CleanUpFails(c)
      PROVE  Further(c) /\ client' = client /\ \A d \in Context : Onward(d)
      BY <1>1, StartOnward DEF StartStep
<1>2. ASSUME NEW c \in Context, HelperStep(c) \/ HelperFails(c)
      PROVE  Further(c) /\ client' = client /\ \A d \in Context : Onward(d)
      BY <1>2, HelperOnward DEF HelperStep
<1>3. ASSUME NEW c \in Context, DaemonStep(c) \/ DropFails(c) \/ ChildEnds(c) \/ Crash(c)
      PROVE  Further(c) /\ client' = client /\ \A d \in Context : Onward(d)
      BY <1>3, DaemonOnward
<1>4. ASSUME ClientDies
      PROVE  client = "alive" /\ client' = "dead" /\ \A d \in Context : Onward(d)
  <2>1. /\ client = "alive" /\ client' = "dead" /\ TypeOK
        /\ UNCHANGED <<start, helper, daemon>> /\ Sockets(Released("client"))
        BY <1>4 DEF ClientDies, dropVars, IInv
  <2> QED BY <2>1, SocketsOnward, RankStays DEF Onward
<1> QED BY <1>1, <1>2, <1>3, <1>4 DEF Next, Failure

\* What lies ahead is part of a finite set.
LEMMA AheadFinite ==
    ASSUME IsFiniteSet(Context)
    PROVE  /\ Ahead \in SUBSET ((Context \X Part) \X (1 .. 11))
           /\ IsFiniteSet(Ahead) /\ Cardinality(Ahead) \in Nat
<1>1. Ahead \in SUBSET ((Context \X Part) \X (1 .. 11)) BY DEF Ahead
<1>2. IsFiniteSet(1 .. 11)
  <2>1. 1 \in Int /\ 11 \in Int OBVIOUS
  <2> QED BY ONLY <2>1, FS_Interval
<1>3. IsFiniteSet(Part)
  <2>1. Part = ((({} \cup {"start"}) \cup {"helper"}) \cup {"daemon"}) \cup {"ping"}
        BY DEF Part
  <2> QED BY <2>1, FS_EmptySet, FS_AddElement
<1>4. IsFiniteSet(Context \X Part) BY <1>3, FS_Product
<1>5. IsFiniteSet((Context \X Part) \X (1 .. 11)) BY <1>2, <1>4, FS_Product
<1>6. IsFiniteSet(Ahead) BY <1>1, <1>5, FS_Subset
<1>7. Cardinality(Ahead) \in Nat BY <1>6, FS_CardinalityType
<1> QED BY <1>1, <1>6, <1>7

\* Where every part stays or gets further, nothing more lies ahead than before,
\* and less where one gets further.
LEMMA LessAhead ==
    ASSUME IsFiniteSet(Context), \A d \in Context : Onward(d)
    PROVE  /\ Cardinality(Ahead) \in Nat /\ Cardinality(Ahead') \in Nat
           /\ Cardinality(Ahead') <= Cardinality(Ahead)
           /\ (\E c \in Context : Further(c)) => Cardinality(Ahead') < Cardinality(Ahead)
<1> DEFINE All == (Context \X Part) \X (1 .. 11)
<1>2. Ahead \in SUBSET All /\ IsFiniteSet(Ahead) /\ Cardinality(Ahead) \in Nat
      BY AheadFinite
<1>3. \A c, part : /\ Rank(c, part) \in 0 .. 11 /\ Rank(c, part)' \in 0 .. 11
      BY Ranked DEF Rank
<1>4. \A c \in Context, part \in Part : Rank(c, part) <= Rank(c, part)'
      BY DEF Onward, Rank, Part
<1>5. ASSUME NEW p \in Ahead' PROVE p \in Ahead
  <2>1. p \in All /\ Rank(p[1][1], p[1][2])' < p[2] BY DEF Ahead
  <2>2. p[1][1] \in Context /\ p[1][2] \in Part /\ p[2] \in Nat BY <2>1
  <2>3. Rank(p[1][1], p[1][2]) < p[2] BY <1>3, <1>4, <2>1, <2>2
  <2> QED BY <2>1, <2>3 DEF Ahead
<1>6. ASSUME NEW c \in Context, Further(c) PROVE Ahead' # Ahead
  <2>1. PICK part \in Part : Rank(c, part) < Rank(c, part)'
        BY <1>6 DEF Further, Rank, Part
  <2>2. Rank(c, part)' \in 1 .. 11 BY <1>3, <2>1
  <2> DEFINE p == <<<<c, part>>, Rank(c, part)'>>
  <2>3. p \in All /\ p[1][1] = c /\ p[1][2] = part /\ p[2] = Rank(c, part)' BY <2>2
  <2>4. ~(Rank(c, part)' < Rank(c, part)') BY <2>2
  <2>5. p \in Ahead BY <2>1, <2>3 DEF Ahead
  <2>6. p \notin Ahead' BY <2>3, <2>4 DEF Ahead
  <2> QED BY <2>5, <2>6
<1>7. Ahead' \in SUBSET Ahead BY <1>5
<1>8. /\ IsFiniteSet(Ahead') /\ Cardinality(Ahead') <= Cardinality(Ahead)
      /\ Cardinality(Ahead) = Cardinality(Ahead') => Ahead = Ahead'
      BY <1>2, <1>7, FS_Subset
<1>9. Cardinality(Ahead') \in Nat BY <1>8, FS_CardinalityType
<1> QED BY <1>2, <1>6, <1>8, <1>9

(***************************************************************************)
(* Every step is progress, of whichever process: nothing polls or retries. *)
(* Starting a number of daemons therefore comes to a standstill, and       *)
(* StandstillIsExcused says what that looks like.                          *)
(***************************************************************************)
THEOREM EveryStepIsProgress ==
    ASSUME IsFiniteSet(Context)
    PROVE  Spec => [](Left \in Nat) /\ [][Left' < Left]_vars
<1>1. IInv /\ Unhelped /\ [Next]_vars => [Left' < Left]_vars
  <2> SUFFICES ASSUME IInv, Unhelped, [Next]_vars, vars' # vars PROVE Left' < Left OBVIOUS
  <2>1. /\ \A d \in Context : Onward(d)
        /\ \/ client' = client /\ \E c \in Context : Further(c)
           \/ client = "alive" /\ client' = "dead"
        BY StepOnward
  <2>2. /\ Cardinality(Ahead) \in Nat /\ Cardinality(Ahead') \in Nat
        /\ Cardinality(Ahead') <= Cardinality(Ahead)
        /\ (\E c \in Context : Further(c)) => Cardinality(Ahead') < Cardinality(Ahead)
        BY <2>1, LessAhead
  <2>3. CASE client' = client /\ \E c \in Context : Further(c)
        BY <2>2, <2>3 DEF Left
  <2>4. CASE client = "alive" /\ client' = "dead" BY <2>2, <2>4 DEF Left
  <2> QED BY <2>1, <2>3, <2>4
<1>2. Left \in Nat BY AheadFinite DEF Left
<1>3. /\ Init => Unhelped
      /\ IInv /\ Unhelped /\ [Next]_vars => Unhelped'
      BY UnhelpedStep DEF Init, Unhelped
<1> QED BY <1>1, <1>2, <1>3, Invariance, PTL DEF Spec
=============================================================================
