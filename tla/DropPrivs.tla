------------------------------ MODULE DropPrivs ------------------------------
(***************************************************************************)
(* What a daemon process does between its creation and its first request:  *)
(* Daemon.run up to loop(), that is _drop_privs and _close_stdio, with the *)
(* capability masks of capabilities.py and the rules by which the kernel   *)
(* grants or refuses each call.                                            *)
(*                                                                         *)
(* The daemons of several contexts go through it, one step a system call.  *)
(* A process has one thread at this time: the pool starts with loop().     *)
(***************************************************************************)
EXTENDS Integers

CONSTANTS Context,    \* the contexts; each starts at most one daemon
          Word,       \* bits of a __u32: 32 in the code
          KnownCap,   \* the capabilities that the kernel has
          CAP_SETUID, CAP_SETGID,
          Situation   \* the configurations to choose from

ASSUME CapAssumption == /\ Word \in Nat \ {0}
                        /\ KnownCap \subseteq 0 .. (2 * Word - 1)
                        /\ {CAP_SETUID, CAP_SETGID} \subseteq KnownCap

VARIABLES conf,       \* the options of each context, and how it is started
          cred,       \* the credentials that its daemon has
          daemon,     \* where the daemon is, see the actions
          shown,      \* the effective capabilities it logs as its own
          faults      \* history: daemons that a call failed in without a rule

dropVars == <<conf, cred, daemon, shown, faults>>

Id == {"root", "service", "privsep"}
Unset == "unset"

\* A Python int that serves as a mask is the set of its one bits.
Mask == SUBSET Nat
Cred == [uid : Id, gid : Id, groups : SUBSET Id, keep : BOOLEAN,
         eff : SUBSET KnownCap, prm : SUBSET KnownCap, inh : SUBSET KnownCap]

\* origin: the credentials that the daemon is created with.
Conf == [user : Id \cup {Unset}, group : Id \cup {Unset}, caps : SUBSET Int,
         method : {"FORK", "ROOTWRAP"}, origin : Cred]

ASSUME SituationAssumption == Situation \subseteq [Context -> Conf]

Dropping == {"keepcaps", "setgroups", "setgid", "setuid", "nokeep", "cleanup",
             "capset", "capget", "stdio"}

DropTypeOK == /\ conf \in [Context -> Conf]
              /\ cred \in [Context -> Cred]
              /\ daemon \in [Context -> Dropping \cup {"none", "serving",
                                                       "raised", "exited"}]
              /\ shown \in [Context -> SUBSET (0 .. (2 * Word - 1))]
              /\ faults \in SUBSET Context

DropInit == /\ conf \in Situation
            /\ cred = [c \in Context |-> conf[c].origin]
            /\ daemon = [c \in Context |-> "none"]
            /\ shown = [c \in Context |-> {}]
            /\ faults = {}

-----------------------------------------------------------------------------
(* capabilities.py *)

\* mask & 0xFFFFFFFF and mask >> 32.
Low(mask) == {b \in mask : b < Word}
High(mask) == {b - Word : b \in {x \in mask : x >= Word}}

\* A mask of these can be built (1 << -1 raises) and stored in two __u32.
Storable(caps) == /\ caps \in Mask
                  /\ \A b \in High(caps) : b < Word

\* data[0].x | (data[1].x << 32).
Join(low, high) == low \cup {b + Word : b \in high}

\* Wrong on purpose: bit 63 is left out.
AllButLast(mask) == {i \in 0 .. (2 * Word - 2) : i \in mask}

\* Wrong on purpose: counts from one.
FromOne(mask) == {i \in 1 .. (2 * Word) : i - 1 \in mask}

MaskToCaps(mask) == {i \in 0 .. (2 * Word - 1) : i \in mask}

\* capset: what the kernel is given, and by its rule allows.  It ignores bits
\* that it has no capability for.
Given(caps) == Join(Low(caps), High(caps)) \cap KnownCap
MaySet(c, caps) == Given(caps) \subseteq cred[c].prm

-----------------------------------------------------------------------------
(* _drop_privs, _close_stdio *)

Goto(c, place) == daemon' = [daemon EXCEPT ![c] = place]

\* Wrong on purpose: the user id is changed first, as it once was.
UserFirst(c) ==
    IF daemon[c] = "keepcaps" /\ conf[c].user # Unset THEN "setuid"
    ELSE IF daemon[c] \in {"keepcaps", "setuid"} /\ conf[c].group # Unset THEN "setgroups"
    ELSE IF daemon[c] = "setgroups" THEN "setgid" ELSE "nokeep"

\* The call of the try block after this one.
NextCall(c) ==
    IF daemon[c] = "keepcaps" /\ conf[c].group # Unset THEN "setgroups"
    ELSE IF daemon[c] = "setgroups" THEN "setgid"
    ELSE IF daemon[c] # "setuid" /\ conf[c].user # Unset THEN "setuid" ELSE "nokeep"

KeepCaps(c) == /\ daemon[c] = "keepcaps"
               /\ cred' = [cred EXCEPT ![c].keep = TRUE]
               /\ Goto(c, NextCall(c))
               /\ UNCHANGED <<conf, shown, faults>>

\* A refused call raises FailedToDropPrivileges, and finally comes next.
Refused(c) == Goto(c, "cleanup") /\ UNCHANGED cred

SetGroups(c) ==
    /\ daemon[c] = "setgroups"
    /\ IF CAP_SETGID \in cred[c].eff
       THEN cred' = [cred EXCEPT ![c].groups = {}] /\ Goto(c, NextCall(c))
       ELSE Refused(c)
    /\ UNCHANGED <<conf, shown, faults>>

\* setgid: 0 is not changed to.  After setgroups no refusal is left, as both
\* need the same capability.
SetGid(c) ==
    /\ daemon[c] = "setgid"
    /\ CASE conf[c].group = "root" -> Goto(c, NextCall(c)) /\ UNCHANGED cred
         [] conf[c].group # "root"
            /\ (CAP_SETGID \in cred[c].eff \/ cred[c].gid = conf[c].group) ->
               cred' = [cred EXCEPT ![c].gid = conf[c].group] /\ Goto(c, NextCall(c))
         [] OTHER -> Refused(c)
    /\ UNCHANGED <<conf, shown, faults>>

\* The kernel's side of setuid: leaving root for good empties the effective
\* set, and the permitted one, too, unless keepcaps is set.
Became(cr, uid) ==
    IF cr.uid = "root" /\ uid # "root"
    THEN [cr EXCEPT !.uid = uid, !.eff = {}, !.prm = IF cr.keep THEN @ ELSE {}]
    ELSE [cr EXCEPT !.uid = uid]

SetUid(c) ==
    /\ daemon[c] = "setuid"
    /\ CASE conf[c].user = "root" -> Goto(c, NextCall(c)) /\ UNCHANGED cred
         [] conf[c].user # "root"
            /\ (CAP_SETUID \in cred[c].eff \/ cred[c].uid = conf[c].user) ->
               cred' = [cred EXCEPT ![c] = Became(@, conf[c].user)]
               /\ Goto(c, NextCall(c))
         [] OTHER -> Refused(c)
    /\ UNCHANGED <<conf, shown, faults>>

\* Wrong on purpose: the flag is reset after a failure only.
NoKeepOnError(c) == /\ daemon[c] \in {"nokeep", "cleanup"}
                    /\ cred' = IF daemon[c] = "nokeep" THEN cred
                               ELSE [cred EXCEPT ![c].keep = FALSE]
                    /\ Goto(c, IF daemon[c] = "nokeep" THEN "capset" ELSE "raised")
                    /\ UNCHANGED <<conf, shown, faults>>

\* finally: on either path.
NoKeepCaps(c) == /\ daemon[c] \in {"nokeep", "cleanup"}
                 /\ cred' = [cred EXCEPT ![c].keep = FALSE]
                 /\ Goto(c, IF daemon[c] = "nokeep" THEN "capset" ELSE "raised")
                 /\ UNCHANGED <<conf, shown, faults>>

\* drop_all_caps_except(caps, caps, []).
DropCaps(c) ==
    /\ daemon[c] = "capset"
    /\ LET caps == conf[c].caps
       IN IF Storable(caps) /\ MaySet(c, caps)
          THEN /\ cred' = [cred EXCEPT ![c] = [@ EXCEPT !.eff = Given(caps),
                                              !.prm = Given(caps), !.inh = {}]]
               /\ Goto(c, "capget")
          ELSE Goto(c, "raised") /\ UNCHANGED cred
    /\ UNCHANGED <<conf, shown, faults>>

\* get_caps, for the log.
GetCaps(c) ==
    /\ daemon[c] = "capget"
    /\ shown' = [shown EXCEPT ![c] =
                    MaskToCaps(Join(Low(cred[c].eff), High(cred[c].eff)))]
    /\ Goto(c, "stdio")
    /\ UNCHANGED <<conf, cred, faults>>

CloseStdio(c) == /\ daemon[c] = "stdio"
                 /\ Goto(c, "serving")
                 /\ UNCHANGED <<conf, cred, shown, faults>>

\* Any of the calls fails all the same: no such user, EAGAIN, a log record that
\* cannot be written because the client is gone.
Fault(c) ==
    /\ daemon[c] \in Dropping
    /\ Goto(c, IF daemon[c] \in {"keepcaps", "setgroups", "setgid", "setuid"}
               THEN "cleanup" ELSE "raised")
    /\ faults' = faults \cup {c}
    /\ UNCHANGED <<conf, cred, shown>>

DropStep(c) == \/ KeepCaps(c) \/ SetGroups(c) \/ SetGid(c) \/ SetUid(c)
               \/ NoKeepCaps(c) \/ DropCaps(c) \/ GetCaps(c) \/ CloseStdio(c)

-----------------------------------------------------------------------------
(***************************************************************************)
(* The credentials that the options of a context ask for, the "user that   *)
(* the privsep daemon should run as" and so on (priv_context.py:56-67).    *)
(* An option that is not set leaves its id as it was.                      *)
(***************************************************************************)
Chosen(option, id) == IF option = Unset THEN id ELSE option

Dropped(c, uid, gid) ==
    [uid    |-> uid,
     gid    |-> gid,
     groups |-> IF conf[c].group = Unset THEN conf[c].origin.groups ELSE {},
     keep   |-> FALSE,
     eff    |-> conf[c].caps \cap KnownCap,
     prm    |-> conf[c].caps \cap KnownCap,
     inh    |-> {}]

AskedFor(c) == Dropped(c, Chosen(conf[c].user, conf[c].origin.uid),
                          Chosen(conf[c].group, conf[c].origin.gid))

(***************************************************************************)
(* setuid and setgid take the id 0 for "leave it" (daemon.py:161, 175): an *)
(* origin other than root that is to become root stays what it is.         *)
(***************************************************************************)
RootUser(c) == conf[c].user = "root" /\ conf[c].origin.uid # "root"
RootGroup(c) == conf[c].group = "root" /\ conf[c].origin.gid # "root"

Kept(option, id) == IF option \in {Unset, "root"} THEN id ELSE option

Unraised(c) == Dropped(c, Kept(conf[c].user, conf[c].origin.uid),
                          Kept(conf[c].group, conf[c].origin.gid))

(***************************************************************************)
(* The origin suffices: root with all capabilities, or a process that has  *)
(* what is asked for and the capabilities that changing its ids needs.     *)
(***************************************************************************)
Sufficient(c) ==
    /\ conf[c].caps \subseteq 0 .. (2 * Word - 1)
    /\ conf[c].caps \cap KnownCap \subseteq conf[c].origin.prm
    /\ conf[c].group # Unset => CAP_SETGID \in conf[c].origin.eff
    /\ conf[c].user \notin {Unset, "root", conf[c].origin.uid} =>
           CAP_SETUID \in conf[c].origin.eff
=============================================================================
