----------------------------- MODULE MCStartup -----------------------------
EXTENDS Startup

CONSTANTS c1, c2

\* Capabilities: 0 and 1 are CAP_SETGID and CAP_SETUID, 3 is the first and 5
\* the last of the high word, 4 is unknown to the kernel, 6 has no bit.
MCKnownCap == {0, 1, 3, 5}

Credentials(id, caps) == [uid |-> id, gid |-> id, groups |-> {id}, keep |-> FALSE,
                      eff |-> caps, prm |-> caps, inh |-> {}]
Root == Credentials("root", MCKnownCap)
Service == Credentials("service", {0, 3, 5})

Options(user, group, caps, method, origin) ==
    [user |-> user, group |-> group, caps |-> caps, method |-> method,
     origin |-> origin]

\* c1 is the one that asks for something.
MCSituation ==
    {[c \in Context |-> IF c = c1 THEN s[1] ELSE s[2]] : s \in
        {<<Options("privsep", "privsep", {1, 3, 5}, "FORK", Root),
           Options(Unset, Unset, {}, "FORK", Root)>>,
         <<Options("privsep", "privsep", {0, 5}, "ROOTWRAP", Root),
           Options(Unset, Unset, {}, "FORK", Service)>>,
         <<Options("root", "service", {0, 4}, "FORK", Service),
           Options(Unset, "privsep", {}, "ROOTWRAP", Credentials("service", {}))>>,
         <<Options(Unset, Unset, {6}, "ROOTWRAP", Root),
           Options("privsep", Unset, {}, "ROOTWRAP", Service)>>}}

\* Both are forked by one client.
MCForked == {s \in MCSituation : \A c \in Context : s[c].method = "FORK"}
=============================================================================
