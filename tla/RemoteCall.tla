----------------------------- MODULE RemoteCall -----------------------------
(***************************************************************************)
(* What a privileged entrypoint promises to its caller, with no channel,   *)
(* thread or process in sight.  The function runs at most once.  A call    *)
(* that returns a reply returns it after the function ran (or was refused, *)
(* for a function that is not an entrypoint).  A call that fails, with     *)
(* PrivsepTimeout or an OSError, promises nothing: the function may have   *)
(* run, may run later, or never.                                           *)
(***************************************************************************)
EXTENDS Naturals

CONSTANTS Call,       \* the calls
          Refused,    \* calls that the daemon refuses to run
          Unsent      \* calls whose request cannot be written at all

VARIABLES status,     \* what the caller of each call sees
          ran         \* how often its function was entered

vars == <<status, ran>>

Init == /\ status = [c \in Call |-> "idle"]
        /\ ran = [c \in Call |-> 0]

Begin(c) == /\ status[c] = "idle"
            /\ status' = [status EXCEPT ![c] = "open"]
            /\ UNCHANGED ran

Run(c) == /\ status[c] \in {"open", "failed"} /\ ran[c] = 0
          /\ c \notin Refused \cup Unsent
          /\ ran' = [ran EXCEPT ![c] = 1]
          /\ UNCHANGED status

Return(c) == /\ status[c] = "open"
             /\ ran[c] = 1 \/ c \in Refused
             /\ c \notin Unsent
             /\ status' = [status EXCEPT ![c] = "returned"]
             /\ UNCHANGED ran

Fail(c) == /\ status[c] = "open"
           /\ status' = [status EXCEPT ![c] = "failed"]
           /\ UNCHANGED ran

Next == \E c \in Call : Begin(c) \/ Run(c) \/ Return(c) \/ Fail(c)

Spec == Init /\ [][Next]_vars
=============================================================================
