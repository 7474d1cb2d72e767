--------------------------- MODULE VerifiedCache ---------------------------
(* What fetch.py promises of one cached item (a scanner binary, the rules   *)
(* bundle): a client that asks for it is either refused or given the whole  *)
(* verified item, and once the cache has the item it keeps it.              *)
CONSTANT Clients        \* the thyn-sec processes sharing one cache directory

VARIABLES entry,        \* "absent" or "whole"
          answer        \* what each client has been told

vars == <<entry, answer>>

Answers == {"none", "asked", "usable", "refused"}

\* The entry is absent or whole; a process is answered at most once.
TypeOK ==
    /\ entry \in {"absent", "whole"}
    /\ answer \in [Clients -> Answers]

Init ==
    /\ entry = "absent"
    /\ answer = [c \in Clients |-> "none"]

Ask(c) ==
    /\ answer[c] = "none"
    /\ answer' = [answer EXCEPT ![c] = "asked"]
    /\ UNCHANGED entry

\* The item was there, or the client fetched it.
Give(c) ==
    /\ answer[c] = "asked"
    /\ answer' = [answer EXCEPT ![c] = "usable"]
    /\ entry' = "whole"

\* Offline, no network, a download whose digest is not the lock's.
Refuse(c) ==
    /\ answer[c] = "asked"
    /\ answer' = [answer EXCEPT ![c] = "refused"]
    /\ UNCHANGED entry

\* The client ends, of its own accord or not.
Leave(c) ==
    /\ answer[c] # "none"
    /\ answer' = [answer EXCEPT ![c] = "none"]
    /\ UNCHANGED entry

Next == \E c \in Clients : Ask(c) \/ Give(c) \/ Refuse(c) \/ Leave(c)

Spec == Init /\ [][Next]_vars
=============================================================================
