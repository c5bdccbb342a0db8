---------------------------- MODULE ConnectionPool ----------------------------
(***************************************************************************)
(* What the pool of a Usenet session promises (server/src/archives/nzb):   *)
(* a connection is idle, lent to one user, or lost for good; a user gets   *)
(* an idle one, and gives back or loses the one it has.  How users come    *)
(* and go, and what they do with a connection, is left to the session.     *)
(***************************************************************************)
CONSTANTS Clients,    \* connections of the session
          Users,      \* who may have one
          None        \* no connection

VARIABLES idle, lent, lost

vars == <<idle, lent, lost>>

Init == idle = {} /\ lent = [u \in Users |-> None] /\ lost = {}

Lent == {lent[u] : u \in Users} \ {None}

(* A connection is set up, or is refused by its server.                     *)
Join(c) ==
    /\ c \notin idle \cup Lent \cup lost
    /\ idle' = idle \cup {c}
    /\ UNCHANGED <<lent, lost>>

Refuse(c) ==
    /\ c \notin idle \cup Lent \cup lost
    /\ lost' = lost \cup {c}
    /\ UNCHANGED <<idle, lent>>

Lend(u, c) ==
    /\ lent[u] = None /\ c \in idle
    /\ lent' = [lent EXCEPT ![u] = c]
    /\ idle' = idle \ {c}
    /\ UNCHANGED lost

GiveBack(u) ==
    /\ lent[u] # None
    /\ idle' = idle \cup {lent[u]}
    /\ lent' = [lent EXCEPT ![u] = None]
    /\ UNCHANGED lost

Lose(u) ==
    /\ lent[u] # None
    /\ lost' = lost \cup {lent[u]}
    /\ lent' = [lent EXCEPT ![u] = None]
    /\ UNCHANGED idle

Next ==
    \/ \E c \in Clients : Join(c) \/ Refuse(c)
    \/ \E u \in Users : GiveBack(u) \/ Lose(u) \/ \E c \in Clients : Lend(u, c)

Spec == Init /\ [][Next]_vars
=============================================================================
