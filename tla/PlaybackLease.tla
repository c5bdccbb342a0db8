---------------------------- MODULE PlaybackLease ----------------------------
(***************************************************************************)
(* What the libtorrent playback coordinator promises its clients, without  *)
(* generations, counters, mutexes, commands or priorities.  A client that  *)
(* asks for a file that is still downloaded gets a lease on it; all leases *)
(* are on one file.  Once the client is answered the torrent stays         *)
(* connected for it, until it leaves, the file is complete, or a request   *)
(* of a client takes the leases away: neither time, nor failures of other  *)
(* clients, nor what the coordinator does by itself ever does.             *)
(***************************************************************************)
CONSTANTS Clients, Files, None

VARIABLES
  client,     \* where each client is, see Places
  file,       \* what the leases are on; None if nothing is to be downloaded
  done,       \* files that are complete
  connected   \* the torrent talks to the swarm

vars == <<client, file, done, connected>>

(* A guest reads without a lease: the one it had was taken away, or its     *)
(* file was complete when it asked.                                         *)
Places == {"out", "asking", "leased", "served", "guest"}

Init ==
  /\ client = [c \in Clients |-> "out"]
  /\ file = None
  /\ done = {}
  /\ connected = FALSE

Served == {c \in Clients : client[c] = "served"}

Revoked(place) == IF place \in {"leased", "served"} THEN "guest" ELSE place

(* The client c moves, and all leases but its own are taken away.           *)
OnlyFor(c, place) ==
  client' = [x \in Clients |-> IF x = c THEN place ELSE Revoked(client[x])]

Moves(c, place) == client' = [client EXCEPT ![c] = place]

-----------------------------------------------------------------------------
Ask(c) ==
  /\ client[c] = "out"
  /\ Moves(c, "asking")
  /\ UNCHANGED <<file, done, connected>>

(* A lease on the file that is played already leaves the others theirs, if  *)
(* it is asked for alike; any other takes them away.                        *)
Join(c) ==
  /\ client[c] = "asking" /\ file # None
  /\ Moves(c, "leased")
  /\ UNCHANGED <<file, done, connected>>

Take(c, f) ==
  /\ client[c] = "asking"
  /\ OnlyFor(c, "leased")
  /\ file' = f
  /\ UNCHANGED <<done, connected>>

(* A complete file needs no lease, and nothing else is downloaded then.     *)
Visit(c) ==
  /\ client[c] = "asking"
  /\ OnlyFor(c, "guest")
  /\ file' = None
  /\ UNCHANGED <<done, connected>>

(* An HLS session has no lease of its own, but its requests decide what is  *)
(* downloaded, and its end that nothing is.                                 *)
Displace(c, f) ==
  /\ client[c] \in {"out", "asking"}
  /\ OnlyFor(c, "out")
  /\ file' = f
  /\ UNCHANGED <<done, connected>>

Answer(c) ==
  /\ client[c] = "leased" /\ file \notin done
  /\ Moves(c, "served")
  /\ connected' = TRUE
  /\ UNCHANGED <<file, done>>

(* Closed, dropped or failed: at any time, and of no effect on the others.  *)
Leave(c) ==
  /\ Moves(c, "out")
  /\ UNCHANGED <<file, done, connected>>

-----------------------------------------------------------------------------
Finish(f) ==
  /\ done' = done \cup {f}
  /\ client' = [c \in Clients |-> IF client[c] = "served" /\ file = f THEN "leased" ELSE client[c]]
  /\ UNCHANGED <<file, connected>>

Connect ==
  /\ connected' = TRUE
  /\ UNCHANGED <<client, file, done>>

Disconnect ==
  /\ Served = {}
  /\ connected' = FALSE
  /\ UNCHANGED <<client, file, done>>

(* The torrent is given up when nobody reads it any more.                   *)
Rest ==
  /\ \A c \in Clients : client[c] \in {"out", "asking"}
  /\ file' = None
  /\ UNCHANGED <<client, done, connected>>

Next ==
  \/ \E c \in Clients :
        \/ Ask(c) \/ Join(c) \/ Visit(c) \/ Answer(c) \/ Leave(c)
        \/ \E f \in Files : Take(c, f)
        \/ \E f \in Files \cup {None} : Displace(c, f)
  \/ \E f \in Files : Finish(f)
  \/ Connect \/ Disconnect \/ Rest

Spec == Init /\ [][Next]_vars
=============================================================================
