---------------------------- MODULE UsenetSession ----------------------------
(***************************************************************************)
(* Streams from Usenet (server/src/archives/nzb, server/src/routes/nzb.rs): *)
(* the connections of a session wait in a bounded channel, the pool; a     *)
(* stream fetches the segments of its file one at a time, each through a   *)
(* task of its own that takes a connection from the pool and returns it    *)
(* after a success.                                                        *)
(***************************************************************************)
EXTENDS Naturals

CONSTANTS Clients,    \* NNTP connections the session is configured for
          Streams,    \* requests for a file of the session
          Segments,   \* segments of that file, sorted by number
          NoClient    \* the client of a fetch that holds none

VARIABLES
    conn,     \* where each connection is
    alive,    \* whether its server still answers on it
    stream,   \* NzbFileStream of each request
    fetch,    \* its fetch task, which outlives the stream
    refused   \* history: connections that failed, at the start or in a fetch

vars == <<conn, alive, stream, fetch, refused>>

Places == {"untried", "pool", "held", "dropped"}
StreamPCs == {"unborn", "open", "ended", "failed", "closed"}
FetchPCs  == {"none", "waiting", "asking", "got", "cut", "error"}

TypeOK ==
    /\ conn \in [Clients -> Places]
    /\ alive \in [Clients -> BOOLEAN]
    /\ stream \in [Streams -> [pc : StreamPCs, index : 0..Segments, buffered : BOOLEAN,
                               sent : 0..Segments]]
    /\ fetch \in [Streams -> [pc : FetchPCs, client : Clients \cup {NoClient}]]
    /\ refused \in SUBSET Clients

Idle == [pc |-> "none", client |-> NoClient]

Init ==
    /\ conn = [c \in Clients |-> "untried"]
    /\ alive = [c \in Clients |-> TRUE]
    /\ stream = [s \in Streams |-> [pc |-> "unborn", index |-> 0, buffered |-> FALSE, sent |-> 0]]
    /\ fetch = [s \in Streams |-> Idle]
    /\ refused = {}

-----------------------------------------------------------------------------
(* The session's task connects and authenticates the clients in turn and    *)
(* skips those that fail; a failed one is not tried again.                  *)
ConnectClient(c) ==
    /\ conn[c] = "untried"
    /\ conn' = [conn EXCEPT ![c] = "pool"]
    /\ UNCHANGED <<alive, stream, fetch, refused>>

ClientRefused(c) ==
    /\ conn[c] = "untried"
    /\ conn' = [conn EXCEPT ![c] = "dropped"]
    /\ refused' = refused \cup {c}
    /\ UNCHANGED <<alive, stream, fetch>>

(* A server closes a connection, idle or in use.                            *)
ServerCloses(c) ==
    /\ conn[c] \in {"pool", "held"} /\ alive[c]
    /\ alive' = [alive EXCEPT ![c] = FALSE]
    /\ UNCHANGED <<conn, stream, fetch, refused>>

OpenStream(s) ==
    /\ stream[s].pc = "unborn"
    /\ stream' = [stream EXCEPT ![s].pc = "open"]
    /\ UNCHANGED <<conn, alive, fetch, refused>>

-----------------------------------------------------------------------------
(* NzbFileStream::poll_read, in the order of its checks.                    *)
Drain(s) ==
    /\ stream[s].pc = "open" /\ stream[s].buffered
    /\ stream' = [stream EXCEPT ![s].buffered = FALSE, ![s].sent = @ + 1]
    /\ UNCHANGED <<conn, alive, fetch, refused>>

EndOfFile(s) ==
    /\ stream[s].pc = "open" /\ ~stream[s].buffered
    /\ stream[s].index = Segments /\ fetch[s].pc = "none"
    /\ stream' = [stream EXCEPT ![s].pc = "ended"]
    /\ UNCHANGED <<conn, alive, fetch, refused>>

(* The body that came is decoded; a segment may decode to nothing, and the  *)
(* loop goes on to the next.                                                *)
SegmentFetched(s) ==
    /\ stream[s].pc = "open" /\ ~stream[s].buffered
    /\ fetch[s].pc \in {"got", "cut"}
    /\ \E some \in {TRUE} \cup {fetch[s].pc = "got"} :
           stream' = [stream EXCEPT ![s].index = @ + 1, ![s].buffered = some]
    /\ fetch' = [fetch EXCEPT ![s] = Idle]
    /\ UNCHANGED <<conn, alive, refused>>

(* The error ends the body: ReaderStream does not poll the reader again.    *)
SegmentFailed(s) ==
    /\ stream[s].pc = "open" /\ ~stream[s].buffered
    /\ fetch[s].pc = "error"
    /\ stream' = [stream EXCEPT ![s].pc = "failed"]
    /\ fetch' = [fetch EXCEPT ![s] = Idle]
    /\ UNCHANGED <<conn, alive, refused>>

StartFetch(s) ==
    /\ stream[s].pc = "open" /\ ~stream[s].buffered
    /\ stream[s].index < Segments /\ fetch[s].pc = "none"
    /\ fetch' = [fetch EXCEPT ![s].pc = "waiting"]
    /\ UNCHANGED <<conn, alive, stream, refused>>

(* The client goes away: dropping a JoinHandle detaches its task.           *)
CloseStream(s) ==
    /\ stream[s].pc = "open"
    /\ stream' = [stream EXCEPT ![s].pc = "closed"]
    /\ UNCHANGED <<conn, alive, fetch, refused>>

-----------------------------------------------------------------------------
(* fetch_segment.                                                           *)
TakeClient(s, c) ==
    /\ fetch[s].pc = "waiting" /\ conn[c] = "pool"
    /\ fetch' = [fetch EXCEPT ![s] = [pc |-> "asking", client |-> c]]
    /\ conn' = [conn EXCEPT ![c] = "held"]
    /\ UNCHANGED <<alive, stream, refused>>

\* Fault: the connection of a stream that was closed is not returned.
ReturnedIfWanted(s) == IF stream[s].pc = "open" THEN "pool" ELSE "dropped"

Returned(s) == "pool"

BodyFetched(s) ==
    /\ fetch[s].pc = "asking" /\ alive[fetch[s].client]
    /\ conn' = [conn EXCEPT ![fetch[s].client] = Returned(s)]
    /\ fetch' = [fetch EXCEPT ![s] = [pc |-> "got", client |-> NoClient]]
    /\ UNCHANGED <<alive, stream, refused>>

(* The end of the connection inside a body is taken for the body's end, and *)
(* the dead connection goes back to the pool.                               *)
BodyCut(s) ==
    /\ fetch[s].pc = "asking" /\ ~alive[fetch[s].client]
    /\ conn' = [conn EXCEPT ![fetch[s].client] = Returned(s)]
    /\ fetch' = [fetch EXCEPT ![s] = [pc |-> "cut", client |-> NoClient]]
    /\ UNCHANGED <<alive, stream, refused>>

\* Fault: a connection is put back after an error while its task keeps it.
KeptByFetch(s) == fetch[s].client

HeldAfterError(s) == NoClient

(* A missing article, a line that is not UTF-8, a closed connection: the    *)
(* connection is dropped and its place in the pool stays empty.             *)
FetchFails(s) ==
    /\ fetch[s].pc = "asking"
    /\ conn' = [conn EXCEPT ![fetch[s].client] = "dropped"]
    /\ refused' = refused \cup {fetch[s].client}
    /\ fetch' = [fetch EXCEPT ![s] = [pc |-> "error", client |-> HeldAfterError(s)]]
    /\ UNCHANGED <<alive, stream>>

StreamStep(s) == Drain(s) \/ EndOfFile(s) \/ SegmentFetched(s) \/ SegmentFailed(s) \/ StartFetch(s)
FetchEnds(s)  == BodyFetched(s) \/ BodyCut(s) \/ FetchFails(s)

Next ==
    \/ \E c \in Clients : ConnectClient(c) \/ ClientRefused(c) \/ ServerCloses(c)
    \/ \E s \in Streams :
          \/ OpenStream(s) \/ Drain(s) \/ EndOfFile(s) \/ SegmentFetched(s) \/ SegmentFailed(s)
          \/ StartFetch(s) \/ CloseStream(s)
          \/ BodyFetched(s) \/ BodyCut(s) \/ FetchFails(s)
          \/ \E c \in Clients : TakeClient(s, c)

(* Tasks are polled, connections answer or fail, and a fetch that waits for *)
(* the pool is served while the pool is not empty.                          *)
Fairness ==
    /\ \A c \in Clients : WF_vars(ConnectClient(c) \/ ClientRefused(c))
    /\ \A s \in Streams : /\ WF_vars(StreamStep(s))
                          /\ WF_vars(FetchEnds(s))
                          /\ WF_vars(\E c \in Clients : TakeClient(s, c))

Spec == Init /\ [][Next]_vars /\ Fairness

-----------------------------------------------------------------------------
(* The session keeps what a pool promises: a connection that is set up is   *)
(* in the pool, with one fetch that will let it go, or lost; none is used   *)
(* by two fetches or comes back from nowhere.                               *)
Pool == INSTANCE ConnectionPool WITH
    Users <- Streams, None <- NoClient,
    idle <- {c \in Clients : conn[c] = "pool"},
    lent <- [s \in Streams |-> fetch[s].client],
    lost <- {c \in Clients : conn[c] = "dropped"}

IsConnectionPool == Pool!Spec

(* Every stream ends, fails or is closed, unless every connection of the    *)
(* session failed: a stream that was abandoned takes no connection with it. *)
(* Once every one has failed the streams wait for ever, since the session   *)
(* itself keeps the pool's channel open.                                    *)
StreamsSettle ==
    \A s \in Streams : []<>(stream[s].pc # "open" \/ refused = Clients)
=============================================================================
