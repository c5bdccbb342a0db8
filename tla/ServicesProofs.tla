---------------------------- MODULE ServicesProofs ----------------------------
(***************************************************************************)
(* Proofs about services that are checked side by side (MCServices), each  *)
(* about one of them, for any number of its connections, streams, callers, *)
(* tracks and segments; the last section is about their composition.       *)
(***************************************************************************)
EXTENDS MCServices, Integers, FiniteSetTheorems, WellFoundedInduction, TLAPS

-----------------------------------------------------------------------------
(* UsenetSession: the type invariant, and that the session implements      *)
(* ConnectionPool.  What the refinement needs of a state is Holding: a      *)
(* fetch has a connection exactly while it asks on it, the connection is    *)
(* then marked as held, and no other fetch has it.                          *)

(* How far a stream may be: a fetch runs only for a segment that exists, and *)
(* a buffered segment has been counted as fetched and not yet as sent.       *)
Progress ==
    \A s \in Streams :
        /\ fetch[s].pc # "none" => stream[s].index < Segments
        /\ stream[s].sent <= stream[s].index
        /\ stream[s].buffered => stream[s].sent < stream[s].index

Holding ==
    /\ \A s \in Streams : fetch[s].pc = "asking" <=> fetch[s].client # NoClient
    /\ \A s \in Streams : fetch[s].client # NoClient => conn[fetch[s].client] = "held"
    /\ \A s, t \in Streams :
           fetch[s].client # NoClient /\ fetch[s].client = fetch[t].client => s = t

SessionInv == TypeOK /\ Progress /\ Holding

(* The steps of the next-state relation that take or let go of a connection. *)
PoolStep ==
    \/ \E c \in Clients : ConnectClient(c) \/ ClientRefused(c)
    \/ \E s \in Streams : BodyFetched(s) \/ BodyCut(s) \/ FetchFails(s) \/ \E c \in Clients : TakeClient(s, c)

-----------------------------------------------------------------------------
(* At the start no connection is up and no stream is open.                  *)
LEMMA InitSession == ASSUME Segments \in Nat PROVE Init => SessionInv
  BY DEF Init, SessionInv, TypeOK, Progress, Holding, Idle, Places, StreamPCs, FetchPCs

(* A step of the pool: connections change places with their fetches, and the *)
(* streams do not move.                                                     *)
LEMMA PoolStepKeeps ==
  ASSUME Segments \in Nat, NoClient \notin Clients, SessionInv, PoolStep
  PROVE  SessionInv'
<1> USE DEF SessionInv, TypeOK, Progress, Holding, Places, StreamPCs, FetchPCs
<1>1. ASSUME NEW c \in Clients, ConnectClient(c) \/ ClientRefused(c) PROVE SessionInv'
  BY <1>1 DEF ConnectClient, ClientRefused
<1>2. ASSUME NEW s \in Streams, BodyFetched(s) \/ BodyCut(s) PROVE SessionInv'
  <2>1. PICK pc \in {"got", "cut"} :
          /\ fetch[s].pc = "asking"
          /\ conn' = [conn EXCEPT ![fetch[s].client] = "pool"]
          /\ fetch' = [fetch EXCEPT ![s] = [pc |-> pc, client |-> NoClient]]
          /\ UNCHANGED <<alive, stream, refused>>
    BY <1>2 DEF BodyFetched, BodyCut, Returned
  <2>2. TypeOK'  BY <2>1
  <2>3. Progress'  BY <2>1
  <2>4. Holding'  BY <2>1
  <2> QED  BY <2>2, <2>3, <2>4
<1>3. ASSUME NEW s \in Streams, FetchFails(s) PROVE SessionInv'
  BY <1>3 DEF FetchFails, HeldAfterError
<1>4. ASSUME NEW s \in Streams, NEW c \in Clients, TakeClient(s, c) PROVE SessionInv'
  BY <1>4 DEF TakeClient
<1> QED  BY <1>1, <1>2, <1>3, <1>4 DEF PoolStep

(* A step of a stream: no connection changes its place or its fetch.        *)
LEMMA StreamStepKeeps ==
  ASSUME Segments \in Nat, SessionInv, NEW s \in Streams,
         OpenStream(s) \/ StreamStep(s) \/ CloseStream(s)
  PROVE  SessionInv'
<1> USE DEF SessionInv, TypeOK, Progress, Holding, Places, StreamPCs, FetchPCs
<1>1. CASE OpenStream(s) \/ CloseStream(s)
  <2>1. PICK pc \in {"open", "closed"} : /\ stream' = [stream EXCEPT ![s].pc = pc]
                                         /\ UNCHANGED <<conn, alive, fetch, refused>>
    BY <1>1 DEF OpenStream, CloseStream
  <2>2. TypeOK'  BY <2>1
  <2>3. Progress'  BY <2>1
  <2>4. Holding'  BY <2>1
  <2> QED  BY <2>2, <2>3, <2>4
<1>2. CASE Drain(s)
  <2>1. stream[s].sent + 1 \in 0..Segments /\ stream[s].sent + 1 <= stream[s].index
    BY <1>2 DEF Drain
  <2>2. TypeOK'  BY <1>2, <2>1 DEF Drain
  <2>3. Progress'  BY <1>2, <2>1 DEF Drain
  <2>4. Holding'  BY <1>2 DEF Drain
  <2> QED  BY <2>2, <2>3, <2>4
<1>3. CASE EndOfFile(s)
  BY <1>3 DEF EndOfFile
<1>4. CASE SegmentFetched(s)
  <2>1. PICK some \in BOOLEAN :
          stream' = [stream EXCEPT ![s].index = @ + 1, ![s].buffered = some]
    BY <1>4 DEF SegmentFetched
  <2>2. fetch' = [fetch EXCEPT ![s] = Idle] /\ UNCHANGED <<conn, alive, refused>>
    BY <1>4 DEF SegmentFetched
  <2>3. stream[s].index + 1 \in 0..Segments /\ fetch[s].client = NoClient
    BY <1>4 DEF SegmentFetched
  <2>4. TypeOK'
    <3> DEFINE new == [stream[s] EXCEPT !.index = @ + 1, !.buffered = some]
    <3>1. stream[s] \in [pc : StreamPCs, index : 0..Segments, buffered : BOOLEAN, sent : 0..Segments]
      OBVIOUS
    <3>2. new \in [pc : StreamPCs, index : 0..Segments, buffered : BOOLEAN, sent : 0..Segments]
      BY <2>3, <3>1
    <3>3. stream' = [stream EXCEPT ![s] = new]
      BY <2>1
    <3> HIDE DEF new
    <3> QED  BY <2>2, <3>2, <3>3 DEF Idle
  <2>5. Progress'
    <3> SUFFICES ASSUME NEW t \in Streams
                 PROVE  /\ fetch'[t].pc # "none" => stream'[t].index < Segments
                        /\ stream'[t].sent <= stream'[t].index
                        /\ stream'[t].buffered => stream'[t].sent < stream'[t].index
      OBVIOUS
    <3>1. CASE t = s  BY <2>1, <2>2, <2>3, <3>1 DEF Idle
    <3>2. CASE t # s  BY <2>1, <2>2, <3>2
    <3> QED  BY <3>1, <3>2
  <2>6. Holding'  BY <2>2, <2>3 DEF Idle
  <2> QED  BY <2>4, <2>5, <2>6
<1>5. CASE SegmentFailed(s)
  BY <1>5 DEF SegmentFailed, Idle
<1>6. CASE StartFetch(s)
  BY <1>6 DEF StartFetch
<1> QED  BY <1>1, <1>2, <1>3, <1>4, <1>5, <1>6 DEF StreamStep

(* Every step of the session is one of the pool, of a stream, or the close   *)
(* of a connection by its server.                                            *)
LEMMA NextKeeps ==
  ASSUME Segments \in Nat, NoClient \notin Clients, SessionInv, [Next]_vars
  PROVE  SessionInv'
<1>1. CASE PoolStep
  BY <1>1, PoolStepKeeps
<1>2. ASSUME NEW s \in Streams, OpenStream(s) \/ StreamStep(s) \/ CloseStream(s) PROVE SessionInv'
  BY <1>2, StreamStepKeeps
<1>3. ASSUME NEW c \in Clients, ServerCloses(c) PROVE SessionInv'
  BY <1>3 DEF ServerCloses, SessionInv, TypeOK, Progress, Holding
<1>4. CASE UNCHANGED vars
  BY <1>4 DEF vars, SessionInv, TypeOK, Progress, Holding
<1> QED  BY <1>1, <1>2, <1>3, <1>4 DEF Next, PoolStep, StreamStep

(* The inductive invariant holds in every state a session reaches.          *)
THEOREM SessionInvariant ==
  ASSUME Segments \in Nat, NoClient \notin Clients PROVE Spec => []SessionInv
<1>1. Init => SessionInv  BY InitSession
<1>2. SessionInv /\ [Next]_vars => SessionInv'  BY NextKeeps
<1> QED  BY <1>1, <1>2, PTL DEF Spec

(* NzbSession and NzbFileStream keep their types: in particular no stream    *)
(* counts more segments as sent than its file has.                          *)
THEOREM SessionTypeCorrect ==
  ASSUME Segments \in Nat, NoClient \notin Clients PROVE Spec => []TypeOK
<1>1. SessionInv => TypeOK  BY DEF SessionInv
<1> QED  BY <1>1, SessionInvariant, PTL

-----------------------------------------------------------------------------
(* A session begins as an empty pool.                                        *)
LEMMA RefinesInit == Init => Pool!Init
  BY DEF Init, Pool!Init, Idle

(* Setting a connection up, or finding its server refuse it, joins or loses  *)
(* a connection the pool has not seen: no fetch has an untried one.          *)
LEMMA RefinesConnect ==
  ASSUME NoClient \notin Clients, SessionInv, NEW c \in Clients,
         ConnectClient(c) \/ ClientRefused(c)
  PROVE  Pool!Next
<1>1. c \notin Pool!Lent
  BY DEF SessionInv, Holding, Pool!Lent, ConnectClient, ClientRefused
<1>2. CASE ConnectClient(c)
  <2>1. Pool!Join(c)
    BY <1>1, <1>2 DEF ConnectClient, Pool!Join, SessionInv, TypeOK
  <2> QED  BY <2>1 DEF Pool!Next
<1>3. CASE ClientRefused(c)
  <2>1. Pool!Refuse(c)
    BY <1>1, <1>3 DEF ClientRefused, Pool!Refuse, SessionInv, TypeOK
  <2> QED  BY <2>1 DEF Pool!Next
<1> QED  BY <1>2, <1>3

(* A fetch is lent an idle connection: a waiting one has none yet.           *)
LEMMA RefinesLend ==
  ASSUME NoClient \notin Clients, SessionInv, NEW s \in Streams, NEW c \in Clients, TakeClient(s, c)
  PROVE  Pool!Next
<1>1. Pool!Lend(s, c)
  BY DEF TakeClient, Pool!Lend, SessionInv, TypeOK, Holding
<1> QED  BY <1>1 DEF Pool!Next

(* A fetch that ends gives its connection back after a body, complete or     *)
(* cut, and loses it with any error.                                         *)
LEMMA RefinesReturn ==
  ASSUME NoClient \notin Clients, SessionInv, NEW s \in Streams, FetchEnds(s)
  PROVE  Pool!Next
<1>1. /\ fetch[s].client \in Clients /\ fetch[s].client # NoClient
      /\ conn[fetch[s].client] = "held"
  BY DEF FetchEnds, BodyFetched, BodyCut, FetchFails, SessionInv, TypeOK, Holding
<1>2. CASE BodyFetched(s) \/ BodyCut(s)
  <2>1. PICK pc \in {"got", "cut"} :
          /\ conn' = [conn EXCEPT ![fetch[s].client] = "pool"]
          /\ fetch' = [fetch EXCEPT ![s] = [pc |-> pc, client |-> NoClient]]
    BY <1>2 DEF BodyFetched, BodyCut, Returned
  <2>2. Pool!GiveBack(s)
    BY <1>1, <2>1 DEF Pool!GiveBack, SessionInv, TypeOK
  <2> QED  BY <2>2 DEF Pool!Next
<1>3. CASE FetchFails(s)
  <2>1. Pool!Lose(s)
    BY <1>1, <1>3 DEF FetchFails, HeldAfterError, Pool!Lose, SessionInv, TypeOK
  <2> QED  BY <2>1 DEF Pool!Next
<1> QED  BY <1>2, <1>3 DEF FetchEnds

(* The other steps are none of the pool's: a stream that polls, fails or is  *)
(* closed leaves every connection where it is, in the pool or with the fetch *)
(* that outlives the stream.                                                 *)
LEMMA RefinesStutter ==
  ASSUME SessionInv, NEW s \in Streams, OpenStream(s) \/ StreamStep(s) \/ CloseStream(s)
  PROVE  UNCHANGED Pool!vars
<1>1. UNCHANGED conn
  BY DEF OpenStream, StreamStep, CloseStream, Drain, EndOfFile, SegmentFetched, SegmentFailed,
         StartFetch
<1>2. \A t \in Streams : fetch'[t].client = fetch[t].client
  BY DEF OpenStream, StreamStep, CloseStream, Drain, EndOfFile, SegmentFetched, SegmentFailed,
         StartFetch, Idle, SessionInv, TypeOK, Holding
<1> QED  BY <1>1, <1>2 DEF Pool!vars

LEMMA RefinesNext ==
  ASSUME NoClient \notin Clients, SessionInv, [Next]_vars
  PROVE  [Pool!Next]_(Pool!vars)
<1>1. ASSUME NEW c \in Clients, ServerCloses(c) PROVE UNCHANGED Pool!vars
  BY <1>1 DEF ServerCloses, Pool!vars
<1>2. CASE UNCHANGED vars
  BY <1>2 DEF vars, Pool!vars
<1> QED  BY <1>1, <1>2, RefinesConnect, RefinesLend, RefinesReturn, RefinesStutter
         DEF Next, StreamStep, FetchEnds

(* NzbSession is a connection pool: a connection that is set up is idle,     *)
(* lent to one fetch, or lost for good, whatever streams come and go.        *)
THEOREM SessionIsConnectionPool ==
  ASSUME Segments \in Nat, NoClient \notin Clients PROVE Spec => IsConnectionPool
<1>1. Init => Pool!Init  BY RefinesInit
<1>2. SessionInv /\ [Next]_vars => [Pool!Next]_(Pool!vars)  BY RefinesNext
<1> QED  BY <1>1, <1>2, SessionInvariant, PTL DEF Spec, IsConnectionPool, Pool!Spec

-----------------------------------------------------------------------------
(* SingleFlight: a file is probed by one caller at a time.  The entry of a  *)
(* computation may be removed late, when another one is in its place, and a *)
(* new computation may reuse a caller's name; FlightInv says that a cell    *)
(* without a value is the one in the map as long as somebody has it, so     *)
(* that all who probe share the one cell.                                   *)
Known == {"ready", "partial", "error"}

(* What a caller's place says about its cell.                               *)
CellState ==
    \A c \in Callers :
        /\ caller[c].pc \in {"waiting", "running", "told", "removed"} => Flight!Cell(c) # Nothing
        /\ Flight!At(c, "waiting") => value[Flight!Cell(c)] \in Known \/ inflight = Flight!Cell(c)
        /\ Flight!At(c, "running") => value[Flight!Cell(c)] = "running" /\ inflight = Flight!Cell(c)
        /\ caller[c].pc \in {"told", "removed"} => value[Flight!Cell(c)] \in Known

(* A caller that is about to insert its cell finds it unused.               *)
FreshCell ==
    \A c \in Callers :
        caller[c].pc \in {"idle", "looked"} => inflight # c /\ \A d \in Callers : Flight!Cell(d) # c

FlightInv == Flight!TypeOK /\ CellState /\ FreshCell /\ Flight!OneProbeAtATime

-----------------------------------------------------------------------------
LEMMA InitFlight == Flight!Init => FlightInv
<1> SUFFICES ASSUME Flight!Init PROVE FlightInv
  OBVIOUS
<1>1. Flight!TypeOK  BY DEF Flight!Init, Flight!TypeOK, Flight!Cells, Flight!Values, Flight!PCs
<1>2. \A c \in Callers : caller[c].pc = "idle" /\ Flight!Cell(c) = Nothing
  BY DEF Flight!Init, Flight!Cell
<1>3. CellState /\ Flight!OneProbeAtATime  BY <1>2 DEF CellState, Flight!OneProbeAtATime, Flight!At
<1>4. FreshCell  BY <1>2, ServicesAssumption DEF Flight!Init, FreshCell
<1> QED  BY <1>1, <1>3, <1>4 DEF FlightInv

(* Before a caller has a cell.                                              *)
LEMMA EntryKeeps ==
  ASSUME FlightInv, NEW c \in Callers,
         Flight!CacheHit(c) \/ Flight!CacheMiss(c) \/ Flight!Join(c)
  PROVE  FlightInv'
<1> USE ServicesAssumption
        DEF FlightInv, Flight!TypeOK, Flight!Cells, Flight!Values, Flight!PCs, CellState, FreshCell,
            Flight!OneProbeAtATime, Flight!At, Flight!Cell, Known
<1>1. CASE Flight!CacheHit(c)   BY <1>1 DEF Flight!CacheHit, Flight!Goto
<1>2. CASE Flight!CacheMiss(c)  BY <1>2 DEF Flight!CacheMiss, Flight!Goto
<1>3. CASE Flight!Join(c)
  <2>1. inflight' # Nothing /\ inflight' \in Callers
    BY <1>3 DEF Flight!Join
  <2>2. caller' = [caller EXCEPT ![c] = [pc |-> "waiting", cell |-> inflight']]
    BY <1>3 DEF Flight!Join
  <2>3. UNCHANGED <<probeCache, value>> /\ inflight' \in {inflight, c}
    BY <1>3 DEF Flight!Join
  <2>4. inflight # Nothing => inflight' = inflight
    BY <1>3 DEF Flight!Join
  <2>5. Flight!At(c, "looked")
    BY <1>3 DEF Flight!Join
  <2>6. Flight!TypeOK'  BY <2>1, <2>2, <2>3
  <2>7. CellState'  BY <2>1, <2>2, <2>3, <2>4
  <2>8. FreshCell'  BY <2>2, <2>3, <2>5
  <2>9. Flight!OneProbeAtATime'  BY <2>2
  <2> QED  BY <2>6, <2>7, <2>8, <2>9
<1> QED  BY <1>1, <1>2, <1>3

(* A computation starts in an empty cell, and ends with a value.            *)
LEMMA RunKeeps ==
  ASSUME FlightInv, NEW c \in Callers,
         Flight!StartRun(c) \/ Flight!RunEnds(c) \/ Flight!ValueTold(c)
  PROVE  FlightInv'
<1> USE ServicesAssumption
        DEF FlightInv, Flight!TypeOK, Flight!Cells, Flight!Values, Flight!PCs, CellState, FreshCell,
            Flight!OneProbeAtATime, Flight!At, Flight!Cell, Known
<1>1. CASE Flight!StartRun(c)   BY <1>1 DEF Flight!StartRun, Flight!Goto
<1>2. CASE Flight!RunEnds(c)    BY <1>2 DEF Flight!RunEnds, Flight!Goto
<1>3. CASE Flight!ValueTold(c)  BY <1>3 DEF Flight!ValueTold, Flight!Goto
<1> QED  BY <1>1, <1>2, <1>3

(* The entry is removed, a caller leaves, and its name is used again.       *)
LEMMA LeaveKeeps ==
  ASSUME FlightInv, NEW c \in Callers,
         Flight!RemoveEntry(c) \/ Flight!StoreResult(c) \/ Flight!DropCaller(c) \/ Flight!AskAgain(c)
  PROVE  FlightInv'
<1> USE ServicesAssumption
        DEF FlightInv, Flight!TypeOK, Flight!Cells, Flight!Values, Flight!PCs, CellState, FreshCell,
            Flight!OneProbeAtATime, Flight!At, Flight!Cell, Known
<1>1. CASE Flight!RemoveEntry(c)  BY <1>1 DEF Flight!RemoveEntry, Flight!OwnEntry, Flight!Goto, Flight!Leave
<1>2. CASE Flight!StoreResult(c)  BY <1>2 DEF Flight!StoreResult, Flight!Leave
<1>3. CASE Flight!DropCaller(c)   BY <1>3 DEF Flight!DropCaller, Flight!AfterDrop, Flight!Leave
<1>4. CASE Flight!AskAgain(c)     BY <1>4 DEF Flight!AskAgain, Flight!Goto
<1> QED  BY <1>1, <1>2, <1>3, <1>4

LEMMA FlightKeeps == ASSUME FlightInv, [Flight!Next]_(Flight!vars) PROVE FlightInv'
<1>1. CASE UNCHANGED Flight!vars
  BY <1>1 DEF Flight!vars, FlightInv, Flight!TypeOK, CellState, FreshCell, Flight!OneProbeAtATime,
     Flight!At, Flight!Cell
<1> QED  BY <1>1, EntryKeeps, RunKeeps, LeaveKeeps DEF Flight!Next

-----------------------------------------------------------------------------
(* HlsSession: what a player has been given reaches to the segment it asks  *)
(* for next, and an encoder runs only for the segment that is being made.   *)
Count == Hls!SegmentCount(duration)   \* segments of the file

PlayedTo(k) ==
    LET p == player[k] IN
    /\ p.pc \in {"new", "master", "reload"} => p.index = 0 /\ p.time = 0
    /\ p.pc = "listed" =>
          /\ p.index <= Count
          /\ p.time = IF p.index = Count THEN duration ELSE p.index * SegmentLength
    /\ p.pc = "ended" => p.time = duration

Encoding(k) ==
    /\ encode[k].pc # "none" => player[k].pc = "listed" /\ player[k].index < Count
    /\ encode[k].running = IF encode[k].pc \in {"started", "crashed", "sending"} THEN 1 ELSE 0

HlsInv == Hls!TypeOK /\ \A k \in Tracks : PlayedTo(k) /\ Encoding(k)

(* get_segments: as many segments as it takes to cover the file, and the    *)
(* last one is not empty.                                                   *)
LEMMA SegmentsCover ==
  ASSUME NEW d \in Nat, d > 0
  PROVE  /\ Hls!SegmentCount(d) \in Nat /\ Hls!SegmentCount(d) >= 1 /\ Hls!SegmentCount(d) <= d
         /\ Hls!SegmentCount(d) * SegmentLength >= d
         /\ \A i \in Nat : i < Hls!SegmentCount(d) => i * SegmentLength < d
<1> DEFINE n == Hls!SegmentCount(d)
<1>1. n \in Int /\ n * SegmentLength >= d /\ (n - 1) * SegmentLength < d
  BY ServicesAssumption DEF Hls!SegmentCount
<1> HIDE DEF n
<1>2. n >= 1 /\ n <= d
  BY <1>1, ServicesAssumption
<1>3. ASSUME NEW i \in Nat, i < n PROVE i * SegmentLength < d
  <2>1. i <= n - 1 /\ n - 1 \in Nat  BY <1>1, <1>2, <1>3
  <2>2. i * SegmentLength <= (n - 1) * SegmentLength  BY <2>1, ServicesAssumption
  <2> QED  BY <1>1, <2>1, <2>2, ServicesAssumption
<1> QED  BY <1>1, <1>2, <1>3 DEF n

(* The segment that a player takes ends where the next one starts, and the  *)
(* last one where the file does.                                            *)
LEMMA AppendedReaches ==
  ASSUME NEW k \in Tracks, HlsInv, player[k].pc = "listed", player[k].index < Count
  PROVE  Hls!Appended(k) = IF player[k].index + 1 = Count THEN duration
                           ELSE (player[k].index + 1) * SegmentLength
<1> DEFINE i == player[k].index
           d == duration
<1>1. i \in Nat /\ d \in Nat /\ d > 0 /\ player[k].time = i * SegmentLength
  BY ServicesAssumption DEF HlsInv, Hls!TypeOK, PlayedTo
<1>2. /\ Count \in Nat /\ i < Count /\ Count * SegmentLength >= d
      /\ i + 1 < Count => (i + 1) * SegmentLength < d
  BY <1>1, SegmentsCover DEF Count
<1>3. Hls!SegmentsOf(d)[i] =
        [start |-> i * SegmentLength,
         dur   |-> IF (i + 1) * SegmentLength > d THEN d - i * SegmentLength ELSE SegmentLength]
  <2>1. i \in 0..Hls!SegmentCount(d) - 1  BY <1>1, <1>2 DEF Count
  <2> QED  BY <2>1 DEF Hls!SegmentsOf
<1>4. Hls!Appended(k) = i * SegmentLength +
        (IF (i + 1) * SegmentLength > d THEN d - i * SegmentLength ELSE SegmentLength)
  BY <1>1, <1>3 DEF Hls!Appended
<1>5. (i + 1) * SegmentLength = i * SegmentLength + SegmentLength /\ i * SegmentLength \in Nat
      /\ SegmentLength \in Nat
  BY <1>1, ServicesAssumption
<1>6. Hls!Appended(k) = IF (i + 1) * SegmentLength > d THEN d ELSE (i + 1) * SegmentLength
  BY <1>1, <1>4, <1>5
<1> QED  BY <1>1, <1>2, <1>5, <1>6

LEMMA InitHls == Hls!Init => HlsInv
<1> SUFFICES ASSUME Hls!Init PROVE HlsInv  OBVIOUS
<1>1. Hls!TypeOK
  BY ServicesAssumption DEF Hls!Init, Hls!TypeOK, Hls!Idle, Hls!PlayerPCs, Hls!EncodePCs, Hls!Probes
<1>2. \A k \in Tracks : PlayedTo(k) /\ Encoding(k)
  BY DEF Hls!Init, Hls!Idle, PlayedTo, Encoding
<1> QED  BY <1>1, <1>2 DEF HlsInv

(* An encoding that is moved on has its new state and its new processes.    *)
LEMMA EncodingMoves ==
  ASSUME NEW f \in [pc : Hls!EncodePCs, hw : BOOLEAN, running : 0..2],
         NEW pc \in Hls!EncodePCs, NEW n \in 0..2
  PROVE  LET g == [f EXCEPT !.running = n, !.pc = pc]
         IN g \in [pc : Hls!EncodePCs, hw : BOOLEAN, running : 0..2] /\ g.pc = pc /\ g.running = n
OBVIOUS

LEMMA HlsStepKeeps ==
  ASSUME HlsInv, NEW k \in Tracks,
         \/ Hls!GetMaster(k) \/ Hls!GetPlaylist(k) \/ Hls!Ask(k) \/ Hls!EndOfPlaylist(k)
         \/ Hls!FindSegment(k) \/ Hls!SpawnEncoder(k) \/ Hls!SpawnFails(k) \/ Hls!StartupWatched(k)
         \/ Hls!StartupCrashed(k) \/ Hls!Respawn(k) \/ Hls!RespawnFails(k) \/ Hls!EncoderExits(k)
         \/ Hls!TakeSegment(k) \/ Hls!SegmentFails(k) \/ Hls!ClosePlayer(k) \/ \E i \in 0..MaxDuration : Hls!Jump(k, i)
  PROVE  HlsInv'
<1>1. /\ duration \in 1..MaxDuration /\ duration \in Nat /\ duration > 0
      /\ probe \in {"none", "ready"} /\ MaxDuration \in Nat
      /\ player \in [Tracks -> [pc : Hls!PlayerPCs, index : 0..MaxDuration, time : 0..MaxDuration]]
      /\ encode \in [Tracks -> [pc : Hls!EncodePCs, hw : BOOLEAN, running : 0..2]]
      /\ hardware \in BOOLEAN
      /\ PlayedTo(k) /\ Encoding(k)
  BY ServicesAssumption DEF HlsInv, Hls!TypeOK, Hls!Probes
<1>2. /\ Count \in Nat /\ Count >= 1 /\ Count <= duration
      /\ \A i \in Nat : i < Count => i * SegmentLength < duration
  BY <1>1, SegmentsCover DEF Count
<1>3. ASSUME NEW p \in [pc : Hls!PlayerPCs, index : 0..MaxDuration, time : 0..MaxDuration],
             NEW e \in [pc : Hls!EncodePCs, hw : BOOLEAN, running : 0..2],
             player' = [player EXCEPT ![k] = p], encode' = [encode EXCEPT ![k] = e],
             UNCHANGED <<duration, hardware>>, probe' \in {"none", "ready"},
             PlayedTo(k)', Encoding(k)'
      PROVE  HlsInv'
  <2>1. Hls!TypeOK'  BY <1>1, <1>3 DEF Hls!TypeOK, Hls!Probes
  <2>2. ASSUME NEW j \in Tracks, j # k PROVE PlayedTo(j)' /\ Encoding(j)'
    <3>1. player'[j] = player[j] /\ encode'[j] = encode[j] /\ duration' = duration
      BY <1>1, <1>3, <2>2
    <3>2. PlayedTo(j) /\ Encoding(j)  BY DEF HlsInv
    <3> QED  BY <3>1, <3>2 DEF PlayedTo, Encoding, Count, Hls!SegmentCount
  <2> QED  BY <1>3, <2>1, <2>2 DEF HlsInv
<1> DEFINE p == player[k]
           e == encode[k]
<1>4. /\ p \in [pc : Hls!PlayerPCs, index : 0..MaxDuration, time : 0..MaxDuration]
      /\ e \in [pc : Hls!EncodePCs, hw : BOOLEAN, running : 0..2]
      /\ p.index \in Nat /\ p.time \in Nat
  BY <1>1
(* The player moves within its playlist, or leaves it.                      *)
<1>5. ASSUME NEW pc \in {"failed", "master", "reload", "listed", "ended", "closed"},
             player' = [player EXCEPT ![k].pc = pc],
             (encode' = encode /\ e.pc = "none") \/ encode' = [encode EXCEPT ![k] = Hls!Idle],
             UNCHANGED <<duration, hardware>>, probe' \in {"none", "ready"},
             pc \in {"master", "reload", "listed"} => p.pc \in {"new", "master", "reload"},
             pc = "ended" => p.pc = "listed" /\ p.index = Count
      PROVE  HlsInv'
  <2> DEFINE q == [p EXCEPT !.pc = pc]
             f == IF encode' = encode THEN e ELSE Hls!Idle
  <2>1. /\ q \in [pc : Hls!PlayerPCs, index : 0..MaxDuration, time : 0..MaxDuration]
        /\ q.pc = pc /\ q.index = p.index /\ q.time = p.time
    BY <1>4, <1>5 DEF Hls!PlayerPCs
  <2>2. f \in [pc : Hls!EncodePCs, hw : BOOLEAN, running : 0..2] /\ f.pc = "none" /\ f.running = 0
    BY <1>1, <1>4, <1>5 DEF Hls!Idle, Hls!EncodePCs, Encoding
  <2>3. player' = [player EXCEPT ![k] = q] /\ encode' = [encode EXCEPT ![k] = f]
    BY <1>1, <1>5
  <2> HIDE DEF q, f
  <2>4. player'[k] = q /\ encode'[k] = f  BY <1>1, <2>3
  <2>5. Count' = Count  BY <1>5 DEF Count, Hls!SegmentCount
  <2>6. PlayedTo(k)'
    <3>1. p.pc \in {"new", "master", "reload"} =>
            q.index = 0 /\ q.time = 0 /\ 0 * SegmentLength = 0 /\ 0 # Count
      BY <1>1, <1>2, <2>1, ServicesAssumption DEF PlayedTo
    <3>2. p.pc = "listed" /\ p.index = Count => q.time = duration
      BY <1>1, <2>1 DEF PlayedTo
    <3>3. pc = "listed" => q.index <= Count /\ q.time = IF q.index = Count THEN duration
                                                      ELSE q.index * SegmentLength
      BY <1>2, <1>5, <3>1
    <3> QED  BY <1>5, <2>1, <2>4, <2>5, <3>1, <3>2, <3>3 DEF PlayedTo
  <2>7. Encoding(k)'
    BY <2>2, <2>4 DEF Encoding
  <2> QED  BY <1>3, <1>5, <2>1, <2>2, <2>3, <2>6, <2>7
(* The segment that is asked for is made.                                   *)
<1>6. ASSUME NEW f \in [pc : Hls!EncodePCs, hw : BOOLEAN, running : 0..2],
             encode' = [encode EXCEPT ![k] = f],
             UNCHANGED <<player, duration, hardware>>, probe' \in {"none", "ready"},
             p.pc = "listed" /\ p.index < Count,
             f.running = IF f.pc \in {"started", "crashed", "sending"} THEN 1 ELSE 0
      PROVE  HlsInv'
  <2>1. player' = [player EXCEPT ![k] = p]  BY <1>1, <1>6
  <2>2. player'[k] = p /\ encode'[k] = f  BY <1>1, <1>6
  <2>3. Count' = Count  BY <1>6 DEF Count, Hls!SegmentCount
  <2>4. PlayedTo(k)'  BY <1>1, <1>6, <2>2, <2>3 DEF PlayedTo
  <2>5. Encoding(k)'  BY <1>6, <2>2, <2>3 DEF Encoding
  <2> QED  BY <1>3, <1>4, <1>6, <2>1, <2>4, <2>5
(* The player takes a segment, or jumps to one.                             *)
<1>7. ASSUME NEW i \in 0..MaxDuration, NEW t \in 0..MaxDuration,
             player' = [player EXCEPT ![k].index = i, ![k].time = t],
             encode' = [encode EXCEPT ![k] = Hls!Idle],
             UNCHANGED <<duration, hardware, probe>>,
             p.pc = "listed", i <= Count, t = IF i = Count THEN duration ELSE i * SegmentLength
      PROVE  HlsInv'
  <2> DEFINE q == [p EXCEPT !.index = i, !.time = t]
  <2>1. /\ q \in [pc : Hls!PlayerPCs, index : 0..MaxDuration, time : 0..MaxDuration]
        /\ q.pc = "listed" /\ q.index = i /\ q.time = t
    BY <1>4, <1>7
  <2>2. Hls!Idle \in [pc : Hls!EncodePCs, hw : BOOLEAN, running : 0..2]
        /\ Hls!Idle.pc = "none" /\ Hls!Idle.running = 0
    BY DEF Hls!Idle, Hls!EncodePCs
  <2>3. player' = [player EXCEPT ![k] = q]  BY <1>1, <1>7
  <2> HIDE DEF q
  <2>4. player'[k] = q /\ encode'[k] = Hls!Idle  BY <1>1, <1>7, <2>3
  <2>5. Count' = Count  BY <1>7 DEF Count, Hls!SegmentCount
  <2>6. PlayedTo(k)'  BY <1>7, <2>1, <2>4, <2>5 DEF PlayedTo
  <2>7. Encoding(k)'  BY <2>2, <2>4 DEF Encoding
  <2> QED  BY <1>1, <1>3, <1>7, <2>1, <2>2, <2>3, <2>6, <2>7
<1>8. \A outcome \in Hls!Outcomes : Hls!Kept(outcome) => probe' \in {"none", "ready"}
  BY <1>1 DEF Hls!Kept
<1>9. CASE Hls!GetMaster(k) \/ Hls!GetPlaylist(k)
  <2>1. PICK outcome \in Hls!Outcomes, pc \in {"failed", "master", "reload", "listed"} :
            /\ Hls!Kept(outcome) /\ player' = [player EXCEPT ![k].pc = pc]
            /\ p.pc \in {"new", "master", "reload"}
            /\ UNCHANGED <<duration, hardware, encode>>
    BY <1>9 DEF Hls!GetMaster, Hls!GetPlaylist, Hls!Goto, Hls!WhenEmpty
  <2> QED  BY <1>1, <1>5, <1>8, <2>1 DEF Encoding
<1>10. CASE Hls!EndOfPlaylist(k)
  BY <1>1, <1>5, <1>10 DEF Hls!EndOfPlaylist, Hls!Goto, Encoding, Count
<1>11. CASE Hls!SegmentFails(k) \/ Hls!ClosePlayer(k)
  BY <1>1, <1>5, <1>11 DEF Hls!SegmentFails, Hls!ClosePlayer, Hls!Goto
<1>12. CASE Hls!Ask(k)
  <2> DEFINE f == [e EXCEPT !.pc = "asked", !.hw = (hardware /\ k = "video")]
  <2>1. f \in [pc : Hls!EncodePCs, hw : BOOLEAN, running : 0..2] /\ f.pc = "asked" /\ f.running = 0
    BY <1>1, <1>4, <1>12 DEF Hls!Ask, Hls!EncodePCs, Encoding
  <2>2. encode' = [encode EXCEPT ![k] = f]  BY <1>1, <1>12 DEF Hls!Ask
  <2> HIDE DEF f
  <2> QED  BY <1>1, <1>6, <1>12, <2>1, <2>2 DEF Hls!Ask, Hls!Listed, Count
<1>13. CASE Hls!FindSegment(k)
  <2>1. PICK outcome \in Hls!Outcomes, pc \in {"probed", "error"} :
            /\ Hls!Kept(outcome) /\ encode' = [encode EXCEPT ![k].pc = pc]
            /\ e.pc = "asked" /\ UNCHANGED <<duration, hardware, player>>
    BY <1>13 DEF Hls!FindSegment, Hls!Refuse
  <2> DEFINE f == [e EXCEPT !.pc = pc]
  <2>2. f \in [pc : Hls!EncodePCs, hw : BOOLEAN, running : 0..2] /\ f.pc = pc /\ f.running = 0
    BY <1>1, <1>4, <2>1 DEF Hls!EncodePCs, Encoding
  <2>3. encode' = [encode EXCEPT ![k] = f]  BY <1>1, <2>1
  <2> HIDE DEF f
  <2> QED  BY <1>1, <1>6, <1>8, <2>1, <2>2, <2>3 DEF Encoding
<1>14. CASE Hls!SpawnEncoder(k)
  <2> DEFINE f == [e EXCEPT !.running = @ + 1, !.pc = IF e.hw THEN "started" ELSE "sending"]
  <2>1. e.running = 0 /\ e.pc = "probed"  BY <1>1, <1>14 DEF Hls!SpawnEncoder, Encoding
  <2>2. /\ f \in [pc : Hls!EncodePCs, hw : BOOLEAN, running : 0..2]
        /\ f.pc \in {"started", "sending"} /\ f.running = 1
    <3> DEFINE pc == IF e.hw THEN "started" ELSE "sending"
    <3>1. pc \in Hls!EncodePCs /\ pc \in {"started", "sending"} /\ 1 \in 0..2  BY DEF Hls!EncodePCs
    <3>2. f = [e EXCEPT !.running = 1, !.pc = pc]  BY <2>1
    <3> HIDE DEF e, f, pc
    <3> QED  BY <1>4, <3>1, <3>2, EncodingMoves, Zenon
  <2>3. encode' = [encode EXCEPT ![k] = f]  BY <1>1, <1>14 DEF Hls!SpawnEncoder
  <2> HIDE DEF f
  <2> QED  BY <1>1, <1>6, <1>14, <2>1, <2>2, <2>3 DEF Hls!SpawnEncoder, Encoding
<1>15. CASE Hls!SpawnFails(k)
  <2> DEFINE f == IF e.hw THEN [e EXCEPT !.hw = FALSE] ELSE [e EXCEPT !.pc = "error"]
  <2>1. e.running = 0 /\ e.pc = "probed"  BY <1>1, <1>15 DEF Hls!SpawnFails, Encoding
  <2>2. /\ f \in [pc : Hls!EncodePCs, hw : BOOLEAN, running : 0..2]
        /\ f.pc \in {"probed", "error"} /\ f.running = 0
    BY <1>4, <2>1 DEF Hls!EncodePCs
  <2>3. encode' = [encode EXCEPT ![k] = f]  BY <1>1, <1>15 DEF Hls!SpawnFails, Hls!Refuse
  <2> HIDE DEF f
  <2> QED  BY <1>1, <1>6, <1>15, <2>1, <2>2, <2>3 DEF Hls!SpawnFails, Encoding
<1>16. CASE Hls!StartupWatched(k) \/ Hls!StartupCrashed(k)
  <2> DEFINE f == IF encode'[k].pc = "sending" THEN [e EXCEPT !.pc = "sending"]
                  ELSE [e EXCEPT !.pc = "crashed", !.hw = FALSE]
  <2>1. e.running = 1 /\ e.pc = "started"
    BY <1>1, <1>16 DEF Hls!StartupWatched, Hls!StartupCrashed, Encoding
  <2>2. /\ f \in [pc : Hls!EncodePCs, hw : BOOLEAN, running : 0..2]
        /\ f.pc \in {"sending", "crashed"} /\ f.running = 1
    BY <1>4, <2>1 DEF Hls!EncodePCs
  <2>3. encode' = [encode EXCEPT ![k] = f]
    BY <1>1, <1>16 DEF Hls!StartupWatched, Hls!StartupCrashed
  <2> HIDE DEF f
  <2> QED  BY <1>1, <1>6, <1>16, <2>1, <2>2, <2>3 DEF Hls!StartupWatched, Hls!StartupCrashed, Encoding
<1>17. CASE Hls!Respawn(k)
  <2> DEFINE f == [e EXCEPT !.running = 1, !.pc = "sending"]
  <2>1. e.running = 1 /\ e.pc = "crashed"  BY <1>1, <1>17 DEF Hls!Respawn, Encoding
  <2>2. f \in [pc : Hls!EncodePCs, hw : BOOLEAN, running : 0..2] /\ f.pc = "sending" /\ f.running = 1
    <3>1. "sending" \in Hls!EncodePCs /\ 1 \in 0..2  BY DEF Hls!EncodePCs
    <3> HIDE DEF e
    <3> QED  BY <1>4, <3>1, EncodingMoves, Zenon
  <2>3. encode' = [encode EXCEPT ![k] = f]
    BY <1>1, <1>17, <2>1 DEF Hls!Respawn, Hls!Replaced
  <2> HIDE DEF f
  <2> QED  BY <1>1, <1>6, <1>17, <2>1, <2>2, <2>3 DEF Hls!Respawn, Encoding
<1>18. CASE Hls!RespawnFails(k)
  <2> DEFINE f == [e EXCEPT !.running = 0, !.pc = "error"]
  <2>1. e.pc = "crashed"  BY <1>18 DEF Hls!RespawnFails
  <2>2. f \in [pc : Hls!EncodePCs, hw : BOOLEAN, running : 0..2] /\ f.pc = "error" /\ f.running = 0
    <3>1. "error" \in Hls!EncodePCs /\ 0 \in 0..2  BY DEF Hls!EncodePCs
    <3> HIDE DEF e
    <3> QED  BY <1>4, <3>1, EncodingMoves, Zenon
  <2>3. encode' = [encode EXCEPT ![k] = f]  BY <1>1, <1>18 DEF Hls!RespawnFails
  <2> HIDE DEF f
  <2> QED  BY <1>1, <1>6, <1>18, <2>1, <2>2, <2>3 DEF Hls!RespawnFails, Encoding
<1>19. CASE Hls!EncoderExits(k)
  <2> DEFINE f == [e EXCEPT !.running = 0, !.pc = "sent"]
  <2>1. f \in [pc : Hls!EncodePCs, hw : BOOLEAN, running : 0..2] /\ f.pc = "sent" /\ f.running = 0
    <3>1. "sent" \in Hls!EncodePCs /\ 0 \in 0..2  BY DEF Hls!EncodePCs
    <3>2. f = [e EXCEPT !.running = 0, !.pc = "sent"]  OBVIOUS
    <3> HIDE DEF e, f
    <3> QED  BY <1>4, <3>1, <3>2, EncodingMoves, Zenon
  <2>2. encode' = [encode EXCEPT ![k] = f]  BY <1>1, <1>19 DEF Hls!EncoderExits
  <2> HIDE DEF f
  <2> QED  BY <1>1, <1>6, <1>19, <2>1, <2>2 DEF Hls!EncoderExits, Encoding
<1>20. CASE Hls!TakeSegment(k)
  <2>1. p.pc = "listed" /\ p.index < Count  BY <1>1, <1>20 DEF Hls!TakeSegment, Encoding
  <2> DEFINE i == p.index + 1
             t == Hls!Appended(k)
  <2>2. t = IF i = Count THEN duration ELSE i * SegmentLength
    BY <2>1, AppendedReaches
  <2>3. i \in 0..MaxDuration /\ i <= Count  BY <1>1, <1>2, <1>4, <2>1
  <2>4. t \in 0..MaxDuration
    <3>1. i # Count => i * SegmentLength < duration  BY <1>2, <2>3
    <3>2. i * SegmentLength \in Nat  BY <2>3, ServicesAssumption
    <3> QED  BY <1>1, <2>2, <3>1, <3>2
  <2>5. /\ player' = [player EXCEPT ![k].index = i, ![k].time = t]
        /\ encode' = [encode EXCEPT ![k] = Hls!Idle] /\ UNCHANGED <<duration, hardware, probe>>
    BY <1>1, <1>20 DEF Hls!TakeSegment
  <2> HIDE DEF i, t
  <2> QED  BY <1>7, <2>1, <2>2, <2>3, <2>4, <2>5
<1>21. ASSUME NEW i \in 0..MaxDuration, Hls!Jump(k, i) PROVE HlsInv'
  <2> DEFINE t == i * SegmentLength
  <2>1. i < Count /\ p.pc = "listed"  BY <1>21 DEF Hls!Jump, Count
  <2>2. t \in 0..MaxDuration
    <3>1. t < duration /\ t \in Nat  BY <1>2, <2>1, ServicesAssumption
    <3> QED  BY <1>1, <3>1
  <2>3. /\ player' = [player EXCEPT ![k].index = i, ![k].time = t]
        /\ encode' = [encode EXCEPT ![k] = Hls!Idle] /\ UNCHANGED <<duration, hardware, probe>>
    BY <1>21 DEF Hls!Jump
  <2>4. i <= Count /\ i # Count  BY <1>2, <2>1
  <2> QED  BY <1>7, <2>1, <2>2, <2>3, <2>4
<1> QED
  BY <1>9, <1>10, <1>11, <1>12, <1>13, <1>14, <1>15, <1>16, <1>17, <1>18, <1>19, <1>20, <1>21

LEMMA HlsKeeps == ASSUME HlsInv, [Hls!Next]_(Hls!vars) PROVE HlsInv'
<1>1. CASE UNCHANGED Hls!vars \/ Hls!EngineRemoved
  <2>1. UNCHANGED <<duration, hardware, player, encode>> /\ probe' \in {probe, "none"}
    BY <1>1 DEF Hls!vars, Hls!EngineRemoved
  <2>2. Hls!TypeOK'  BY <2>1 DEF HlsInv, Hls!TypeOK, Hls!Probes
  <2> QED  BY <2>1, <2>2 DEF HlsInv, PlayedTo, Encoding, Count, Hls!SegmentCount
<1> QED  BY <1>1, HlsStepKeeps DEF Hls!Next

-----------------------------------------------------------------------------
(* CacheCleaner: for any number of files, sizes and limits.  The total of a *)
(* pass is kept as a running sum; that it is the bytes of the files on the  *)
(* disk at the end of the pass rests on what Bytes is of a set with one     *)
(* file more or less, which is shown first, for any finite set.             *)
(* FoldSet adds the sizes in an order that its CHOOSE fixes; what it sums is *)
(* the value of a recursive function on the subsets.                         *)
Pick(s) == CHOOSE x \in s : TRUE
Sums(iter, S) ==
  iter = [s \in SUBSET S |-> IF s = {} THEN 0 ELSE size[Pick(s)] + iter[s \ {Pick(s)}]]

(* Induction on the natural numbers, by their least counterexample.          *)
LEMMA LeastNumber ==
  ASSUME NEW S \in SUBSET Nat, S # {}
  PROVE  \E m \in S : \A n \in S : m <= n
<1>1. PICK m \in S : \A n \in S : ~(<<n, m>> \in OpToRel(<, Nat))
  BY WFMin, NatLessThanWellFounded
<1>2. \A n \in S : ~(n < m)  BY <1>1 DEF OpToRel
<1> QED  BY <1>2

(* Bytes is that function.                                                   *)
LEMMA BytesIsSum ==
  ASSUME NEW S
  PROVE  Cleaner!Bytes(S) = (CHOOSE iter : Sums(iter, S))[S]
  BY DEF Cleaner!Bytes, Cleaner!FoldSet, Cleaner!MapThenFoldSet, Sums, Pick


(* The function exists: it is built for the subsets of at most n elements.   *)
Upto(S, n) == {s \in SUBSET S : Cardinality(s) <= n}
PartSums(iter, S, n) ==
  /\ iter \in [Upto(S, n) -> Nat]
  /\ \A s \in Upto(S, n) : iter[s] = IF s = {} THEN 0 ELSE size[Pick(s)] + iter[s \ {Pick(s)}]

(* What is picked leaves a set smaller by one.                               *)
LEMMA Picked ==
  ASSUME NEW S, IsFiniteSet(S), NEW s \in SUBSET S, s # {}
  PROVE  /\ Pick(s) \in s /\ s \ {Pick(s)} \in SUBSET S
         /\ IsFiniteSet(s) /\ Cardinality(s) \in Nat /\ Cardinality(s) # 0
         /\ Cardinality(s \ {Pick(s)}) = Cardinality(s) - 1
<1>1. Pick(s) \in s  BY DEF Pick
<1>2. IsFiniteSet(s)  BY FS_Subset
<1> QED  BY <1>1, <1>2, FS_CardinalityType, FS_RemoveElement, FS_EmptySet

(* From n elements to n + 1.                                                 *)
LEMMA PartSumsExtend ==
  ASSUME NEW S, IsFiniteSet(S), size \in [S -> Nat], NEW n \in Nat, NEW part, PartSums(part, S, n)
  PROVE  \E iter : PartSums(iter, S, n + 1)
<1> DEFINE iter == [s \in Upto(S, n + 1) |->
                      IF s \in Upto(S, n) THEN part[s] ELSE size[Pick(s)] + part[s \ {Pick(s)}]]
<1>1. \A s \in SUBSET S : Cardinality(s) \in Nat  BY FS_Subset, FS_CardinalityType
<1>2. ASSUME NEW s \in Upto(S, n + 1), s # {}
      PROVE  /\ s \ {Pick(s)} \in Upto(S, n)
             /\ size[Pick(s)] \in Nat
  BY <1>1, <1>2, Picked DEF Upto
<1>3. {} \in Upto(S, n)  BY FS_EmptySet DEF Upto
<1>4. Upto(S, n) \subseteq Upto(S, n + 1)  BY <1>1 DEF Upto
<1>5. \A s \in Upto(S, n) : part[s] \in Nat  BY DEF PartSums
<1>6. iter \in [Upto(S, n + 1) -> Nat]
  <2>1. ASSUME NEW s \in Upto(S, n + 1), s \notin Upto(S, n)
        PROVE  size[Pick(s)] + part[s \ {Pick(s)}] \in Nat
    <3>1. s # {}  BY <2>1, <1>3
    <3>2. size[Pick(s)] \in Nat /\ s \ {Pick(s)} \in Upto(S, n)  BY <1>2, <3>1
    <3>3. part[s \ {Pick(s)}] \in Nat  BY <1>5, <3>2
    <3> QED  BY <3>2, <3>3
  <2> QED  BY <2>1, <1>5
<1>7. ASSUME NEW s \in Upto(S, n + 1)
      PROVE  iter[s] = IF s = {} THEN 0 ELSE size[Pick(s)] + iter[s \ {Pick(s)}]
  <2>1. CASE s \in Upto(S, n)
    <3>1. iter[s] = part[s]  BY <1>4, <2>1
    <3>2. part[s] = IF s = {} THEN 0 ELSE size[Pick(s)] + part[s \ {Pick(s)}]
      BY <2>1 DEF PartSums
    <3>3. s # {} => iter[s \ {Pick(s)}] = part[s \ {Pick(s)}]  BY <1>2, <1>4
    <3> QED  BY <3>1, <3>2, <3>3
  <2>2. CASE s \notin Upto(S, n)
    <3>1. s # {}  BY <1>3, <2>2
    <3>2. iter[s \ {Pick(s)}] = part[s \ {Pick(s)}]  BY <1>2, <1>4, <3>1
    <3> QED  BY <2>2, <3>1, <3>2
  <2> QED  BY <2>1, <2>2
<1>8. PartSums(iter, S, n + 1)  BY <1>6, <1>7 DEF PartSums
<1> QED  BY <1>8

LEMMA PartSumsExist ==
  ASSUME NEW S, IsFiniteSet(S), size \in [S -> Nat]
  PROVE  \A n \in Nat : \E iter : PartSums(iter, S, n)
<1> DEFINE None == {n \in Nat : ~\E iter : PartSums(iter, S, n)}
<1>1. ASSUME None # {} PROVE FALSE
  <2>1. PICK n \in None : \A m \in None : n <= m
    <3>1. None \in SUBSET Nat  OBVIOUS
    <3> HIDE DEF None
    <3> QED  BY <1>1, <3>1, LeastNumber
  <2>2. n # 0
    <3>1. Upto(S, 0) = {{}}
      <4>1. \A s \in SUBSET S : IsFiniteSet(s) /\ Cardinality(s) \in Nat
        BY FS_Subset, FS_CardinalityType
      <4> QED  BY <4>1, FS_EmptySet DEF Upto
    <3>2. PartSums([s \in {{}} |-> 0], S, 0)  BY <3>1 DEF PartSums
    <3> QED  BY <3>2
  <2>3. n - 1 \in Nat /\ n - 1 \notin None  BY <2>1, <2>2
  <2>4. PICK part : PartSums(part, S, n - 1)  BY <2>3
  <2>5. \E iter : PartSums(iter, S, (n - 1) + 1)  BY <2>3, <2>4, PartSumsExtend
  <2>6. (n - 1) + 1 = n  OBVIOUS
  <2> QED  BY <2>1, <2>5, <2>6
<1> QED  BY <1>1

(* A finite set has as many subsets of at most its cardinality as subsets.   *)
LEMMA SumsExist ==
  ASSUME NEW S, IsFiniteSet(S), size \in [S -> Nat]
  PROVE  \E iter \in [SUBSET S -> Nat] : Sums(iter, S)
<1>1. Cardinality(S) \in Nat  BY FS_CardinalityType
<1>2. PICK iter : PartSums(iter, S, Cardinality(S))  BY <1>1, PartSumsExist
<1>3. Upto(S, Cardinality(S)) = SUBSET S  BY FS_Subset DEF Upto
<1> QED  BY <1>2, <1>3 DEF PartSums, Sums

(* It is the same function on the subsets, whatever set it is defined over.  *)
LEMMA SumsAgree ==
  ASSUME NEW S, IsFiniteSet(S), NEW T \in SUBSET S, NEW one, NEW two, Sums(one, S), Sums(two, T)
  PROVE  one[T] = two[T]
<1> DEFINE Differ(n) == \E s \in SUBSET T : Cardinality(s) = n /\ one[s] # two[s]
           Bad == {n \in Nat : Differ(n)}
<1>1. \A s \in SUBSET T : Cardinality(s) \in Nat  BY FS_Subset, FS_CardinalityType
<1>2. ASSUME Bad # {} PROVE FALSE
  <2>1. PICK n \in Bad : \A m \in Bad : n <= m
    <3>1. Bad \in SUBSET Nat  OBVIOUS
    <3> HIDE DEF Bad
    <3> QED  BY <1>2, <3>1, LeastNumber
  <2>2. PICK s \in SUBSET T : Cardinality(s) = n /\ one[s] # two[s]  BY <2>1
  <2>3. s # {}  BY <2>2 DEF Sums
  <2>4. /\ s \ {Pick(s)} \in SUBSET T /\ n \in Nat /\ Cardinality(s \ {Pick(s)}) = n - 1 /\ n # 0
    <3>1. IsFiniteSet(T)  BY FS_Subset
    <3> QED  BY <3>1, <2>2, <2>3, Picked
  <2>5. n - 1 \in Nat /\ n - 1 \notin Bad  BY <2>1, <2>4
  <2>6. one[s \ {Pick(s)}] = two[s \ {Pick(s)}]  BY <2>4, <2>5
  <2>7. one[s] = size[Pick(s)] + one[s \ {Pick(s)}]  BY <2>3 DEF Sums
  <2>8. two[s] = size[Pick(s)] + two[s \ {Pick(s)}]  BY <2>3 DEF Sums
  <2> QED  BY <2>2, <2>6, <2>7, <2>8
<1> QED  BY <1>1, <1>2

(* And the same sum whichever element is taken first.                        *)
LEMMA AnyFirst ==
  ASSUME NEW S, IsFiniteSet(S), size \in [S -> Nat], NEW iter \in [SUBSET S -> Nat], Sums(iter, S)
  PROVE  \A s \in SUBSET S : \A f \in s : iter[s] = size[f] + iter[s \ {f}]
<1> DEFINE Wrong(n) == \E s \in SUBSET S : Cardinality(s) = n /\ \E f \in s : iter[s] # size[f] + iter[s \ {f}]
           Bad == {n \in Nat : Wrong(n)}
<1>1. \A s \in SUBSET S : Cardinality(s) \in Nat  BY FS_Subset, FS_CardinalityType
<1>2. ASSUME Bad # {} PROVE FALSE
  <2>1. PICK n \in Bad : \A m \in Bad : n <= m
    <3>1. Bad \in SUBSET Nat  OBVIOUS
    <3> HIDE DEF Bad
    <3> QED  BY <1>2, <3>1, LeastNumber
  <2>2. PICK s \in SUBSET S : Cardinality(s) = n /\ \E f \in s : iter[s] # size[f] + iter[s \ {f}]
    BY <2>1
  <2>3. PICK f \in s : iter[s] # size[f] + iter[s \ {f}]  BY <2>2
  <2>4. PICK c : c = Pick(s)  OBVIOUS
  <2>5. iter[s] = size[c] + iter[s \ {c}]  BY <2>3, <2>4 DEF Sums
  <2>6. c # f  BY <2>3, <2>5
  <2>7. /\ c \in s /\ n \in Nat /\ n # 0
        /\ IsFiniteSet(s)
    BY <2>2, <2>3, <2>4, Picked
  <2>8. Cardinality(s \ {c}) = n - 1 /\ Cardinality(s \ {f}) = n - 1
    BY <2>2, <2>3, <2>7, FS_RemoveElement
  <2>9. n - 1 \in Nat /\ n - 1 \notin Bad  BY <2>1, <2>7
  <2>10. iter[s \ {c}] = size[f] + iter[(s \ {c}) \ {f}]  BY <2>3, <2>6, <2>8, <2>9
  <2>11. iter[s \ {f}] = size[c] + iter[(s \ {f}) \ {c}]  BY <2>6, <2>7, <2>8, <2>9
  <2>12. (s \ {c}) \ {f} = (s \ {f}) \ {c}  OBVIOUS
  <2>13. size[f] \in Nat /\ size[c] \in Nat /\ iter[(s \ {c}) \ {f}] \in Nat  BY <2>7
  <2>14. PICK rest \in Nat : rest = iter[(s \ {c}) \ {f}]  BY <2>13
  <2>15. iter[s \ {c}] = size[f] + rest  BY <2>10, <2>14
  <2>16. iter[s \ {f}] = size[c] + rest  BY <2>11, <2>12, <2>14
  <2>17. size[c] + (size[f] + rest) = size[f] + (size[c] + rest)  BY <2>13, <2>14
  <2> QED  BY <2>3, <2>5, <2>15, <2>16, <2>17
<1> QED  BY <1>1, <1>2

(* One function gives the bytes of all subsets of a finite set.              *)
LEMMA BytesOf ==
  ASSUME NEW S, IsFiniteSet(S), size \in [S -> Nat]
  PROVE  \E iter \in [SUBSET S -> Nat] : Sums(iter, S) /\ \A T \in SUBSET S : Cleaner!Bytes(T) = iter[T]
<1>1. PICK iter \in [SUBSET S -> Nat] : Sums(iter, S)  BY SumsExist
<1>2. ASSUME NEW T \in SUBSET S PROVE Cleaner!Bytes(T) = iter[T]
  <2>1. IsFiniteSet(T)  BY FS_Subset
  <2>2. \E two : Sums(two, T)
    <3>1. \E two : \A s \in SUBSET T : TRUE  OBVIOUS
    <3>2. Sums([s \in SUBSET T |-> iter[s]], T)
      <4> DEFINE two == [s \in SUBSET T |-> iter[s]]
      <4>1. ASSUME NEW s \in SUBSET T PROVE two[s] = IF s = {} THEN 0 ELSE size[Pick(s)] + two[s \ {Pick(s)}]
        BY <1>1 DEF Sums
      <4> QED  BY <4>1 DEF Sums
    <3> QED  BY <3>2
  <2>3. PICK two : two = (CHOOSE it : Sums(it, T))  OBVIOUS
  <2>4. Sums(two, T)  BY <2>2, <2>3
  <2>5. Cleaner!Bytes(T) = two[T]  BY <2>3, BytesIsSum
  <2> QED  BY <1>1, <2>4, <2>5, SumsAgree
<1> QED  BY <1>1, <1>2

(* Bytes, file by file.                                                      *)
LEMMA BytesAdd ==
  ASSUME NEW S, IsFiniteSet(S), size \in [S -> Nat], NEW T \in SUBSET S
  PROVE  /\ Cleaner!Bytes(T) \in Nat
         /\ Cleaner!Bytes({}) = 0
         /\ \A f \in T : Cleaner!Bytes(T) = size[f] + Cleaner!Bytes(T \ {f})
<1>1. PICK iter \in [SUBSET S -> Nat] : Sums(iter, S) /\ \A U \in SUBSET S : Cleaner!Bytes(U) = iter[U]
  BY BytesOf
<1>2. iter[{}] = 0  BY <1>1 DEF Sums
<1>3. \A f \in T : iter[T] = size[f] + iter[T \ {f}]  BY <1>1, AnyFirst
<1> QED  BY <1>1, <1>2, <1>3

(* What the pass has counted: all but the entries it has still to walk.      *)
Seen == disk \ cleaner.todo

Passes ==
  [pc : {"waiting", "scanning", "evicting"}, limit : Nat, protected : SUBSET Cleaner!Files,
   todo : SUBSET Cleaner!Files, total : Nat, list : SUBSET Cleaner!Files,
   stuck : SUBSET Cleaner!Files]

CleanerTyped ==
  /\ size \in [Cleaner!Files -> Nat] /\ disk \in SUBSET Cleaner!Files
  /\ fresh \in SUBSET Cleaner!Files /\ owned \in SUBSET Cleaner!Files
  /\ cleaner \in Passes

(* Why a file is left: it may not or could not be deleted, is listed, or was *)
(* passed over by the eviction.                                              *)
Explained(f) ==
  \/ f \in cleaner.protected \cup cleaner.stuck \cup cleaner.list
  \/ cleaner.pc = "evicting" /\ size[f] > cleaner.limit

(* While nothing was written since the pass began, its total is the bytes of *)
(* what it has seen, and each file that it has seen is accounted for.        *)
PassCounts ==
  cleaner.pc # "waiting" /\ ~dirty =>
    /\ cleaner.todo \subseteq disk
    /\ cleaner.list \subseteq Seen
    /\ cleaner.total = Cleaner!Bytes(Seen)
    /\ \A f \in Seen : Explained(f)
    /\ cleaner.pc = "evicting" => cleaner.todo = {}

CleanerInv == CleanerTyped /\ PassCounts

(* Sizes do not change: the bytes of what is seen change only with the set.  *)
LEMMA SameBytes ==
  ASSUME size' = size
  PROVE  (Cleaner!Bytes(Seen))' = Cleaner!Bytes(Seen')
  BY DEF Cleaner!Bytes, Cleaner!FoldSet, Cleaner!MapThenFoldSet

LEMMA FilesAreFinite == IsFiniteSet(Cleaner!Files) /\ Cleaner!Files \in SUBSET Nat
  BY CleanerAssumption, FS_Interval DEF Cleaner!Files

(* The same for the files of the cleaner.                                    *)
LEMMA CleanerBytes ==
  ASSUME CleanerTyped
  PROVE  \A T \in SUBSET Cleaner!Files :
           /\ Cleaner!Bytes(T) \in Nat /\ Cleaner!Bytes({}) = 0
           /\ \A f \in T : Cleaner!Bytes(T) = size[f] + Cleaner!Bytes(T \ {f})
  BY FilesAreFinite, BytesAdd DEF CleanerTyped, Passes

LEMMA InitCleaner == Cleaner!Init => CleanerInv
<1> SUFFICES ASSUME Cleaner!Init PROVE CleanerInv
  OBVIOUS
<1>1. size \in [Cleaner!Files -> Nat]
  BY CleanerAssumption DEF Cleaner!Init
<1>2. CleanerTyped  BY <1>1 DEF Cleaner!Init, CleanerTyped, Passes, Cleaner!Waiting
<1>3. PassCounts  BY DEF Cleaner!Init, PassCounts, Cleaner!Waiting
<1> QED  BY <1>2, <1>3 DEF CleanerInv

(* A pass begins with nothing counted.                                       *)
LEMMA BeginKeeps == ASSUME CleanerInv, Cleaner!Begin PROVE CleanerInv'
<1>1. PICK limit \in Nat, prot \in SUBSET Cleaner!Files :
        cleaner' = [Cleaner!Waiting EXCEPT !.pc = "scanning", !.limit = limit, !.todo = disk, !.protected = prot]
  <2>1. PICK limit \in 0..MaxCacheSize :
          cleaner' = [Cleaner!Waiting EXCEPT !.pc = "scanning", !.limit = limit, !.todo = disk,
                                     !.protected = IF active THEN owned ELSE {}]
    BY DEF Cleaner!Begin
  <2>2. PICK prot \in SUBSET Cleaner!Files : prot = IF active THEN owned ELSE {}
    BY DEF CleanerInv, CleanerTyped, Passes
  <2>3. limit \in Nat  BY CleanerAssumption
  <2> QED  BY <2>1, <2>2, <2>3
<1>2. UNCHANGED <<size, owned, disk, fresh>>  BY DEF Cleaner!Begin, Cleaner!world
<1>3. cleaner' = [pc |-> "scanning", limit |-> limit, protected |-> prot, todo |-> disk, total |-> 0,
                  list |-> {}, stuck |-> {}]
  BY <1>1 DEF Cleaner!Waiting
<1>4. CleanerTyped'  BY <1>2, <1>3 DEF CleanerInv, CleanerTyped, Passes
<1>5. Seen' = {}  BY <1>2, <1>3 DEF Seen
<1>6. (Cleaner!Bytes(Seen))' = 0
  BY <1>2, <1>5, FilesAreFinite, BytesAdd, SameBytes DEF CleanerInv, CleanerTyped, Passes
<1> QED  BY <1>2, <1>3, <1>4, <1>5, <1>6 DEF CleanerInv, PassCounts

(* An entry is deleted and counts for nothing, or stays and is counted.      *)
LEMMA WalkKeeps == ASSUME CleanerInv, Cleaner!Walk PROVE CleanerInv'
<1>1. PICK f \in cleaner.todo : Cleaner!WalkInUse(f) \/ Cleaner!WalkAged(f) \/ Cleaner!WalkListed(f)
  BY DEF Cleaner!Walk
<1>2. UNCHANGED <<size, owned, fresh, dirty>> /\ cleaner.pc = "scanning"
  BY DEF Cleaner!Walk, Cleaner!world
<1>3. f \in Cleaner!Files /\ size[f] \in Nat  BY DEF CleanerInv, CleanerTyped, Passes
<1>4. ASSUME disk' = disk \ {f}, cleaner' = Cleaner!Walked(f) PROVE CleanerInv'
  <2>1. cleaner' = [cleaner EXCEPT !.todo = @ \ {f}]  BY <1>4 DEF Cleaner!Walked
  <2>2. CleanerTyped'  BY <1>2, <1>4, <2>1 DEF CleanerInv, CleanerTyped, Passes
  <2>3. Seen' = Seen  BY <1>4, <2>1 DEF Seen, CleanerInv, CleanerTyped, Passes
  <2>4. (Cleaner!Bytes(Seen))' = Cleaner!Bytes(Seen)  BY <1>2, <2>3, SameBytes
  <2>5. PassCounts'
    BY <1>2, <1>4, <2>1, <2>3, <2>4 DEF CleanerInv, CleanerTyped, Passes, PassCounts, Explained
  <2> QED  BY <2>2, <2>5 DEF CleanerInv
<1>5. ASSUME disk' = disk,
             \/ cleaner' = [Cleaner!Walked(f) EXCEPT !.total = @ + size[f]] /\ f \in cleaner.protected
             \/ cleaner' = [Cleaner!Walked(f) EXCEPT !.total = @ + size[f], !.stuck = @ \cup {f}]
             \/ cleaner' = [Cleaner!Walked(f) EXCEPT !.total = @ + size[f], !.list = @ \cup {f}]
      PROVE  CleanerInv'
  <2>1. /\ cleaner'.pc = cleaner.pc /\ cleaner'.limit = cleaner.limit
        /\ cleaner'.protected = cleaner.protected /\ cleaner'.todo = cleaner.todo \ {f}
        /\ cleaner'.total = cleaner.total + size[f]
        /\ cleaner.stuck \subseteq cleaner'.stuck /\ cleaner.list \subseteq cleaner'.list
        /\ cleaner'.list \subseteq cleaner.list \cup {f}
        /\ f \in cleaner'.protected \cup cleaner'.stuck \cup cleaner'.list
    <3>1. cleaner \in Passes  BY DEF CleanerInv, CleanerTyped, Passes
    <3>2. CASE cleaner' = [Cleaner!Walked(f) EXCEPT !.total = @ + size[f]] /\ f \in cleaner.protected
      BY <3>1, <3>2 DEF Cleaner!Walked, Passes
    <3>3. CASE cleaner' = [Cleaner!Walked(f) EXCEPT !.total = @ + size[f], !.stuck = @ \cup {f}]
      BY <3>1, <3>3 DEF Cleaner!Walked, Passes
    <3>4. CASE cleaner' = [Cleaner!Walked(f) EXCEPT !.total = @ + size[f], !.list = @ \cup {f}]
      BY <3>1, <3>4 DEF Cleaner!Walked, Passes
    <3> QED  BY <1>5, <3>2, <3>3, <3>4
  <2>2. CleanerTyped'
    <3>1. cleaner \in Passes  BY DEF CleanerInv, CleanerTyped, Passes
    <3>2. PICK next \in Passes : next = Cleaner!Walked(f)  BY <3>1 DEF Cleaner!Walked, Passes
    <3>3. \/ cleaner' = [next EXCEPT !.total = @ + size[f]]
          \/ cleaner' = [next EXCEPT !.total = @ + size[f], !.stuck = @ \cup {f}]
          \/ cleaner' = [next EXCEPT !.total = @ + size[f], !.list = @ \cup {f}]
      BY <1>5, <3>2
    <3>4. next.total + size[f] \in Nat /\ next.stuck \cup {f} \in SUBSET Cleaner!Files
          /\ next.list \cup {f} \in SUBSET Cleaner!Files
      BY <1>3 DEF Passes
    <3>5. cleaner' \in Passes  BY <3>3, <3>4 DEF Passes
    <3>6. size' = size /\ owned' = owned /\ fresh' = fresh /\ disk' = disk  BY <1>2, <1>5
    <3> QED  BY <3>5, <3>6 DEF CleanerInv, CleanerTyped, Passes
  <2>3. ASSUME ~dirty' PROVE PassCounts'
    <3>1. cleaner.todo \subseteq disk /\ cleaner.list \subseteq Seen
          /\ cleaner.total = Cleaner!Bytes(Seen) /\ \A g \in Seen : Explained(g)
      BY <1>2, <2>3 DEF CleanerInv, PassCounts
    <3>2. PICK seen \in SUBSET Cleaner!Files : seen = Seen'
      BY <2>2 DEF CleanerTyped, Passes, Seen
    <3>3. seen = Seen \cup {f} /\ f \in seen /\ seen \ {f} = Seen
      BY <1>1, <1>5, <2>1, <3>1, <3>2 DEF Seen
    <3>4. Cleaner!Bytes(seen) = size[f] + Cleaner!Bytes(Seen)
      <4>1. PICK old : old = Seen  OBVIOUS
      <4>2. Cleaner!Bytes(seen) = size[f] + Cleaner!Bytes(seen \ {f})
        BY <3>3, CleanerBytes DEF CleanerInv
      <4>3. seen \ {f} = old  BY <3>3, <4>1
      <4> QED  BY <4>1, <4>2, <4>3
    <3>5. (Cleaner!Bytes(Seen))' = Cleaner!Bytes(seen)  BY <1>2, <3>2, SameBytes
    <3>6. cleaner'.total = (Cleaner!Bytes(Seen))'
      BY <1>3, <2>1, <3>1, <3>4, <3>5 DEF CleanerInv, CleanerTyped, Passes
    <3>7. \A g \in Seen' : Explained(g)'
      BY <1>2, <2>1, <3>1, <3>2, <3>3 DEF Explained
    <3>8. cleaner'.todo \subseteq disk' /\ cleaner'.list \subseteq Seen'
      BY <1>5, <2>1, <3>1, <3>2, <3>3
    <3> QED  BY <1>2, <2>1, <3>6, <3>7, <3>8 DEF PassCounts
  <2> QED  BY <2>2, <2>3 DEF CleanerInv, PassCounts
<1>6. CASE Cleaner!WalkInUse(f)
  BY <1>5, <1>6 DEF Cleaner!WalkInUse, Cleaner!InUse, Cleaner!Spared
<1>7. CASE Cleaner!WalkAged(f)
  BY <1>4, <1>5, <1>7 DEF Cleaner!WalkAged, Cleaner!Spared, Cleaner!Deleted
<1>8. CASE Cleaner!WalkListed(f)
  BY <1>5, <1>8 DEF Cleaner!WalkListed, Cleaner!Spared
<1> QED  BY <1>1, <1>6, <1>7, <1>8

(* The oldest candidate is one.                                              *)
LEMMA OldestIsListed ==
  ASSUME CleanerTyped, cleaner.list # {}
  PROVE  Cleaner!Min(cleaner.list) \in cleaner.list
<1>1. cleaner.list \in SUBSET Nat  BY FilesAreFinite DEF CleanerTyped, Passes
<1>2. \E f \in cleaner.list : \A g \in cleaner.list : f <= g  BY <1>1, LeastNumber
<1> QED  BY <1>2 DEF Cleaner!Min

(* A candidate is deleted and taken off the total, or accounted for.         *)
LEMMA EvictKeeps == ASSUME CleanerInv, Cleaner!Evict PROVE CleanerInv'
<1>1. PICK f \in cleaner.list :
        \/ size[f] > cleaner.limit /\ cleaner' = [cleaner EXCEPT !.list = @ \ {f}] /\ disk' = disk
        \/ /\ size[f] <= cleaner.limit /\ disk' = disk \ {f}
           /\ cleaner' = [cleaner EXCEPT !.list = @ \ {f}, !.total = @ - size[f]]
        \/ cleaner' = [cleaner EXCEPT !.list = @ \ {f}, !.stuck = @ \cup {f}] /\ disk' = disk
  <2>1. PICK f \in cleaner.list : f = Cleaner!Min(cleaner.list)
    BY OldestIsListed DEF CleanerInv, Cleaner!Evict
  <2>2. /\ \/ size[f] > cleaner.limit /\ cleaner' = [cleaner EXCEPT !.list = @ \ {f}] /\ disk' = disk
           \/ /\ size[f] <= cleaner.limit /\ disk' = disk \ {f}
              /\ cleaner' = [[cleaner EXCEPT !.list = @ \ {f}] EXCEPT !.total = @ - size[f]]
           \/ cleaner' = [[cleaner EXCEPT !.list = @ \ {f}] EXCEPT !.stuck = @ \cup {f}] /\ disk' = disk
    BY <2>1 DEF Cleaner!Evict, Cleaner!Spared, Cleaner!Deleted
  <2> QED  BY <2>2 DEF CleanerInv, CleanerTyped, Passes
<1>2. /\ UNCHANGED <<size, owned, fresh, dirty>> /\ cleaner.pc = "evicting"
      /\ cleaner.total > cleaner.limit
  BY DEF Cleaner!Evict, Cleaner!world, Cleaner!Fits, CleanerInv, CleanerTyped, Passes
<1>3. f \in Cleaner!Files /\ size[f] \in Nat /\ cleaner.total \in Nat /\ cleaner.limit \in Nat
  BY DEF CleanerInv, CleanerTyped, Passes
<1>4. CleanerTyped'
  <2>1. CASE cleaner' = [cleaner EXCEPT !.list = @ \ {f}] /\ disk' = disk
    BY <1>2, <1>3, <2>1 DEF CleanerInv, CleanerTyped, Passes
  <2>2. CASE /\ size[f] <= cleaner.limit /\ disk' = disk \ {f}
             /\ cleaner' = [cleaner EXCEPT !.list = @ \ {f}, !.total = @ - size[f]]
    <3>1. cleaner.total - size[f] \in Nat  BY <1>2, <1>3, <2>2
    <3> QED  BY <1>2, <1>3, <2>2, <3>1 DEF CleanerInv, CleanerTyped, Passes
  <2>3. CASE cleaner' = [cleaner EXCEPT !.list = @ \ {f}, !.stuck = @ \cup {f}] /\ disk' = disk
    BY <1>2, <1>3, <2>3 DEF CleanerInv, CleanerTyped, Passes
  <2> QED  BY <1>1, <2>1, <2>2, <2>3
<1>5. /\ cleaner'.pc = "evicting" /\ cleaner'.limit = cleaner.limit
      /\ cleaner'.protected = cleaner.protected /\ cleaner'.todo = cleaner.todo
      /\ cleaner'.list = cleaner.list \ {f} /\ cleaner.stuck \subseteq cleaner'.stuck
  BY <1>1, <1>2 DEF CleanerInv, CleanerTyped, Passes
<1>6. ASSUME ~dirty' PROVE PassCounts'
  <2>1. /\ cleaner.todo = {} /\ cleaner.list \subseteq Seen
        /\ cleaner.total = Cleaner!Bytes(Seen) /\ \A g \in Seen : Explained(g)
    BY <1>2, <1>6 DEF CleanerInv, PassCounts
  <2>2. Seen = disk /\ Seen' = disk'  BY <1>5, <2>1 DEF Seen
  <2>3. PICK seen \in SUBSET Cleaner!Files : seen = Seen'
    BY <1>4 DEF CleanerTyped, Passes, Seen
  <2>4. (Cleaner!Bytes(Seen))' = Cleaner!Bytes(seen)  BY <1>2, <2>3, SameBytes
  <2>5. CASE size[f] <= cleaner.limit /\ disk' = disk \ {f}
             /\ cleaner' = [cleaner EXCEPT !.list = @ \ {f}, !.total = @ - size[f]]
    <3>1. seen = Seen \ {f}  BY <2>2, <2>3, <2>5
    <3>2. Cleaner!Bytes(Seen) = size[f] + Cleaner!Bytes(seen) /\ Cleaner!Bytes(seen) \in Nat
      <4>1. PICK old \in SUBSET Cleaner!Files : old = Seen
        BY DEF Seen, CleanerInv, CleanerTyped, Passes
      <4>2. f \in old  BY <2>1, <4>1
      <4>3. Cleaner!Bytes(old) = size[f] + Cleaner!Bytes(old \ {f}) /\ Cleaner!Bytes(seen) \in Nat
        BY <4>2, CleanerBytes DEF CleanerInv
      <4>4. old \ {f} = seen  BY <3>1, <4>1
      <4> QED  BY <4>1, <4>3, <4>4
    <3>3. cleaner'.total = Cleaner!Bytes(seen)
      BY <1>3, <2>1, <2>5, <3>2 DEF CleanerInv, CleanerTyped, Passes
    <3>4. \A g \in Seen' : Explained(g)'
      BY <1>2, <1>5, <2>1, <2>3, <3>1 DEF Explained
    <3>5. cleaner'.list \subseteq Seen'  BY <1>5, <2>1, <2>3, <3>1
    <3> QED  BY <1>5, <2>1, <2>4, <3>3, <3>4, <3>5 DEF PassCounts
  <2>6. CASE disk' = disk
             /\ \/ size[f] > cleaner.limit /\ cleaner' = [cleaner EXCEPT !.list = @ \ {f}]
                \/ cleaner' = [cleaner EXCEPT !.list = @ \ {f}, !.stuck = @ \cup {f}]
    <3>1. seen = Seen  BY <2>2, <2>3, <2>6
    <3>2. cleaner'.total = cleaner.total  BY <2>6 DEF CleanerInv, CleanerTyped, Passes
    <3>3. size[f] > cleaner.limit \/ f \in cleaner'.stuck  BY <2>6 DEF CleanerInv, CleanerTyped, Passes
    <3>4. \A g \in Seen' : Explained(g)'
      BY <1>2, <1>5, <2>1, <2>3, <3>1, <3>3 DEF Explained
    <3>5. cleaner'.list \subseteq Seen'  BY <1>5, <2>1, <2>3, <3>1
    <3> QED  BY <1>5, <2>1, <2>4, <3>1, <3>2, <3>4, <3>5 DEF PassCounts
  <2> QED  BY <1>1, <2>5, <2>6
<1> QED  BY <1>4, <1>6 DEF CleanerInv, PassCounts

(* What is written makes the count stale, and dirty says so.                 *)
LEMMA WorldKeeps ==
  ASSUME CleanerInv,
         \/ Cleaner!TorrentWrites \/ Cleaner!TorrentAdded \/ Cleaner!TorrentRemoved
         \/ Cleaner!EventReceived \/ UNCHANGED Cleaner!vars
  PROVE  CleanerInv'
<1>1. CASE Cleaner!TorrentWrites
  <2>1. PICK f \in owned \cap fresh :
          /\ disk' = disk \cup {f} /\ fresh' = fresh \ {f}
          /\ cleaner' = cleaner \/ cleaner' = [cleaner EXCEPT !.todo = @ \cup {f}]
    BY <1>1 DEF Cleaner!TorrentWrites, CleanerInv, CleanerTyped, Passes
  <2>2. UNCHANGED <<size, owned>> /\ dirty'  BY <1>1 DEF Cleaner!TorrentWrites, Cleaner!world
  <2>3. CleanerTyped'  BY <2>1, <2>2 DEF CleanerInv, CleanerTyped, Passes
  <2> QED  BY <2>2, <2>3 DEF CleanerInv, PassCounts
<1>2. CASE ~Cleaner!TorrentWrites
  <2>1. UNCHANGED <<size, owned, disk, fresh, cleaner, dirty>>
    BY <1>2 DEF Cleaner!TorrentAdded, Cleaner!TorrentRemoved, Cleaner!EventReceived, Cleaner!vars, Cleaner!world
  <2>2. Seen' = Seen  BY <2>1 DEF Seen
  <2>3. (Cleaner!Bytes(Seen))' = Cleaner!Bytes(Seen)  BY <2>1, <2>2, SameBytes
  <2> QED  BY <2>1, <2>2, <2>3 DEF CleanerInv, CleanerTyped, Passes, PassCounts, Explained
<1> QED  BY <1>1, <1>2

LEMMA WalkEndsKeeps == ASSUME CleanerInv, Cleaner!WalkEnds PROVE CleanerInv'
<1>1. /\ UNCHANGED <<size, owned, disk, fresh, dirty>>
      /\ cleaner' = [cleaner EXCEPT !.pc = "evicting"] /\ cleaner.todo = {} /\ cleaner.pc = "scanning"
  BY DEF Cleaner!WalkEnds, Cleaner!world
<1>2. Seen' = Seen  BY <1>1 DEF Seen, CleanerInv, CleanerTyped, Passes
<1>3. (Cleaner!Bytes(Seen))' = Cleaner!Bytes(Seen)  BY <1>1, <1>2, SameBytes
<1> QED  BY <1>1, <1>2, <1>3 DEF CleanerInv, CleanerTyped, Passes, PassCounts, Explained

LEMMA PassEndsKeeps == ASSUME CleanerInv, Cleaner!PassEnds PROVE CleanerInv'
<1>1. UNCHANGED <<size, owned, disk, fresh>> /\ cleaner' = Cleaner!Waiting
  BY DEF Cleaner!PassEnds, Cleaner!world
<1> QED  BY <1>1 DEF Cleaner!Waiting, CleanerInv, CleanerTyped, Passes, PassCounts

LEMMA CleanerKeeps == ASSUME CleanerInv, [Cleaner!Next]_(Cleaner!vars) PROVE CleanerInv'
<1>1. CASE Cleaner!PollTick  BY <1>1, BeginKeeps DEF Cleaner!PollTick
<1>2. CASE Cleaner!DebounceFires  BY <1>2, BeginKeeps DEF Cleaner!DebounceFires
<1> QED  BY <1>1, <1>2, WorldKeeps, WalkKeeps, WalkEndsKeeps, EvictKeeps, PassEndsKeeps DEF Cleaner!Next

(* The end of a pass.                                                        *)
LEMMA PassFits ==
  ASSUME CleanerInv, Cleaner!PassEnds, cleaner.limit > 0, ~dirty
  PROVE  \/ Cleaner!Bytes(disk) <= cleaner.limit
         \/ \A f \in disk : \/ f \in cleaner.protected \cup cleaner.stuck
                            \/ size[f] > cleaner.limit
<1>1. /\ cleaner.pc = "evicting" /\ (cleaner.total <= cleaner.limit \/ cleaner.list = {})
  BY DEF Cleaner!PassEnds, Cleaner!Fits, CleanerInv, CleanerTyped, Passes
<1>2. cleaner.total = Cleaner!Bytes(Seen) /\ \A f \in Seen : Explained(f)
  BY <1>1 DEF CleanerInv, PassCounts
<1>3. Seen = disk  BY <1>1 DEF CleanerInv, PassCounts, Seen
<1> QED  BY <1>1, <1>2, <1>3 DEF Explained

-----------------------------------------------------------------------------
(* ArchiveStream, for an entry of any size.  A task leaves its cache marked *)
(* when it ends, and what the mark says of the file depends on the writer:  *)
(* a chunk that is counted as written may still be on its way to the disk,  *)
(* or lost on it, and only the copy of a zip entry waits for the last one.  *)
PendingWrites == IF archiveCache.inFlight \/ archiveCache.lastErr THEN 1 ELSE 0

(* Each chunk counted is on the disk, but for the one of the background      *)
(* write, and a std File has no such write.                                  *)
WritesCounted ==
  /\ archiveCache.written = archiveCache.onDisk + PendingWrites
  /\ ~(archiveCache.inFlight /\ archiveCache.lastErr)
  /\ PendingWrites = 1 => archiveReader.kind \in Archive!Async

(* Where the task is, its cache and its reader agree.                        *)
TaskKnown ==
  /\ archiveReader.pc = "idle" => extraction = "none"
  /\ extraction = "none" => archiveCache.written = 0
  /\ extraction # "none" => archiveReader.kind \in Archive!Cached
  /\ extraction # "ended" => ~archiveCache.complete /\ ~archiveCache.error
  /\ archiveCache.error => archiveCache.complete

(* The promise to the readers: an extraction that has ended says so, but for *)
(* a 7z's; a zip entry that is complete without an error lies on the disk as *)
(* a whole; and a poll has read nothing that is not there.                   *)
ExtractionIsHonest ==
  /\ extraction = "ended" => archiveCache.complete \/ archiveReader.kind = "7z"
  /\ archiveCache.complete /\ ~archiveCache.error /\ archiveReader.kind = "zip" =>
       archiveCache.onDisk = EntrySize
  /\ archiveReader.pc = "reading" /\ archiveReader.seen > 0 =>
       archiveReader.pos + archiveReader.seen <= archiveCache.onDisk

ArchiveTyped ==
  /\ archive \in Archive!Sessions /\ archiveCache \in Archive!CacheType
  /\ extraction \in Archive!TaskType /\ archiveReader \in Archive!ReaderType

ArchiveInv == ArchiveTyped /\ WritesCounted /\ TaskKnown /\ ExtractionIsHonest

LEMMA InitArchive == Archive!Init => ArchiveInv
  BY ServicesAssumption
  DEF Archive!Init, Archive!NewCache, ArchiveInv, ArchiveTyped, WritesCounted, PendingWrites, TaskKnown,
    ExtractionIsHonest, Archive!Sessions, Archive!CacheType, Archive!TaskType, Archive!ReaderType,
    Archive!Kinds, Archive!Cached, Archive!Async, Archive!Sync

LEMMA CacheFields ==
  ASSUME ArchiveTyped
  PROVE  /\ archiveCache.written \in 0..EntrySize /\ archiveCache.onDisk \in 0..EntrySize
         /\ archiveCache.temp \in BOOLEAN /\ archiveCache.inFlight \in BOOLEAN
         /\ archiveCache.lastErr \in BOOLEAN
         /\ archiveCache.complete \in BOOLEAN /\ archiveCache.error \in BOOLEAN
  BY DEF ArchiveTyped, Archive!CacheType

LEMMA ReaderFields ==
  ASSUME ArchiveTyped
  PROVE  /\ archiveReader.kind \in Archive!Kinds \cup {"none"} /\ archiveReader.found \in BOOLEAN
         /\ archiveReader.pos \in 0..EntrySize /\ archiveReader.seen \in 0..EntrySize
         /\ archiveReader.left \in 0..EntrySize
         /\ archiveReader.len \in 0..EntrySize /\ archiveReader.got \in 0..EntrySize
  BY DEF ArchiveTyped, Archive!ReaderType

LEMMA NamesAreFree ==
  ASSUME ArchiveTyped, NEW b \in BOOLEAN, archiveCache' = [archiveCache EXCEPT !.temp = b]
  PROVE  /\ archiveCache' \in Archive!CacheType
         /\ archiveCache'.written = archiveCache.written /\ archiveCache'.onDisk = archiveCache.onDisk
         /\ archiveCache'.inFlight = archiveCache.inFlight /\ archiveCache'.lastErr = archiveCache.lastErr
         /\ archiveCache'.complete = archiveCache.complete /\ archiveCache'.error = archiveCache.error
  BY DEF ArchiveTyped, Archive!CacheType

LEMMA BodiesAreTyped ==
  ASSUME NEW r \in Archive!ReaderType, NEW first \in 0..EntrySize - 1, NEW last \in first..EntrySize - 1
  PROVE  /\ Archive!Responding(r, first, last) \in Archive!ReaderType
         /\ Archive!Responding(r, first, last).kind = r.kind
         /\ Archive!Responding(r, first, last).pc = "polling"
<1> DEFINE n == last - first + 1
           a == [r EXCEPT !.answer = "body"]
           b == [a EXCEPT !.pc = "polling"]
           c == [b EXCEPT !.pos = first]
           d == [c EXCEPT !.len = n]
           e == [d EXCEPT !.left = n]
<1>1. n \in 0..EntrySize /\ first \in 0..EntrySize  BY ServicesAssumption
<1>2. Archive!Responding(r, first, last) = e  BY DEF Archive!Responding
<1> HIDE DEF n
<1>3. a \in Archive!ReaderType /\ a.kind = r.kind  BY DEF Archive!ReaderType
<1> HIDE DEF a
<1>4. b \in Archive!ReaderType /\ b.kind = r.kind /\ b.pc = "polling"  BY <1>3 DEF Archive!ReaderType
<1> HIDE DEF b
<1>5. c \in Archive!ReaderType /\ c.kind = r.kind /\ c.pc = "polling"  BY <1>1, <1>4 DEF Archive!ReaderType
<1> HIDE DEF c
<1>6. d \in Archive!ReaderType /\ d.kind = r.kind /\ d.pc = "polling"  BY <1>1, <1>5 DEF Archive!ReaderType
<1> HIDE DEF d
<1>7. e \in Archive!ReaderType /\ e.kind = r.kind /\ e.pc = "polling"  BY <1>1, <1>6 DEF Archive!ReaderType
<1> QED  BY <1>2, <1>7

(* A request asks, opens or goes away: nothing of the extraction moves but   *)
(* the name of its file, and no poll is under way.                           *)
LEMMA RequestKeeps ==
  ASSUME ArchiveInv,
         \/ Archive!CreateSession \/ Archive!NoSuchSession \/ Archive!NoSuchEntry
         \/ Archive!OpenEntry \/ Archive!ReaderOpens \/ Archive!OpenTar \/ Archive!Close
  PROVE  ArchiveInv'
<1> DEFINE Same == UNCHANGED <<archiveCache.written, archiveCache.onDisk, archiveCache.inFlight,
                               archiveCache.lastErr, archiveCache.complete, archiveCache.error>>
<1>t. ArchiveTyped  BY DEF ArchiveInv
<1>1. CASE Archive!CreateSession
  BY <1>1
  DEF Archive!CreateSession, Archive!Sessions, ArchiveInv, ArchiveTyped, WritesCounted, PendingWrites,
    TaskKnown, ExtractionIsHonest
<1>2. CASE Archive!NoSuchSession \/ Archive!NoSuchEntry
  <2>1. /\ archiveReader' = [archiveReader EXCEPT !.answer = "404", !.pc = "ended"]
        /\ UNCHANGED <<archive, archiveCache, extraction>>
    BY <1>2 DEF Archive!NoSuchSession, Archive!NoSuchEntry, Archive!Answer
  <2>2. /\ archiveReader' \in Archive!ReaderType
        /\ archiveReader'.kind = archiveReader.kind /\ archiveReader'.pc = "ended"
    BY <1>t, <2>1 DEF ArchiveTyped, Archive!ReaderType
  <2> QED
    BY <1>t, <2>1, <2>2
    DEF ArchiveInv, ArchiveTyped, WritesCounted, PendingWrites, TaskKnown, ExtractionIsHonest
<1>3. CASE Archive!OpenEntry
  <2>1. PICK found \in BOOLEAN :
          archiveReader' = [archiveReader EXCEPT !.kind = archive.kind, !.found = found, !.pc = "opening"]
    BY <1>3, Zenon DEF Archive!OpenEntry
  <2>2. /\ archive.kind \in Archive!Cached /\ archiveReader.pc = "idle" /\ UNCHANGED archive
        /\ archiveCache' = [archiveCache EXCEPT !.temp = TRUE] /\ extraction' = "opening"
    BY <1>3, Zenon DEF Archive!OpenEntry
  <2>3. archiveCache' \in Archive!CacheType /\ Same  BY <1>t, <2>2, NamesAreFree
  <2>4. /\ archiveReader' \in Archive!ReaderType
        /\ archiveReader'.kind \in Archive!Cached /\ archiveReader'.pc = "opening"
    BY <1>t, <2>1, <2>2
    DEF ArchiveTyped, Archive!ReaderType, Archive!Cached, Archive!Async, Archive!Sync, Archive!Kinds
  <2>5. archiveCache.written = 0 /\ PendingWrites = 0 /\ ~archiveCache.complete /\ ~archiveCache.error
    BY <1>t, <2>2, CacheFields DEF ArchiveInv, TaskKnown, WritesCounted, PendingWrites
  <2>6. ArchiveTyped'  BY <1>t, <2>2, <2>3, <2>4 DEF ArchiveTyped, Archive!TaskType
  <2> QED
    BY <2>2, <2>3, <2>4, <2>5, <2>6
    DEF ArchiveInv, WritesCounted, PendingWrites, TaskKnown, ExtractionIsHonest
<1>4. CASE Archive!ReaderOpens
  <2>1. /\ archiveReader.pc = "opening" /\ UNCHANGED <<archive, extraction>>
        /\ archiveCache' = [archiveCache EXCEPT !.temp = FALSE]
    BY <1>4 DEF Archive!ReaderOpens
  <2>2. archiveCache' \in Archive!CacheType /\ Same  BY <1>t, <2>1, NamesAreFree
  <2>3. /\ archiveReader' \in Archive!ReaderType
        /\ archiveReader'.kind = archiveReader.kind /\ archiveReader'.pc \in {"polling", "ended"}
    <3>1. CASE archiveReader.kind = "tgz"
      <4>1. archiveReader' = [archiveReader EXCEPT !.answer = "500", !.pc = "ended"]
        BY <1>4, <3>1 DEF Archive!ReaderOpens, Archive!Answer
      <4> QED  BY <1>t, <4>1 DEF ArchiveTyped, Archive!ReaderType
    <3>2. CASE archiveReader.kind # "tgz"
      <4>1. PICK first \in 0..EntrySize - 1 : \E last \in first..EntrySize - 1 :
              archiveReader' = Archive!Responding(archiveReader, first, last)
        BY <1>4, <3>2 DEF Archive!ReaderOpens
      <4>2. PICK last \in first..EntrySize - 1 :
              archiveReader' = Archive!Responding(archiveReader, first, last)
        BY <4>1
      <4> QED  BY <1>t, <4>2, BodiesAreTyped DEF ArchiveTyped
    <3> QED  BY <3>1, <3>2
  <2>4. ArchiveTyped'  BY <1>t, <2>1, <2>2, <2>3 DEF ArchiveTyped
  <2> QED
    BY <2>1, <2>2, <2>3, <2>4
    DEF ArchiveInv, WritesCounted, PendingWrites, TaskKnown, ExtractionIsHonest
<1>5. CASE Archive!OpenTar
  <2>1. PICK first \in 0..EntrySize - 1 : \E last \in first..EntrySize - 1 :
          archiveReader' =
            Archive!Responding([archiveReader EXCEPT !.kind = "tar", !.found = TRUE], first, last)
    BY <1>5 DEF Archive!OpenTar
  <2>2. PICK last \in first..EntrySize - 1 :
          archiveReader' =
            Archive!Responding([archiveReader EXCEPT !.kind = "tar", !.found = TRUE], first, last)
    BY <2>1
  <2>3. archiveReader.pc = "idle" /\ UNCHANGED <<archive, archiveCache, extraction>>
    BY <1>5 DEF Archive!OpenTar
  <2>4. /\ archiveReader' \in Archive!ReaderType
        /\ archiveReader'.kind = "tar" /\ archiveReader'.pc = "polling"
    <3> DEFINE r == [archiveReader EXCEPT !.kind = "tar", !.found = TRUE]
    <3>1. r \in Archive!ReaderType /\ r.kind = "tar"
      BY <1>t DEF ArchiveTyped, Archive!ReaderType, Archive!Kinds
    <3> HIDE DEF r
    <3> QED  BY <2>2, <3>1, BodiesAreTyped DEF r
  <2>5. archiveCache.written = 0 /\ extraction = "none" /\ ~archiveCache.complete
    BY <2>3 DEF ArchiveInv, TaskKnown
  <2>6. PendingWrites = 0  BY <1>t, <2>5, CacheFields DEF ArchiveInv, WritesCounted, PendingWrites
  <2>7. ArchiveTyped'  BY <1>t, <2>3, <2>4 DEF ArchiveTyped
  <2> QED
    BY <2>3, <2>4, <2>5, <2>6, <2>7
    DEF ArchiveInv, WritesCounted, PendingWrites, TaskKnown, ExtractionIsHonest
<1>6. CASE Archive!Close
  <2>1. /\ archiveReader' = [archiveReader EXCEPT !.pc = "closed"] /\ UNCHANGED <<archive, extraction>>
        /\ archiveCache' = [archiveCache EXCEPT !.temp = FALSE]
    BY <1>6 DEF Archive!Close
  <2>2. archiveCache' \in Archive!CacheType /\ Same  BY <1>t, <2>1, NamesAreFree
  <2>3. /\ archiveReader' \in Archive!ReaderType
        /\ archiveReader'.kind = archiveReader.kind /\ archiveReader'.pc = "closed"
    BY <1>t, <2>1 DEF ArchiveTyped, Archive!ReaderType
  <2>4. ArchiveTyped'  BY <1>t, <2>1, <2>2, <2>3 DEF ArchiveTyped
  <2> QED
    BY <2>1, <2>2, <2>3, <2>4
    DEF ArchiveInv, WritesCounted, PendingWrites, TaskKnown, ExtractionIsHonest
<1> QED  BY <1>1, <1>2, <1>3, <1>4, <1>5, <1>6

(* The extraction and the disk.                                              *)
LEMMA ExtractionKeeps ==
  ASSUME ArchiveInv, Archive!Extracts \/ Archive!Disk
  PROVE  ArchiveInv'
<1> USE DEF Archive!Cached, Archive!Async, Archive!Sync
<1>t. ArchiveTyped  BY DEF ArchiveInv
<1>f. /\ archiveCache.written \in Nat /\ archiveCache.onDisk \in Nat
      /\ archiveCache.written <= EntrySize /\ EntrySize \in Nat
      /\ archiveReader.pos \in Nat /\ archiveReader.seen \in Nat
      /\ archiveCache.inFlight \in BOOLEAN /\ archiveCache.lastErr \in BOOLEAN
  BY <1>t, CacheFields, ReaderFields, ServicesAssumption
<1>1. CASE Archive!ExtractionFails
  <2>1. /\ extraction # "ended" /\ extraction # "none" /\ extraction' = "ended"
        /\ UNCHANGED <<archive, archiveReader>>
        /\ \/ UNCHANGED archiveCache /\ archiveReader.kind = "7z"
           \/ archiveCache' = [archiveCache EXCEPT !.complete = TRUE, !.error = TRUE]
    BY <1>1 DEF Archive!ExtractionFails, Archive!Untold, Archive!SetError, Archive!Ends
  <2>2. /\ archiveCache' \in Archive!CacheType
        /\ UNCHANGED <<archiveCache.written, archiveCache.onDisk, archiveCache.inFlight, archiveCache.lastErr>>
        /\ \/ UNCHANGED <<archiveCache.complete, archiveCache.error>> /\ archiveReader.kind = "7z"
           \/ archiveCache'.complete /\ archiveCache'.error
    BY <1>t, <2>1 DEF ArchiveTyped, Archive!CacheType
  <2>3. ArchiveTyped'  BY <1>t, <2>1, <2>2 DEF ArchiveTyped, Archive!TaskType
  <2> QED  BY <2>1, <2>2, <2>3 DEF ArchiveInv, WritesCounted, PendingWrites, TaskKnown, ExtractionIsHonest
<1>2. CASE Archive!ArchiveOpened \/ Archive!WriterCloned
  <2>1. /\ extraction \in {"opening", "cloning"} /\ extraction' \in {"cloning", "copying"}
        /\ UNCHANGED <<archive, archiveCache, archiveReader>>
    BY <1>2 DEF Archive!ArchiveOpened, Archive!WriterCloned
  <2>2. ArchiveTyped'  BY <1>t, <2>1 DEF ArchiveTyped, Archive!TaskType
  <2> QED  BY <2>1, <2>2 DEF ArchiveInv, WritesCounted, PendingWrites, TaskKnown, ExtractionIsHonest
<1>3. CASE Archive!AsyncWrite
  <2>1. /\ extraction = "copying" /\ archiveReader.kind \in Archive!Async
        /\ ~archiveCache.inFlight /\ ~archiveCache.lastErr /\ archiveCache.written < EntrySize
        /\ archiveCache' = [archiveCache EXCEPT !.written = @ + 1, !.inFlight = TRUE]
        /\ UNCHANGED <<archive, extraction, archiveReader>>
    BY <1>3 DEF Archive!AsyncWrite
  <2>2. /\ archiveCache' \in Archive!CacheType
        /\ archiveCache'.written = archiveCache.written + 1 /\ archiveCache'.inFlight
        /\ UNCHANGED <<archiveCache.onDisk, archiveCache.lastErr, archiveCache.complete, archiveCache.error>>
    <3> DEFINE w == archiveCache.written + 1
               c == [archiveCache EXCEPT !.written = w]
    <3>1. w \in 0..EntrySize  BY <1>f, <2>1
    <3>2. archiveCache' = [c EXCEPT !.inFlight = TRUE]  BY <2>1
    <3> HIDE DEF w
    <3>3. /\ c \in Archive!CacheType /\ c.written = w
          /\ c.onDisk = archiveCache.onDisk /\ c.lastErr = archiveCache.lastErr
          /\ c.complete = archiveCache.complete /\ c.error = archiveCache.error
      BY <1>t, <3>1 DEF ArchiveTyped, Archive!CacheType
    <3> HIDE DEF c
    <3>4. /\ archiveCache' \in Archive!CacheType /\ archiveCache'.written = w /\ archiveCache'.inFlight
          /\ archiveCache'.onDisk = c.onDisk /\ archiveCache'.lastErr = c.lastErr
          /\ archiveCache'.complete = c.complete /\ archiveCache'.error = c.error
      BY <3>2, <3>3 DEF Archive!CacheType
    <3> QED  BY <3>3, <3>4 DEF w
  <2>3. ArchiveTyped'  BY <1>t, <2>1, <2>2 DEF ArchiveTyped
  <2> QED  BY <1>f, <2>1, <2>2, <2>3 DEF ArchiveInv, WritesCounted, PendingWrites, TaskKnown, ExtractionIsHonest
<1>4. CASE Archive!SyncWrite
  <2>1. /\ extraction = "copying" /\ archiveReader.kind \in Archive!Sync
        /\ archiveCache.written < EntrySize
        /\ archiveCache' = [archiveCache EXCEPT !.written = @ + 1, !.onDisk = @ + 1]
        /\ UNCHANGED <<archive, extraction, archiveReader>>
    BY <1>4 DEF Archive!SyncWrite
  <2>2. archiveCache.onDisk <= archiveCache.written
    BY <1>f DEF ArchiveInv, WritesCounted, PendingWrites
  <2>3. /\ archiveCache' \in Archive!CacheType
        /\ archiveCache'.written = archiveCache.written + 1
        /\ archiveCache'.onDisk = archiveCache.onDisk + 1
        /\ UNCHANGED <<archiveCache.inFlight, archiveCache.lastErr, archiveCache.complete, archiveCache.error>>
    <3> DEFINE w == archiveCache.written + 1
               d == archiveCache.onDisk + 1
               c == [archiveCache EXCEPT !.written = w]
    <3>1. w \in 0..EntrySize /\ d \in 0..EntrySize  BY <1>f, <2>1, <2>2
    <3>2. archiveCache' = [c EXCEPT !.onDisk = d]  BY <2>1
    <3> HIDE DEF w, d
    <3>3. /\ c \in Archive!CacheType /\ c.written = w
          /\ c.inFlight = archiveCache.inFlight /\ c.lastErr = archiveCache.lastErr
          /\ c.complete = archiveCache.complete /\ c.error = archiveCache.error
      BY <1>t, <3>1 DEF ArchiveTyped, Archive!CacheType
    <3> HIDE DEF c
    <3>4. /\ archiveCache' \in Archive!CacheType /\ archiveCache'.written = w /\ archiveCache'.onDisk = d
          /\ archiveCache'.inFlight = c.inFlight /\ archiveCache'.lastErr = c.lastErr
          /\ archiveCache'.complete = c.complete /\ archiveCache'.error = c.error
      BY <3>1, <3>2, <3>3 DEF Archive!CacheType
    <3> QED  BY <3>3, <3>4 DEF w, d
  <2>4. ArchiveTyped'  BY <1>t, <2>1, <2>3 DEF ArchiveTyped
  <2> QED  BY <1>f, <2>1, <2>3, <2>4 DEF ArchiveInv, WritesCounted, PendingWrites, TaskKnown, ExtractionIsHonest
<1>5. CASE Archive!ExtractionDone
  <2>1. /\ extraction = "copying" /\ extraction' = "ended" /\ UNCHANGED <<archive, archiveReader>>
        /\ archiveReader.kind = "zip" => /\ archiveCache.written = EntrySize
                                         /\ ~archiveCache.inFlight /\ ~archiveCache.lastErr
        /\ archiveCache' = [archiveCache EXCEPT !.complete = TRUE]
    BY <1>5 DEF Archive!ExtractionDone, Archive!EndOfEntry, Archive!Flushed, Archive!Finish, Archive!Ends
  <2>2. /\ archiveCache' \in Archive!CacheType /\ archiveCache'.complete
        /\ UNCHANGED <<archiveCache.written, archiveCache.onDisk, archiveCache.inFlight,
                       archiveCache.lastErr, archiveCache.error>>
    BY <1>t, <2>1 DEF ArchiveTyped, Archive!CacheType
  <2>3. ArchiveTyped'  BY <1>t, <2>1, <2>2 DEF ArchiveTyped, Archive!TaskType
  <2> QED  BY <1>f, <2>1, <2>2, <2>3 DEF ArchiveInv, WritesCounted, PendingWrites, TaskKnown, ExtractionIsHonest
<1>6. CASE Archive!WriteLands
  <2>1. /\ archiveCache.inFlight /\ UNCHANGED <<archive, extraction, archiveReader>>
        /\ archiveCache' = [archiveCache EXCEPT !.onDisk = @ + 1, !.inFlight = FALSE]
    BY <1>6 DEF Archive!WriteLands
  <2>2. archiveCache.written = archiveCache.onDisk + 1
    BY <1>f, <2>1 DEF ArchiveInv, WritesCounted, PendingWrites
  <2>3. /\ archiveCache' \in Archive!CacheType
        /\ archiveCache'.onDisk = archiveCache.onDisk + 1 /\ ~archiveCache'.inFlight
        /\ UNCHANGED <<archiveCache.written, archiveCache.lastErr, archiveCache.complete, archiveCache.error>>
    <3> DEFINE w == archiveCache.onDisk + 1
               c == [archiveCache EXCEPT !.onDisk = w]
    <3>1. w \in 0..EntrySize  BY <1>f, <2>2
    <3>2. archiveCache' = [c EXCEPT !.inFlight = FALSE]  BY <2>1
    <3> HIDE DEF w
    <3>3. /\ c \in Archive!CacheType /\ c.onDisk = w
          /\ c.written = archiveCache.written /\ c.lastErr = archiveCache.lastErr
          /\ c.complete = archiveCache.complete /\ c.error = archiveCache.error
      BY <1>t, <3>1 DEF ArchiveTyped, Archive!CacheType
    <3> HIDE DEF c
    <3>4. /\ archiveCache' \in Archive!CacheType /\ archiveCache'.onDisk = w /\ ~archiveCache'.inFlight
          /\ archiveCache'.written = c.written /\ archiveCache'.lastErr = c.lastErr
          /\ archiveCache'.complete = c.complete /\ archiveCache'.error = c.error
      BY <3>2, <3>3 DEF Archive!CacheType
    <3> QED  BY <3>3, <3>4 DEF w
  <2>4. ArchiveTyped'  BY <1>t, <2>1, <2>3 DEF ArchiveTyped
  <2>5. archiveCache.complete /\ ~archiveCache.error /\ archiveReader.kind = "zip" =>
          archiveCache.onDisk = EntrySize
    BY DEF ArchiveInv, ExtractionIsHonest
  <2> QED  BY <1>f, <2>1, <2>2, <2>3, <2>4, <2>5 DEF ArchiveInv, WritesCounted, PendingWrites, TaskKnown, ExtractionIsHonest
<1>7. CASE Archive!WriteLost
  <2>1. /\ archiveCache.inFlight /\ UNCHANGED <<archive, extraction, archiveReader>>
        /\ archiveCache' = [archiveCache EXCEPT !.lastErr = TRUE, !.inFlight = FALSE]
    BY <1>7 DEF Archive!WriteLost
  <2>2. /\ archiveCache' \in Archive!CacheType
        /\ archiveCache'.lastErr /\ ~archiveCache'.inFlight
        /\ UNCHANGED <<archiveCache.written, archiveCache.onDisk, archiveCache.complete, archiveCache.error>>
    BY <1>t, <2>1 DEF ArchiveTyped, Archive!CacheType
  <2>3. ArchiveTyped'  BY <1>t, <2>1, <2>2 DEF ArchiveTyped
  <2> QED  BY <1>f, <2>1, <2>2, <2>3 DEF ArchiveInv, WritesCounted, PendingWrites, TaskKnown, ExtractionIsHonest
<1> QED  BY <1>1, <1>2, <1>3, <1>4, <1>5, <1>6, <1>7 DEF Archive!Extracts, Archive!Disk

(* ProgressiveReader::poll_read.  Only the reader moves, and it is reading   *)
(* only after a poll that saw how much of the file is there.                 *)
LEMMA ReadKeeps ==
  ASSUME ArchiveInv, Archive!Poll \/ Archive!FileRead \/ Archive!TarRead \/ Archive!PolledAgain
  PROVE  ArchiveInv'
<1>t. ArchiveTyped  BY DEF ArchiveInv
<1>f. /\ archiveCache.onDisk \in 0..EntrySize /\ EntrySize \in Nat
      /\ archiveReader.pos \in 0..EntrySize /\ archiveReader.seen \in 0..EntrySize
      /\ archiveReader.left \in 0..EntrySize
  BY <1>t, CacheFields, ReaderFields, ServicesAssumption
<1>1. UNCHANGED <<archive, archiveCache, extraction>> /\ archiveReader.pc \in {"polling", "reading", "asleep"}
  BY DEF Archive!Poll, Archive!FileRead, Archive!TarRead, Archive!PolledAgain
<1>2. ASSUME NEW pc \in {"ended", "asleep", "failed", "polling"},
             archiveReader' = [archiveReader EXCEPT !.pc = pc]
      PROVE  archiveReader' \in Archive!ReaderType /\ archiveReader'.kind = archiveReader.kind
             /\ archiveReader'.pc \notin {"idle", "reading"}
  BY <1>t, <1>2 DEF ArchiveTyped, Archive!ReaderType
<1>3. ASSUME NEW n \in 0..EntrySize, archiveReader.pos + n <= EntrySize,
             archiveReader' = Archive!Advances(archiveReader, n)
      PROVE  archiveReader' \in Archive!ReaderType /\ archiveReader'.kind = archiveReader.kind
             /\ archiveReader'.pc \notin {"idle", "reading"}
  <2> DEFINE p == archiveReader.pos + n
             r == [archiveReader EXCEPT !.pos = p]
  <2>1. p \in 0..EntrySize  BY <1>f, <1>3
  <2>2. archiveReader' = [r EXCEPT !.pc = "ended"]  BY <1>3 DEF Archive!Advances
  <2> HIDE DEF p
  <2>3. r \in Archive!ReaderType /\ r.kind = archiveReader.kind
    BY <1>t, <2>1 DEF ArchiveTyped, Archive!ReaderType
  <2> HIDE DEF r
  <2> QED  BY <2>2, <2>3 DEF Archive!ReaderType
<1>4. /\ archiveReader' \in Archive!ReaderType /\ archiveReader'.kind = archiveReader.kind
      /\ archiveReader'.pc # "idle"
      /\ archiveReader'.pc = "reading" /\ archiveReader'.seen > 0 =>
           archiveReader'.pos + archiveReader'.seen <= archiveCache.onDisk
  <2>1. CASE Archive!Poll
    <3> DEFINE k == IF archiveCache.onDisk > archiveReader.pos
                    THEN Archive!Least(archiveCache.onDisk - archiveReader.pos, archiveReader.left)
                    ELSE 0
    <3>1. \/ \E pc \in {"ended", "asleep", "failed"} : archiveReader' = [archiveReader EXCEPT !.pc = pc]
          \/ archiveReader' = [archiveReader EXCEPT !.pc = "reading", !.seen = k]
      BY <2>1 DEF Archive!Poll, Archive!Tell, Archive!NoData
    <3>2. k \in 0..EntrySize /\ (k > 0 => archiveReader.pos + k <= archiveCache.onDisk)
      BY <1>f DEF Archive!Least
    <3> HIDE DEF k
    <3>3. CASE archiveReader' = [archiveReader EXCEPT !.pc = "reading", !.seen = k]
      BY <1>t, <3>2, <3>3 DEF ArchiveTyped, Archive!ReaderType
    <3> QED  BY <1>2, <3>1, <3>3
  <2>2. CASE Archive!FileRead
    <3>1. CASE archiveCache.error \/ archiveReader.seen = 0
      BY <1>2, <2>2, <3>1 DEF Archive!FileRead, Archive!Tell, Archive!NoData
    <3>2. CASE ~archiveCache.error /\ archiveReader.seen # 0
      <4>1. archiveReader' = Archive!Advances(archiveReader, archiveReader.seen)
            /\ archiveReader.pc = "reading"
        BY <2>2, <3>2 DEF Archive!FileRead
      <4>2. archiveReader.pos + archiveReader.seen <= EntrySize
        BY <1>f, <3>2, <4>1 DEF ArchiveInv, ExtractionIsHonest
      <4> QED  BY <1>3, <1>f, <4>1, <4>2
    <3> QED  BY <3>1, <3>2
  <2>3. CASE Archive!TarRead
    <3> DEFINE n == Archive!Least(EntrySize - archiveReader.pos, archiveReader.left)
    <3>1. n \in 0..EntrySize /\ archiveReader.pos + n <= EntrySize  BY <1>f DEF Archive!Least
    <3>2. archiveReader' = Archive!Advances(archiveReader, n)  BY <2>3 DEF Archive!TarRead
    <3> HIDE DEF n
    <3> QED  BY <1>3, <3>1, <3>2
  <2>4. CASE Archive!PolledAgain  BY <1>2, <2>4 DEF Archive!PolledAgain, Archive!Tell
  <2> QED  BY <2>1, <2>2, <2>3, <2>4
<1>5. ArchiveTyped'  BY <1>1, <1>4, <1>t DEF ArchiveTyped
<1> QED  BY <1>1, <1>4, <1>5 DEF ArchiveInv, WritesCounted, PendingWrites, TaskKnown, ExtractionIsHonest

LEMMA ArchiveKeeps == ASSUME ArchiveInv, [Archive!Next]_(Archive!vars) PROVE ArchiveInv'
<1>1. CASE UNCHANGED Archive!vars
  BY <1>1 DEF Archive!vars, ArchiveTyped, ArchiveInv, WritesCounted, PendingWrites, TaskKnown, ExtractionIsHonest
<1> QED
  BY <1>1, RequestKeeps, ExtractionKeeps, ReadKeeps
  DEF Archive!Next, Archive!Extracts, Archive!Disk

-----------------------------------------------------------------------------
(* The services side by side: a step of one leaves the others alone.        *)
LEMMA OneServiceMoves ==
  ASSUME [ServicesNext]_servicesVars
  PROVE  [Next]_vars /\ [Flight!Next]_(Flight!vars) /\ [Hls!Next]_(Hls!vars)
         /\ [Cleaner!Next]_(Cleaner!vars) /\ [Archive!Next]_(Archive!vars)
BY DEF ServicesNext, servicesVars, ArchiveNext, UsenetNext, FlightNext, CleanerNext, MemoryNext,
       HlsNext, On, flightVars, hlsVars, Flight!vars, Hls!vars, cleanerVars, Cleaner!vars,
       archiveVars, Archive!vars

(* engine.rs, get_probe_result: concurrent callers share one computation,    *)
(* however late each of them learns of its end.                              *)
THEOREM ProbesAreSingle == ServicesSpec => []OneProbeAtATime
<1>1. ServicesInit => FlightInv  BY InitFlight DEF ServicesInit
<1>2. FlightInv /\ [ServicesNext]_servicesVars => FlightInv'  BY OneServiceMoves, FlightKeeps
<1>3. FlightInv => OneProbeAtATime  BY DEF FlightInv, OneProbeAtATime
<1> QED  BY <1>1, <1>2, <1>3, PTL DEF ServicesSpec

LEMMA HlsInvariant == ServicesSpec => []HlsInv
<1>1. ServicesInit => HlsInv  BY InitHls DEF ServicesInit
<1>2. HlsInv /\ [ServicesNext]_servicesVars => HlsInv'  BY OneServiceMoves, HlsKeeps
<1> QED  BY <1>1, <1>2, PTL DEF ServicesSpec

(* hls.rs, get_stream_playlist: a player that is told the end of a list has  *)
(* been given the file to its end, for any duration and segment length.      *)
THEOREM PlaylistsReachTheEnd == ServicesSpec => []EndedMeansPlayed
<1>1. HlsInv => EndedMeansPlayed
  BY DEF HlsInv, PlayedTo, EndedMeansPlayed, Hls!EndedMeansPlayed
<1> QED  BY <1>1, HlsInvariant, PTL

(* hls.rs, TranscodeProcess: an encoder runs only for a response that is     *)
(* made or sent.                                                             *)
THEOREM EncodersAreOwned == ServicesSpec => []EncoderIsOwned
<1>1. HlsInv => EncoderIsOwned
  BY DEF HlsInv, Encoding, EncoderIsOwned, Hls!EncoderIsOwned
<1> QED  BY <1>1, HlsInvariant, PTL

(* nzb: the connections are a pool in the composition, too.                  *)
THEOREM ServicesKeepThePool ==
  ASSUME Segments \in Nat, NoClient \notin Clients PROVE ServicesSpec => IsConnectionPool
<1>1. ServicesInit => SessionInv /\ Pool!Init  BY InitSession, RefinesInit DEF ServicesInit
<1>2. SessionInv /\ [ServicesNext]_servicesVars => SessionInv' /\ [Pool!Next]_(Pool!vars)
  BY OneServiceMoves, NextKeeps, RefinesNext
<1> QED  BY <1>1, <1>2, PTL DEF ServicesSpec, IsConnectionPool, Pool!Spec

LEMMA CleanerInvariant == ServicesSpec => []CleanerInv
<1>1. ServicesInit => CleanerInv  BY InitCleaner DEF ServicesInit
<1>2. CleanerInv /\ [ServicesNext]_servicesVars => CleanerInv'  BY OneServiceMoves, CleanerKeeps
<1> QED  BY <1>1, <1>2, PTL DEF ServicesSpec

(* cache_cleaner.rs, clean_cache: a pass during which nothing was written    *)
(* leaves the files within the limit, or only files that are protected,      *)
(* could not be deleted or are larger than the limit.                        *)
THEOREM PassesFitTheLimit == ServicesSpec => PassFitsLimit
<1>1. CleanerInv =>
        [(Cleaner!PassEnds /\ cleaner.limit > 0 /\ ~dirty) =>
            \/ Cleaner!Bytes(disk) <= cleaner.limit
            \/ \A f \in disk : \/ f \in cleaner.protected \cup cleaner.stuck
                               \/ size[f] > cleaner.limit]_(Cleaner!vars)
  BY PassFits
<1> QED  BY <1>1, CleanerInvariant, PTL DEF PassFitsLimit, Cleaner!PassFitsLimit

(* archives, cache.rs: for an entry of any size, an extraction that ended     *)
(* leaves its cache marked (unless it is a 7z's), a zip entry marked without *)
(* an error is whole on the disk, and a poll reads nothing that is not yet   *)
(* there, whatever fails, lands late or is lost.                             *)
THEOREM ExtractionsAreHonest == ServicesSpec => []ExtractionIsHonest
<1>1. ServicesInit => ArchiveInv  BY InitArchive DEF ServicesInit
<1>2. ArchiveInv /\ [ServicesNext]_servicesVars => ArchiveInv'  BY OneServiceMoves, ArchiveKeeps
<1>3. ArchiveInv => ExtractionIsHonest  BY DEF ArchiveInv
<1> QED  BY <1>1, <1>2, <1>3, PTL DEF ServicesSpec
=============================================================================
