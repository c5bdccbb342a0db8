---------------------------- MODULE StreamRequests ----------------------------
(***************************************************************************)
(* HEAD and GET of a file of a torrent (server/src/routes/stream.rs), and  *)
(* a player that asks for what it lacks, again after every cut.  Counters  *)
(* and leases of the streams are in EngineLifecycle, the reader behind the *)
(* body in PieceDelivery and MemoryTorrents: here it gives the bytes from  *)
(* its position on, or fails.                                              *)
(*                                                                         *)
(* Sizes are counted in the unit of PriorityPolicy, and a body comes one   *)
(* unit at a time.                                                         *)
(***************************************************************************)
EXTENDS PriorityPolicy, Sequences

CONSTANTS Players,
          MaxSize,       \* of a file
          FreeSpace,     \* of the cache's volume, as a refresh may find it
          DiskEngine,    \* download_engine_disk_backed: the disk engine started
          Nothing

VARIABLES
    files,      \* the torrent's files: length, a video's name, matched by the filters
    space,      \* DISK_SPACE_CACHE for the cache root
    request,    \* the request each player has under way
    response,   \* its status and headers
    body,       \* the reader's position and what take() has left, or Nothing
    held        \* what each player assembled: positions of the bytes, in order

vars == <<files, space, request, response, body, held>>

Methods == {"HEAD", "GET"}
PCs == {"none", "asked", "ranged", "ready", "answered"}

NoRequest == [pc |-> "none"]
NoAnswer == [status |-> 0]

TypeOK ==
    /\ \A i \in DOMAIN files : files[i].length \in 0..MaxSize
    /\ space \in {Nothing} \cup FreeSpace
    /\ \A p \in Players :
          /\ request[p].pc \in PCs
          /\ response[p].status \in {0, 200, 206, 404, 416, 500}
          /\ body[p] # Nothing => body[p].left \in 0..(MaxSize + 1)
          /\ held[p] \in Seq(0..MaxSize)

(* Two files, so that the choice for the index -1 matters.                  *)
Init ==
    /\ files \in {<<[length |-> a, video |-> v, match |-> m], [length |-> b, video |-> TRUE, match |-> FALSE]>> :
                      a \in {0, MaxSize}, b \in {1, MaxSize}, v \in BOOLEAN, m \in BOOLEAN}
    /\ space = Nothing
    /\ request = [p \in Players |-> NoRequest]
    /\ response = [p \in Players |-> NoAnswer]
    /\ body = [p \in Players |-> Nothing]
    /\ held = [p \in Players |-> <<>>]

-----------------------------------------------------------------------------
(* resolve_file_idx: an index, or -1 for the first file a filter matches,   *)
(* else the longest video, else the longest file; of equals the last.       *)
Longest(S) ==
    CHOOSE i \in S : \A j \in S \ {i} :
        files[j].length < files[i].length \/ (files[j].length = files[i].length /\ j < i)

Videos == {i \in DOMAIN files : files[i].video}
Matches == {i \in DOMAIN files : files[i].match}

resolve_file_idx(requested, filtered) ==
    IF requested # -1 THEN IF requested \in DOMAIN files THEN requested ELSE 0
    ELSE IF filtered /\ Matches # {} THEN CHOOSE i \in Matches : \A j \in Matches : i <= j
    ELSE Longest(IF Videos # {} THEN Videos ELSE DOMAIN files)

\* Fault: the end of a range is not cut at the end of the file.
AsAsked(m, size) == m

CutAtEnd(m, size) == Lower(m, size - 1)

(* parse_range: <<start, end>>, or <<>> where the range is refused.         *)
parse_range(range, size) ==
    CASE size = 0 \/ range.form = "bad" -> <<>>
      [] size > 0 /\ range.form = "suffix" ->
             IF range.n = 0 THEN <<>> ELSE <<Higher(size - range.n, 0), size - 1>>
      [] size > 0 /\ range.form = "from" ->
             IF range.n >= size THEN <<>> ELSE <<range.n, size - 1>>
      [] size > 0 /\ range.form = "both" ->
             IF range.n > range.m \/ range.n >= size THEN <<>> ELSE <<range.n, CutAtEnd(range.m, size)>>

Whole(size) == <<0, Higher(size - 1, 0)>>

Interval(range, size) == IF range.form = "none" THEN Whole(size) ELSE parse_range(range, size)

playback_intent_for_request(r, start, len, size) ==
    LET partial == r.range.form # "none"
    IN CASE r.priority = 255 -> "InternalProbe"
         [] r.priority = 0 -> "Background"
         [] r.priority = 1 /\ r.download ->
                IF ~partial \/ len >= size - start THEN "DownloadFull" ELSE "DownloadRange"
         [] r.priority = 1 /\ ~r.download ->
                IF is_container_metadata_request(start, len, size) THEN "ContainerMetadata"
                ELSE IF r.hls THEN IF start = 0 THEN "HlsInitial" ELSE "HlsSeek"
                ELSE IF start = 0 THEN "DirectInitial" ELSE "DirectSeek"

-----------------------------------------------------------------------------
(* The Range header: absent, n-, n-m, -n, or one that parse_range refuses.  *)
(* What a player asks for: the rest of the file, from its start or from     *)
(* where it was cut, a part of that, or a look at the tail.                 *)
Asked(p) ==
    LET n == Len(held[p])
    IN (IF n = 0 THEN {[form |-> "none"]} ELSE {})
       \cup {[form |-> "from", n |-> n], [form |-> "both", n |-> n, m |-> n + 1],
             [form |-> "suffix", n |-> 1], [form |-> "bad"]}

Ask(p) ==
    /\ request[p].pc = "none"
    /\ \E method \in Methods, requested \in {-1, 1, 3}, range \in Asked(p),
          download \in BOOLEAN, hls \in BOOLEAN, priority \in {0, 1, 255} :
          /\ download => ~hls /\ priority = 1 /\ requested = 1
          /\ priority # 1 => ~hls /\ requested = 1 /\ range.form = "none"
          /\ request' = [request EXCEPT ![p] =
                 [pc |-> "asked", method |-> method, requested |-> requested, filtered |-> TRUE,
                  range |-> range, download |-> download, hls |-> hls, priority |-> priority]]
    /\ response' = [response EXCEPT ![p] = NoAnswer]
    /\ UNCHANGED <<files, space, body, held>>

Answer(p, status) ==
    /\ response' = [response EXCEPT ![p] = [status |-> status]]
    /\ request' = [request EXCEPT ![p].pc = "answered"]

(* The engine is found or made from the magnet, which may fail; its files   *)
(* are resolved, and the range against the file.                            *)
EngineFails(p) ==
    /\ request[p].pc = "asked"
    /\ Answer(p, 500)
    /\ UNCHANGED <<files, space, body, held>>

FileOf(p) == resolve_file_idx(request[p].requested, request[p].filtered)
SizeOf(p) == files[FileOf(p)].length
Partial(p) == request[p].range.form # "none"

(* Content-Range and Content-Length, of HEAD and of GET, which leaves the   *)
(* length of an empty file 0.                                               *)
HeadLength(i) == i[2] - i[1] + 1
GetLength(p, i) == IF SizeOf(p) = 0 THEN 0 ELSE i[2] - i[1] + 1

Ranged(p) ==
    /\ request[p].pc = "asked"
    /\ IF FileOf(p) = 0 THEN Answer(p, 404)
       ELSE LET i == Interval(request[p].range, SizeOf(p))
            IN IF i = <<>> THEN Answer(p, 416)
               ELSE IF request[p].method = "HEAD"
               THEN /\ response' = [response EXCEPT ![p] =
                           [status |-> IF Partial(p) THEN 206 ELSE 200, file |-> FileOf(p),
                            start |-> i[1], end |-> i[2], length |-> HeadLength(i)]]
                    /\ request' = [request EXCEPT ![p].pc = "answered"]
               ELSE /\ request' = [request EXCEPT ![p].pc = "ranged"]
                    /\ UNCHANGED response
    /\ UNCHANGED <<files, space, body, held>>

(* available_space_for_path: a value less than three seconds old is reused. *)
SpaceExpires ==
    /\ space # Nothing
    /\ space' = Nothing
    /\ UNCHANGED <<files, request, response, body, held>>

(* ensure_download_disk_ready.  A playback is treated as partial.           *)
Required(p, existing) ==
    LET i == Interval(request[p].range, SizeOf(p))
    IN IF ~request[p].download \/ Partial(p) THEN Lower(GetLength(p, i), 512 * MB)
       ELSE SizeOf(p) - existing + 512 * MB

(* Where the check fails the request goes to state.engine, which is the     *)
(* disk engine itself where that one started (lib.rs).                      *)
DownloadStorage == IF DiskEngine THEN "disk" ELSE "memory"
EngineStorage == DownloadStorage
Storage(ready) == IF ready THEN DownloadStorage ELSE EngineStorage

WithMode(r, ready) ==
    [pc |-> "ready", method |-> r.method, requested |-> r.requested, filtered |-> r.filtered,
     range |-> r.range, download |-> r.download, hls |-> r.hls, priority |-> r.priority,
     fallback |-> ~ready, storage |-> Storage(ready)]

CheckDisk(p) ==
    /\ request[p].pc = "ranged"
    /\ IF ~DiskEngine
       THEN request' = [request EXCEPT ![p] = WithMode(@, TRUE)] /\ UNCHANGED space
       ELSE \E free \in (IF space = Nothing THEN FreeSpace ELSE {space}), existing \in {0, SizeOf(p)} :
               /\ space' = free
               /\ request' = [request EXCEPT ![p] = WithMode(@, free >= Required(p, existing))]
    /\ UNCHANGED <<files, response, body, held>>

(* The root cannot be written, or the volume is unknown.                    *)
DiskUnready(p) ==
    /\ request[p].pc = "ranged" /\ DiskEngine
    /\ request' = [request EXCEPT ![p] = WithMode(@, FALSE)]
    /\ UNCHANGED <<files, space, response, body, held>>

-----------------------------------------------------------------------------
\* Fault: only a playback seeks; a download reads from the start.
DownloadsFromStart(p, start) == IF request[p].download THEN 0 ELSE start

Sought(p, start) == start

(* get_file_with_intent gives a reader at offset 0, which seeks to where    *)
(* the range starts; take() limits the body.  An empty file is refused      *)
(* here.                                                                    *)
OpenReader(p) ==
    /\ request[p].pc = "ready"
    /\ LET i == Interval(request[p].range, SizeOf(p))
           n == GetLength(p, i)
       IN IF i[1] >= SizeOf(p) THEN Answer(p, 416) /\ UNCHANGED body
          ELSE /\ response' = [response EXCEPT ![p] =
                      [status |-> IF Partial(p) THEN 206 ELSE 200, file |-> FileOf(p),
                       start |-> i[1], end |-> i[2], length |-> n]]
               /\ body' = [body EXCEPT ![p] =
                      [pos |-> Sought(p, i[1]), left |-> n, sent |-> 0,
                       intent |-> playback_intent_for_request(request[p], i[1], n, SizeOf(p))]]
               /\ request' = [request EXCEPT ![p].pc = "answered"]
    /\ UNCHANGED <<files, space, held>>

(* No reader: start_playback failed, or the seek did.                       *)
ReaderFails(p) ==
    /\ request[p].pc = "ready"
    /\ Answer(p, 500)
    /\ UNCHANGED <<files, space, body, held>>

(* A look at the tail is not added to what the player holds.                *)
Keeps(p) == request[p].range.form # "suffix"

ReadBody(p) ==
    /\ body[p] # Nothing /\ body[p].left > 0 /\ body[p].pos < SizeOf(p)
    /\ held' = (IF Keeps(p) THEN [held EXCEPT ![p] = Append(@, body[p].pos)] ELSE held)
    /\ body' = [body EXCEPT ![p].pos = @ + 1, ![p].left = @ - 1, ![p].sent = @ + 1]
    /\ UNCHANGED <<files, space, request, response>>

(* The body ends where take() or the file does.                             *)
Ended(p) == body[p] # Nothing /\ (body[p].left = 0 \/ body[p].pos = SizeOf(p))

(* The request is over: its body has ended, failed because another file was *)
(* selected, or was dropped by the player.                                  *)
RequestOver(p) ==
    /\ request[p].pc = "answered"
    /\ request' = [request EXCEPT ![p] = NoRequest]
    /\ response' = [response EXCEPT ![p] = NoAnswer]
    /\ body' = [body EXCEPT ![p] = Nothing]
    /\ UNCHANGED <<files, space, held>>

Next ==
    \/ SpaceExpires
    \/ \E p \in Players :
          \/ Ask(p) \/ EngineFails(p) \/ Ranged(p) \/ CheckDisk(p) \/ DiskUnready(p)
          \/ OpenReader(p) \/ ReaderFails(p) \/ ReadBody(p) \/ RequestOver(p)

Spec == Init /\ [][Next]_vars

-----------------------------------------------------------------------------
(* A file that a player assembled over any number of requests, cut          *)
(* anywhere, holds every byte at its place.                                 *)
ResumedFileIsWhole == \A p \in Players : \A k \in 1..Len(held[p]) : held[p][k] = k - 1

(* A body that ends has given as many bytes as Content-Length announced,    *)
(* which are those of Content-Range.                                        *)
AnnouncedIsSent ==
    \A p \in Players :
        Ended(p) => /\ body[p].sent = response[p].length
                    /\ body[p].pos = response[p].end + 1

DeliveredAsAsked == ResumedFileIsWhole /\ AnnouncedIsSent
=============================================================================
