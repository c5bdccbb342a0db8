---------------------------- MODULE PriorityPolicy ----------------------------
(***************************************************************************)
(* The priority policy (enginefs/src/backend/priorities.rs): which pieces  *)
(* a reader asks for ahead of its position, with which priority and        *)
(* deadline.  It keeps no state: every definition is a function of the     *)
(* intent of the request, the position, the swarm and the caches.          *)
(*                                                                         *)
(* Sizes are counted in a unit of which MB is a mebibyte; the reason text  *)
(* is left out.                                                            *)
(***************************************************************************)
EXTENDS Integers

CONSTANTS
    MB,        \* units in a mebibyte
    I32        \* values of an i32: a cast keeps the remainder modulo I32

ASSUME MBAssumption  == MB \in Nat \ {0}
ASSUME I32Assumption == I32 \in Nat /\ I32 >= 512 /\ I32 % 2 = 0

MIN_STARTUP_BYTES == 4 * MB
MAX_STARTUP_WINDOW_BYTES == 4 * MB
MAX_SEEK_HOT_WINDOW_BYTES == 128 * MB
MAX_WARM_WINDOW_BYTES == 256 * MB
MAX_CONTAINER_METADATA_WINDOW_BYTES == 16 * MB
MAX_DOWNLOAD_RANGE_WINDOW_BYTES == 32 * MB
SMALL_FILE_BYTES == 64 * MB

MAX_STARTUP_PIECES == 4
MAX_SMALL_FILE_STARTUP_PIECES == 32
MIN_STARTUP_PIECES == 2
MIN_SEEK_HOT_PIECES == 24
SEEK_IMMEDIATE_PIECES == 12
MAX_HOT_PIECES == 96
MAX_WARM_PIECES == 192

Lower(a, b)  == IF a <= b THEN a ELSE b
Higher(a, b) == IF a >= b THEN a ELSE b
Clamp(a, low, high) == Lower(Higher(a, low), high)
CeilDiv(a, b) == (a + b - 1) \div b

(* The cast of an unsigned number to i32.                                   *)
AsI32(n) == LET m == n % I32 IN IF 2 * m >= I32 THEN m - I32 ELSE m
MaxI32 == I32 \div 2 - 1

-----------------------------------------------------------------------------
container_metadata_start(size) ==
    IF size < SMALL_FILE_BYTES THEN (size * 95) \div 100
    ELSE Lower(size - 10 * MB, (size * 95) \div 100)

is_container_metadata_request(start, len, size) ==
    /\ start > 0 /\ size > 0 /\ len > 0
    /\ len <= MAX_CONTAINER_METADATA_WINDOW_BYTES
    /\ start >= container_metadata_start(size)

DirectIntents == {"DirectInitial", "DirectSeek", "DirectSequential"}
HlsIntents    == {"HlsInitial", "HlsSeek", "HlsSequential"}
Downloads     == {"DownloadFull", "DownloadRange"}
PlaybackIntent == DirectIntents \cup HlsIntents \cup Downloads
                  \cup {"ContainerMetadata", "InternalProbe", "Background"}

Initial    == {"DirectInitial", "HlsInitial"}
Seeks      == {"DirectSeek", "HlsSeek"}
Sequential == {"DirectSequential", "HlsSequential"}

sequential_after_first_byte(intent) ==
    IF intent \in DirectIntents THEN "DirectSequential"
    ELSE IF intent \in HlsIntents THEN "HlsSequential" ELSE intent

seek_for_same_family(intent) ==
    IF intent \in HlsIntents THEN "HlsSeek"
    ELSE IF intent \in Downloads THEN "DownloadRange" ELSE "DirectSeek"

-----------------------------------------------------------------------------
pieces_for_bytes(bytes, length) ==
    IF bytes = 0 THEN 0 ELSE Clamp(CeilDiv(bytes, length), 1, MaxI32)

cap_pieces_by_bytes(pieces, length, bytes) ==
    IF pieces <= 0 \/ bytes = 0 THEN 0
    ELSE Lower(pieces, Higher(pieces_for_bytes(bytes, length), 1))

(* The window of the disk-backed reader: a count of pieces, capped by bytes. *)
disk_backed_forward_window_pieces(intent) ==
    CASE intent = "DownloadFull" -> 64
      [] intent = "DownloadRange" -> 8
      [] intent \in Initial -> MAX_STARTUP_PIECES
      [] intent \in {"DirectSeek", "DirectSequential"} -> 32
      [] intent \in {"HlsSeek", "HlsSequential", "ContainerMetadata"} -> 16
      [] intent \in {"InternalProbe", "Background"} -> 1

forward_window_bytes(intent) ==
    CASE intent = "DownloadFull" -> MAX_WARM_WINDOW_BYTES
      [] intent = "DownloadRange" -> MAX_DOWNLOAD_RANGE_WINDOW_BYTES
      [] intent \in Initial -> MAX_STARTUP_WINDOW_BYTES
      [] intent \in Seeks \cup Sequential -> MAX_SEEK_HOT_WINDOW_BYTES
      [] intent \in {"ContainerMetadata", "InternalProbe", "Background"} ->
             MAX_CONTAINER_METADATA_WINDOW_BYTES

disk_backed_forward_window_pieces_for(intent, length) ==
    cap_pieces_by_bytes(disk_backed_forward_window_pieces(intent), length,
                        forward_window_bytes(intent))

(* Milliseconds per piece, at the slower of the media's and the swarm's     *)
(* rate; a rate of 0 is unknown.                                            *)
effective_rate(bitrate, rate) ==
    IF bitrate > 0 /\ rate > 0 THEN Lower(bitrate, rate)
    ELSE IF bitrate > 0 THEN bitrate
    ELSE IF rate > 0 THEN rate ELSE MB

playback_deadline_step_ms(length, bitrate, rate) ==
    Clamp(CeilDiv(length * 1000, effective_rate(bitrate, rate)), 500, 30000)

-----------------------------------------------------------------------------
(* PlaybackPriorityPolicy::decide, for a context                            *)
(*   [intent, current, first, last, length, size, bitrate, rate, peers,     *)
(*    cache, pressure, waits, sent]                                         *)
(* with length the bytes of a piece, bitrate -1 when none is known, and     *)
(* pressure whether the memory pressure is high.                            *)
valid(ctx) == ctx.length # 0 /\ ctx.current >= ctx.first /\ ctx.last >= ctx.first

max_cache_pieces(ctx) ==
    IF ctx.cache > 0 THEN AsI32(Higher(ctx.cache \div ctx.length, 1)) ELSE MAX_HOT_PIECES

remaining_pieces(ctx) == ctx.last - ctx.current + 1

(* 10 seconds of media; the ratio of rate and bitrate is 3, 1.5 or 1.       *)
ten_seconds(ctx) == AsI32(Higher((ctx.bitrate * 10) \div ctx.length, 1))

by_rate(ctx) ==
    IF ctx.bitrate > 0
    THEN IF ctx.rate >= 3 * ctx.bitrate THEN 96
         ELSE IF 2 * ctx.rate >= 3 * ctx.bitrate THEN 48
         ELSE IF ctx.rate >= ctx.bitrate THEN 32 ELSE MIN_SEEK_HOT_PIECES
    ELSE IF ctx.rate > 10 * MB THEN 96
         ELSE IF ctx.rate > 5 * MB THEN 48
         ELSE IF ctx.rate > MB THEN MIN_SEEK_HOT_PIECES ELSE 16

dynamic_hot_window(ctx) ==
    LET hot == IF ctx.bitrate > 0 THEN Higher(by_rate(ctx), ten_seconds(ctx)) ELSE by_rate(ctx)
    IN IF ctx.peers < 3 THEN Lower(hot, MIN_SEEK_HOT_PIECES) ELSE hot

(* The window before the first byte of a file that starts to play.          *)
startup_bytes(ctx) ==
    LET wanted == IF ctx.bitrate >= 0 THEN Higher(ctx.bitrate * 10, MIN_STARTUP_BYTES)
                  ELSE IF ctx.size > 0 /\ ctx.size <= SMALL_FILE_BYTES
                  THEN Lower(ctx.size, MAX_STARTUP_WINDOW_BYTES)
                  ELSE MIN_STARTUP_BYTES
    IN Lower(Higher(wanted, ctx.length), Higher(MAX_STARTUP_WINDOW_BYTES, ctx.length))

max_startup_pieces(ctx) ==
    IF ctx.bitrate < 0 /\ ctx.size <= SMALL_FILE_BYTES
    THEN Clamp(pieces_for_bytes(Lower(ctx.size, MAX_STARTUP_WINDOW_BYTES), ctx.length),
               1, MAX_SMALL_FILE_STARTUP_PIECES)
    ELSE MAX_STARTUP_PIECES

startup_pieces(ctx) ==
    Clamp(AsI32(CeilDiv(startup_bytes(ctx), ctx.length)),
          Higher(Lower(MIN_STARTUP_PIECES, max_startup_pieces(ctx)), 1),
          max_startup_pieces(ctx))

hls_cap(ctx, hot) == IF ctx.intent \in HlsIntents THEN Lower(hot, 48) ELSE hot

blocked_hot(ctx) ==
    LET hot == Higher(dynamic_hot_window(ctx), MIN_SEEK_HOT_PIECES)
    IN IF ctx.waits >= 3 THEN Lower(hot * 2, MAX_HOT_PIECES) ELSE hls_cap(ctx, hot)

(* Pieces wanted <<immediate, hot, warm>> by intent.                        *)
wanted(ctx) ==
    CASE ctx.intent \in Initial /\ ~ctx.sent ->
             <<Lower(startup_pieces(ctx), MAX_STARTUP_PIECES), startup_pieces(ctx), 0>>
      [] ctx.intent \in Sequential \/ (ctx.intent \in Initial /\ ctx.sent) ->
             <<2, hls_cap(ctx, dynamic_hot_window(ctx)), 32>>
      [] ctx.intent = "DownloadFull" -> <<2, 16, 0>>
      [] ctx.intent = "DownloadRange" -> <<1, 4, 0>>
      [] ctx.intent \in Seeks /\ ~ctx.sent -> <<1, 1, 0>>
      [] ctx.intent \in Seeks /\ ctx.sent ->
             <<IF ctx.waits >= 3 THEN Lower(2 * SEEK_IMMEDIATE_PIECES, blocked_hot(ctx))
               ELSE SEEK_IMMEDIATE_PIECES, blocked_hot(ctx), 32>>
      [] ctx.intent = "ContainerMetadata" -> <<1, 2, 0>>
      [] ctx.intent = "InternalProbe" -> <<0, 2, 0>>
      [] ctx.intent = "Background" -> <<0, 4, 0>>

hot_byte_cap(ctx) ==
    IF ctx.intent \in Initial /\ ctx.sent THEN MAX_SEEK_HOT_WINDOW_BYTES
    ELSE forward_window_bytes(ctx.intent)

warm_byte_cap(intent) ==
    IF intent \in DirectIntents \cup HlsIntents \cup {"DownloadFull"}
    THEN MAX_WARM_WINDOW_BYTES ELSE 0

under_pressure(ctx, hot) ==
    IF ctx.pressure THEN Lower(hot, IF ctx.intent \in HlsIntents THEN 16 ELSE MIN_SEEK_HOT_PIECES)
    ELSE hot

hot_window(ctx) ==
    Lower(Lower(Clamp(cap_pieces_by_bytes(under_pressure(ctx, wanted(ctx)[2]), ctx.length,
                                          hot_byte_cap(ctx)), 0, MAX_HOT_PIECES),
                max_cache_pieces(ctx)),
          remaining_pieces(ctx))

warm_window(ctx) ==
    Lower(Lower(Clamp(IF ctx.pressure \/ ctx.intent \in {"Background", "InternalProbe"} THEN 0
                      ELSE cap_pieces_by_bytes(wanted(ctx)[3], ctx.length, warm_byte_cap(ctx.intent)),
                      0, MAX_WARM_PIECES),
                max_cache_pieces(ctx) - hot_window(ctx)),
          remaining_pieces(ctx) - hot_window(ctx))

immediate_pieces(ctx) == Higher(Lower(wanted(ctx)[1], hot_window(ctx)), 0)

target_window(ctx) == hot_window(ctx) + warm_window(ctx)

(* assignment_for: the piece at a distance from the current one.  Immediate *)
(* and hot pieces differ in their band only.                                *)
assignment_for(ctx, distance) ==
    LET step == playback_deadline_step_ms(ctx.length, ctx.bitrate, ctx.rate)
    IN CASE ctx.intent = "ContainerMetadata" ->
                [priority |-> 7, deadline |-> distance * step]
         [] ctx.intent = "InternalProbe" ->
                [priority |-> 1, deadline |-> 10000 + distance * step]
         [] ctx.intent = "Background" ->
                [priority |-> 1, deadline |-> 30000 + distance * step]
         [] OTHER -> IF distance < hot_window(ctx)
                     THEN [priority |-> 7, deadline |-> distance * step]
                     ELSE [priority |-> 2, deadline |-> 10000 + distance * step]

(* The assignments, by piece; the loop stops at the last piece of the file. *)
(* A negative window, which a cast that wraps may give, panics in the code  *)
(* and assigns nothing here.                                                *)
assigned(ctx) ==
    IF valid(ctx)
    THEN {p \in ctx.first..ctx.last : p >= ctx.current /\ p - ctx.current < target_window(ctx)}
    ELSE {}

decide(ctx) == [p \in assigned(ctx) |-> assignment_for(ctx, p - ctx.current)]
=============================================================================
