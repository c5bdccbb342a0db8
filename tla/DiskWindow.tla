------------------------------ MODULE DiskWindow ------------------------------
(***************************************************************************)
(* The window of a disk-backed reader (enginefs backend/libtorrent         *)
(* disk_stream.rs): the pieces it asks the coordinator for as it waits,    *)
(* serves bytes and seeks, and the pieces pinned for the container's       *)
(* index, which a tail reader or the inspector adds (metadata_pins.rs).    *)
(*                                                                         *)
(* Positions are pieces of the file.  The coordinator's own first window   *)
(* is apply_hot_window of playback.rs.                                     *)
(***************************************************************************)
EXTENDS PriorityPolicy

CONSTANTS First, Last,    \* pieces of the file
          Length,         \* bytes of a piece
          Indexed         \* pieces of the index, pinned by the inspector

VARIABLES
    intent,         \* playback_intent
    subordinate,    \* playback_permit.is_subordinate()
    pos,            \* piece of current_pos; Last + 1 at the end of the file
    have,           \* pieces the torrent has verified
    sent,           \* first_read_logged
    prioritized,    \* last_prioritized_piece
    due,            \* BLOCKED_REPLAN_INTERVAL_MS passed since the last replan
    window,         \* the reader's window as the coordinator tracks it
    waiting,        \* the piece the last poll waits for, or -1
    pins            \* MetadataPinRegistry, for this torrent

vars == <<intent, subordinate, pos, have, sent, prioritized, due, window, waiting, pins>>

Pieces == First..Last
NoDeadline == -1
Windows == UNION {[S -> [priority : {1, 2, 7}, deadline : Int]] : S \in SUBSET Pieces}

TypeOK ==
    /\ intent \in PlaybackIntent /\ subordinate \in BOOLEAN
    /\ pos \in First..(Last + 1) /\ have \in SUBSET Pieces
    /\ sent \in BOOLEAN /\ due \in BOOLEAN
    /\ prioritized \in Pieces \cup {-1} /\ waiting \in Pieces \cup {-1}
    /\ DOMAIN window \in SUBSET Pieces
    /\ pins \in SUBSET Pieces

NoneElse(f, none) == IF none THEN [p \in DOMAIN f |-> [f[p] EXCEPT !.deadline = NoDeadline]] ELSE f

(* What get_file_reader makes of an intent: one that starts at offset 0 is  *)
(* initial, any other a seek.                                               *)
Opened(start) ==
    {"DownloadFull", "DownloadRange", "ContainerMetadata", "InternalProbe", "Background"}
    \cup (IF start = First THEN Initial \cup Seeks ELSE Seeks)

HotWindow(i, start) ==
    NoneElse(decide([intent |-> i, current |-> start, first |-> First, last |-> Last,
                     length |-> Length, size |-> (Last - First + 1) * Length, bitrate |-> -1,
                     rate |-> 0, peers |-> 0, cache |-> 0, pressure |-> FALSE, waits |-> 0,
                     sent |-> FALSE]),
             i \in {"InternalProbe", "Background"})

Init ==
    /\ pos \in Pieces /\ intent \in Opened(pos)
    /\ subordinate \in BOOLEAN
    /\ have \in {{}, {First}}
    /\ sent = FALSE /\ due = FALSE
    /\ prioritized = -1 /\ waiting = -1
    /\ window = HotWindow(intent, pos)
    /\ pins = {}

-----------------------------------------------------------------------------
is_background_reader == subordinate \/ intent \in {"InternalProbe", "Background"}

priority_intent(s) == IF s THEN sequential_after_first_byte(intent) ELSE intent

active_forward_window(s) ==
    LET i == priority_intent(s)
        n == disk_backed_forward_window_pieces_for(i, Length)
    IN IF s THEN n ELSE IF i \in Initial THEN Lower(n, 3) ELSE IF i \in Seeks THEN 1 ELSE n

forward_window_end(piece, count) == Lower(Last, piece + count - 1)

Missing(piece, s) == (piece..forward_window_end(piece, active_forward_window(s))) \ have

(* Pins that verified are dropped; the others join a window they are not in. *)
WithPins(f, pinned) ==
    [p \in DOMAIN f \cup pinned |-> IF p \in DOMAIN f THEN f[p] ELSE [priority |-> 7, deadline |-> 0]]

(* The deadlines grow by a step per piece, plus a jitter of the stream.     *)
Ahead(piece, missing) ==
    [p \in missing |->
        [priority |-> 7,
         deadline |-> (p - piece) * playback_deadline_step_ms(Length, -1, 0)]]

Behind(piece) ==
    [p \in {piece} \ have |->
        [priority |-> IF intent = "Background" THEN 1 ELSE 2, deadline |-> NoDeadline]]

AlreadyPrioritized(piece) == prioritized = piece

(* prioritize_from, with s whether a byte was served.                       *)
prioritize_from(piece, s) ==
    IF piece \notin Pieces \/ AlreadyPrioritized(piece)
    THEN UNCHANGED <<prioritized, window, pins>>
    ELSE /\ prioritized' = piece
         /\ IF is_background_reader
            THEN window' = Behind(piece) /\ UNCHANGED pins
            ELSE LET pinned == (IF priority_intent(s) = "ContainerMetadata"
                                THEN pins \cup Missing(piece, s) ELSE pins) \ have
                 IN /\ pins' = pinned
                    /\ window' = WithPins(Ahead(piece, Missing(piece, s)), pinned)

-----------------------------------------------------------------------------
(* wait_for_piece: the piece at the position is missing.                    *)
WaitForPiece ==
    /\ pos \in Pieces \ have
    /\ waiting' = pos
    /\ IF due /\ ~is_background_reader
       THEN /\ prioritized' = pos /\ due' = FALSE
            /\ LET pinned == (IF ~AlreadyPrioritized(pos) /\ priority_intent(sent) = "ContainerMetadata"
                              THEN pins \cup Missing(pos, sent) ELSE pins) \ have
               IN pins' = pinned /\ window' = WithPins(Ahead(pos, Missing(pos, sent)), pinned)
       ELSE prioritize_from(pos, sent) /\ UNCHANGED due
    /\ UNCHANGED <<intent, subordinate, pos, have, sent>>

(* A read gives some of the piece's bytes, or the last of them.             *)
Serve ==
    /\ pos \in Pieces \cap have
    /\ sent' = TRUE
    /\ pos' \in {pos, pos + 1}
    /\ waiting' = -1
    /\ prioritize_from(pos + 1, TRUE)
    /\ UNCHANGED <<intent, subordinate, have, due>>

AfterSeek == -1

(* start_seek; the position is cut to the file.                             *)
Seek ==
    /\ \E p \in First..(Last + 1) : pos' = p
    /\ prioritized' = AfterSeek
    /\ waiting' = -1
    /\ UNCHANGED <<intent, subordinate, have, sent, due, window, pins>>

IntervalPasses ==
    /\ ~due /\ due' = TRUE
    /\ UNCHANGED <<intent, subordinate, pos, have, sent, prioritized, window, waiting, pins>>

(* A verified piece leaves the windows of all readers.                      *)
PieceVerified ==
    /\ \E p \in Pieces \ have :
          /\ have' = have \cup {p}
          /\ window' = [x \in DOMAIN window \ {p} |-> window[x]]
    /\ UNCHANGED <<intent, subordinate, pos, sent, prioritized, due, waiting, pins>>

PinTail ==
    /\ pins' = pins \cup (Indexed \ have)
    /\ pins' # pins
    /\ UNCHANGED <<intent, subordinate, pos, have, sent, prioritized, due, window, waiting>>

Next == WaitForPiece \/ Serve \/ Seek \/ IntervalPasses \/ PieceVerified \/ PinTail

Spec == Init /\ [][Next]_vars

-----------------------------------------------------------------------------
(* A reader that waits has asked for the piece it waits for, and a          *)
(* foreground reader for it before every other: prioritize_from skips the   *)
(* window it believes to be in force.                                       *)
BlockedPieceIsWanted ==
    waiting \in Pieces \ have =>
        /\ waiting \in DOMAIN window
        /\ ~is_background_reader => window[waiting] = [priority |-> 7, deadline |-> 0]

=============================================================================
