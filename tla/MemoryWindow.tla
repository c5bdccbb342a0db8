----------------------------- MODULE MemoryWindow -----------------------------
(***************************************************************************)
(* The window of a memory-backed reader (enginefs backend/libtorrent       *)
(* stream.rs): three places submit one, set_priorities when the position   *)
(* reaches another piece, reassert_serving_window when bytes were served   *)
(* and reprioritize_blocking_piece when a poll waits, each with a guard of *)
(* its own against doing so again.  Each submits what the policy decides   *)
(* for the swarm of that moment.                                           *)
(***************************************************************************)
EXTENDS PriorityPolicy

CONSTANTS First, Last,    \* pieces of the file
          Length,         \* bytes of a piece
          Rates, Peers,   \* of the torrent, as the decisions may find them
          Cache           \* cache_config.size

VARIABLES
    intent,           \* playback_intent
    subordinate,      \* playback_permit.is_subordinate()
    pos,              \* piece of current_pos; Last + 1 at the end of the file
    have,             \* pieces the torrent has verified
    cached,           \* those of them in the piece cache
    sent,             \* first_read_logged
    seek_type,        \* what the next set_priorities takes the move for
    last_priorities_piece,
    last_served_replan_piece,
    last_blocking_piece,
    due,              \* BLOCKED_REPLAN_INTERVAL_MS passed since last_blocking_priority
    waits,            \* consecutive_waits; 3 stands for more
    window,           \* the reader's window as the coordinator tracks it
    waiting           \* the piece the last poll waits for, or -1

reader == <<sent, seek_type, last_priorities_piece, last_served_replan_piece,
            last_blocking_piece, due, waits>>
vars == <<intent, subordinate, pos, have, cached, reader, window, waiting>>

Pieces == First..Last
NoDeadline == -1
SeekTypes == {"Sequential", "InitialPlayback", "UserScrub", "ContainerMetadata"}

TypeOK ==
    /\ intent \in PlaybackIntent /\ subordinate \in BOOLEAN
    /\ pos \in First..(Last + 1)
    /\ have \in SUBSET Pieces /\ cached \in SUBSET have
    /\ sent \in BOOLEAN /\ due \in BOOLEAN /\ seek_type \in SeekTypes
    /\ {last_priorities_piece, last_served_replan_piece, last_blocking_piece, waiting}
           \subseteq First..(Last + 1) \cup {-1}
    /\ waits \in 0..3
    /\ DOMAIN window \in SUBSET Pieces

is_background_reader == subordinate \/ intent \in {"InternalProbe", "Background"}

(* replace_priority_window: probes and subordinate readers set no deadline. *)
(* The jitter of the stream is left out.                                    *)
Submitted(f) ==
    IF is_background_reader THEN [p \in DOMAIN f |-> [f[p] EXCEPT !.deadline = NoDeadline]] ELSE f

Context(i, piece, s, w, rate, peers, pressure) ==
    [intent |-> i, current |-> piece, first |-> First, last |-> Last, length |-> Length,
     size |-> (Last - First + 1) * Length, bitrate |-> -1, rate |-> rate, peers |-> peers,
     cache |-> Cache, pressure |-> pressure, waits |-> w, sent |-> s]

(* What the policy may decide, by the swarm and the native memory in use.   *)
Decisions(i, piece, s, w) ==
    {Submitted(decide(Context(i, piece, s, w, rate, peers, pressure))) :
        rate \in Rates, peers \in Peers, pressure \in BOOLEAN}

Opened(start) ==
    {"DownloadFull", "DownloadRange", "ContainerMetadata", "InternalProbe", "Background"}
    \cup (IF start = First THEN Initial \cup Seeks ELSE Seeks)

(* get_file_reader, and the seek of the route to where the request starts.  *)
Init ==
    /\ pos \in Pieces /\ intent \in Opened(pos)
    /\ subordinate \in BOOLEAN
    /\ have \in {{}, {First}} /\ cached = {}
    /\ sent = FALSE /\ due = TRUE /\ waits = 0 /\ waiting = -1
    /\ seek_type = (IF intent = "ContainerMetadata" THEN "ContainerMetadata"
                    ELSE IF intent \in Initial THEN "InitialPlayback" ELSE "UserScrub")
    /\ last_priorities_piece = pos
    /\ last_served_replan_piece = -1 /\ last_blocking_piece = -1
    /\ window \in Decisions(intent, pos, FALSE, 0)

-----------------------------------------------------------------------------
priority_replan_intent ==
    IF intent \in {"ContainerMetadata", "InternalProbe", "Background"} THEN intent
    ELSE seek_for_same_family(intent)

intent_of(seek) ==
    CASE seek = "ContainerMetadata" -> "ContainerMetadata"
      [] seek = "UserScrub" -> priority_replan_intent
      [] OTHER -> IF sent THEN sequential_after_first_byte(intent) ELSE intent

\* Fault: a piece that the window holds is taken for prioritized.
InWindow(piece) == piece \in DOMAIN window

Prioritized(piece) == piece = last_priorities_piece

(* set_priorities: the windows it may leave.                                *)
SetWindows(piece, seek) ==
    IF Prioritized(piece) THEN {window} ELSE Decisions(intent_of(seek), piece, sent, waits)

SeekTypeAfter(piece, seek) == IF Prioritized(piece) THEN seek ELSE "Sequential"

(* reassert_serving_window: the windows after those of set_priorities.      *)
ServingWindows(piece, s, w, before) ==
    IF is_background_reader \/ last_served_replan_piece = piece THEN before
    ELSE Decisions(priority_replan_intent, Lower(piece + 1, Last), s, w)

Served(piece) == IF is_background_reader THEN last_served_replan_piece ELSE piece

-----------------------------------------------------------------------------
(* poll_read where the torrent lacks the piece.                             *)
WaitForPiece ==
    /\ pos \in Pieces \ have
    /\ LET w == Lower(waits + 1, 3)
       IN /\ waits' = w
          /\ IF last_blocking_piece = pos /\ ~due
             THEN /\ window' \in SetWindows(pos, seek_type)
                  /\ UNCHANGED <<last_blocking_piece, due>>
             ELSE /\ window' \in Decisions(priority_replan_intent, pos, sent, w)
                  /\ last_blocking_piece' = pos /\ due' = FALSE
    /\ last_priorities_piece' = pos
    /\ seek_type' = SeekTypeAfter(pos, seek_type)
    /\ waiting' = pos
    /\ UNCHANGED <<intent, subordinate, pos, have, cached, sent, last_served_replan_piece>>

(* poll_read where the piece lies in the storage: it is copied to the cache, *)
(* and the poll comes again.                                                *)
CopyPiece ==
    /\ pos \in have \ cached
    /\ cached' = cached \cup {pos}
    /\ window' \in ServingWindows(pos, sent, waits, SetWindows(pos, seek_type))
    /\ last_served_replan_piece' = Served(pos)
    /\ last_priorities_piece' = pos
    /\ seek_type' = SeekTypeAfter(pos, seek_type)
    /\ waiting' = pos
    /\ UNCHANGED <<intent, subordinate, pos, have, sent, last_blocking_piece, due, waits>>

(* poll_read gives some of a cached piece, or its last bytes.               *)
Serve ==
    /\ pos \in cached
    /\ sent' = TRUE /\ waits' = 0
    /\ pos' \in {pos, pos + 1}
    /\ window' \in ServingWindows(pos, TRUE, 0, SetWindows(pos, seek_type))
    /\ last_served_replan_piece' = Served(pos)
    /\ last_priorities_piece' = pos
    /\ seek_type' = SeekTypeAfter(pos, seek_type)
    /\ waiting' = -1
    /\ UNCHANGED <<intent, subordinate, have, cached, last_blocking_piece, due>>

(* start_seek and poll_complete.  The waits for the piece before are kept.  *)
Seek ==
    /\ \E p \in First..(Last + 1) :
          LET seek == IF intent = "ContainerMetadata" THEN "ContainerMetadata" ELSE "UserScrub"
          IN /\ pos' = p
             /\ window' \in SetWindows(p, seek)
             /\ seek_type' = SeekTypeAfter(p, seek)
             /\ last_priorities_piece' = p
    /\ waiting' = -1
    /\ UNCHANGED <<intent, subordinate, have, cached, sent, last_served_replan_piece,
                   last_blocking_piece, due, waits>>

IntervalPasses ==
    /\ ~due /\ due' = TRUE
    /\ UNCHANGED <<intent, subordinate, pos, have, cached, sent, seek_type,
                   last_priorities_piece, last_served_replan_piece, last_blocking_piece,
                   waits, window, waiting>>

PieceVerified ==
    /\ \E p \in Pieces \ have :
          /\ have' = have \cup {p}
          /\ window' = [x \in DOMAIN window \ {p} |-> window[x]]
    /\ UNCHANGED <<intent, subordinate, pos, cached, reader, waiting>>

Next == WaitForPiece \/ CopyPiece \/ Serve \/ Seek \/ IntervalPasses \/ PieceVerified

Spec == Init /\ [][Next]_vars

-----------------------------------------------------------------------------
(* A reader that waits has asked for the piece it waits for, a foreground   *)
(* reader at the highest priority and with no delay, whatever was submitted *)
(* since the position last reached that piece and whichever guard held.     *)
UrgentWhenBlocked ==
    waiting \in Pieces \ have =>
        /\ waiting \in DOMAIN window
        /\ ~is_background_reader => window[waiting] = [priority |-> 7, deadline |-> 0]
=============================================================================
