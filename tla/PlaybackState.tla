--------------------------- MODULE PlaybackState ---------------------------
(***************************************************************************)
(* TorrentPlaybackState of the libtorrent playback coordinator: the record *)
(* one torrent's playback is decided on, and the transitions its methods   *)
(* make.  Every operator here runs under the entry's `state` mutex, so one *)
(* step of the coordinator applies one of them atomically.                 *)
(*                                                                         *)
(* Instants are abstracted to what the code asks of them: an HLS activity  *)
(* is fresh or older than HLS_ACTIVITY_TTL, an idle deadline is ahead or   *)
(* behind.  The cancellation token of a generation is cancelled exactly    *)
(* when a newer generation exists, so it needs no field.                   *)
(***************************************************************************)
EXTENDS Integers

CONSTANTS
  Files,    \* indices of the torrent's files
  NoFile,   \* Option::None for a file index
  NoVector, \* Option::None for an acknowledged priority vector
  MaxGen    \* bound on the generation counter (u64 in the code)

ASSUME StateAssumption ==
  /\ Files # {}
  /\ NoFile \notin Files
  /\ MaxGen \in Nat

Gens      == 0..MaxGen
Phases    == {"Active", "PausePending", "PausedIdle"}
\* libtorrent file priorities: skip, normal, its default, top
Priority  == {0, 1, 4, 7}
Vector    == [Files -> Priority]
Zeros     == [f \in Files |-> 0]

\* desired_priorities: everything but the chosen file is switched off.
DesiredPriorities(f, p) == [g \in Files |-> IF g = f THEN p ELSE 0]

StateType ==
  [ phase      : Phases,
    gen        : Gens,
    sel        : Files \cup {NoFile},   \* selected_file
    prio       : Priority,              \* selected_priority
    direct     : [Gens -> Nat],         \* direct_permits
    foreground : [Gens -> Nat],         \* foreground_permits
    meta       : Nat,                   \* metadata_permits
    hls        : {"none", "fresh", "stale"},  \* hls_last_activity
    deadline   : {"none", "armed", "due"},    \* idle_deadline
    ack        : Vector \cup {NoVector} ]     \* acknowledged_priorities

NewState ==
  [ phase |-> "PausedIdle", gen |-> 0, sel |-> NoFile, prio |-> 0,
    direct |-> [g \in Gens |-> 0], foreground |-> [g \in Gens |-> 0],
    meta |-> 0, hls |-> "none", deadline |-> "none", ack |-> NoVector ]

-----------------------------------------------------------------------------
ForegroundActive(s) == s.foreground[s.gen] > 0

HasActivity(s) ==
  \/ \E g \in Gens : s.direct[g] > 0
  \/ s.meta > 0
  \/ s.hls = "fresh"

ScheduleIdle(s) ==
  [s EXCEPT !.deadline = IF HasActivity(s) THEN "none"
                         ELSE IF s.hls = "stale" THEN "due" ELSE "armed"]

\* A request for the file and priority already selected joins the generation.
Changes(s, f, p) == s.sel # f \/ s.prio # p
GenFor(s, f, p)  == IF Changes(s, f, p) THEN s.gen + 1 ELSE s.gen

Subordinate(s, f, direct, fg) ==
  direct /\ ~fg /\ s.sel = f /\ ForegroundActive(s)

Bump(counts, g, by) == [counts EXCEPT ![g] = counts[g] + by]

Select(s, f, p, direct, hls, network, fg) ==
  LET g == GenFor(s, f, p)
  IN  [s EXCEPT !.gen        = g,
                !.sel        = f,
                !.prio       = p,
                !.direct     = Bump(s.direct, g, IF direct THEN 1 ELSE 0),
                !.foreground = Bump(s.foreground, g, IF direct /\ fg THEN 1 ELSE 0),
                !.hls        = IF hls THEN "fresh" ELSE s.hls,
                !.phase      = IF network THEN "Active" ELSE s.phase,
                !.deadline   = "none"]

BeginPause(s) ==
  [s EXCEPT !.gen = s.gen + 1, !.sel = NoFile, !.prio = 0, !.hls = "none",
            !.deadline = "none", !.phase = "PausePending"]

KeepActiveForSeeding(s, g) ==
  IF s.gen = g /\ s.phase = "PausePending" THEN [s EXCEPT !.phase = "Active"] ELSE s

\* The part of ReleasePlayback that touches the permit counters.
Decremented(counts, g) ==
  [counts EXCEPT ![g] = IF counts[g] > 0 THEN counts[g] - 1 ELSE 0]

\* Fault: no saturation, and a background permit counted as a foreground one.
ReleasePermitUnchecked(s, g, fg) ==
  ScheduleIdle([s EXCEPT !.direct[g] = @ - 1, !.foreground[g] = @ - 1])

ReleasePermit(s, g, fg) ==
  ScheduleIdle([s EXCEPT !.direct = Decremented(s.direct, g),
                         !.foreground = IF fg THEN Decremented(s.foreground, g)
                                        ELSE s.foreground])

ReleaseMetadata(s) ==
  ScheduleIdle([s EXCEPT !.meta = IF s.meta > 0 THEN s.meta - 1 ELSE 0])
=============================================================================
