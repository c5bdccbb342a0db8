----------------------------- MODULE HlsSession -----------------------------
(***************************************************************************)
(* HLS: the playlists and segments of one file (server/src/routes/hls.rs   *)
(* over enginefs/src/hls.rs), asked for by a player that follows them.     *)
(* The server keeps nothing between two requests but the probe result; a   *)
(* segment is an ffmpeg process whose output is the answer's body.         *)
(*                                                                         *)
(* Time is in units; SegmentLength of them are the four seconds of a       *)
(* segment.                                                                *)
(***************************************************************************)
EXTENDS Integers

CONSTANTS SegmentLength,
          MaxDuration,     \* of the file
          Tracks           \* renditions the player fetches: video, audio

VARIABLES
    duration,   \* of the file, as a complete probe finds it
    hardware,   \* with_hwaccel chose a hardware encoder
    probe,      \* probe_cache: what is known of the file
    player,     \* the player, for each track
    encode      \* the request for a segment, for each track

vars == <<duration, hardware, probe, player, encode>>

(* Only a result that names streams and a duration is kept.                 *)
Probes == {"none", "ready"}

PlayerPCs == {"new", "master", "reload", "listed", "ended", "failed", "closed"}
EncodePCs == {"none", "asked", "probed", "started", "crashed", "sending",
             "sent", "error"}

TypeOK ==
    /\ duration \in 1..MaxDuration
    /\ hardware \in BOOLEAN
    /\ probe \in Probes
    /\ player \in [Tracks -> [pc : PlayerPCs, index : 0..MaxDuration, time : 0..MaxDuration]]
    /\ encode \in [Tracks -> [pc : EncodePCs, hw : BOOLEAN, running : 0..2]]

Idle == [pc |-> "none", hw |-> FALSE, running |-> 0]

Init ==
    /\ duration \in 1..MaxDuration
    /\ hardware \in BOOLEAN
    /\ probe = "none"
    /\ player = [k \in Tracks |-> [pc |-> "new", index |-> 0, time |-> 0]]
    /\ encode = [k \in Tracks |-> Idle]

-----------------------------------------------------------------------------
(* get_segments.                                                            *)
SegmentCount(d) == (d + SegmentLength - 1) \div SegmentLength

SegmentsOf(d) ==
    [i \in 0..SegmentCount(d) - 1 |->
        [start |-> i * SegmentLength,
         dur   |-> IF (i + 1) * SegmentLength > d THEN d - i * SegmentLength ELSE SegmentLength]]

(* What a probe brings: its error, a result without a duration, one without *)
(* streams, or a complete one, which alone is kept.                         *)
Outcomes == IF probe = "ready" THEN {"ready"} ELSE {"error", "timeless", "streamless", "ready"}

Kept(outcome) == probe' = IF outcome = "ready" THEN "ready" ELSE probe

Found(outcome) == SegmentsOf(IF outcome = "timeless" THEN 0 ELSE duration)

Goto(k, pc) == player' = [player EXCEPT ![k].pc = pc]

(* get_master_playlist: whatever the probe found is listed.                 *)
GetMaster(k) ==
    /\ player[k].pc = "new"
    /\ \E outcome \in Outcomes :
          /\ Kept(outcome)
          /\ Goto(k, IF outcome = "error" THEN "failed" ELSE "master")
    /\ UNCHANGED <<duration, hardware, encode>>

\* Fault: a playlist without segments is closed like any other.
ClosedWhenEmpty == "ended"

(* An empty playlist has no ENDLIST: the player loads it again.             *)
WhenEmpty == "reload"

(* get_stream_playlist.                                                     *)
GetPlaylist(k) ==
    /\ player[k].pc \in {"master", "reload"}
    /\ \E outcome \in Outcomes :
          /\ Kept(outcome)
          /\ Goto(k, IF outcome = "error" THEN "failed"
                     ELSE IF Found(outcome) = <<>> THEN WhenEmpty ELSE "listed")
    /\ UNCHANGED <<duration, hardware, encode>>

(* The player asks for the segments that its playlist lists, in order.      *)
Listed(k) == player[k].pc = "listed" /\ player[k].index < SegmentCount(duration)

Ask(k) ==
    /\ Listed(k) /\ encode[k].pc = "none"
    /\ encode' = [encode EXCEPT ![k].pc = "asked", ![k].hw = (hardware /\ k = "video")]
    /\ UNCHANGED <<duration, hardware, probe, player>>

EndOfPlaylist(k) ==
    /\ player[k].pc = "listed" /\ player[k].index = SegmentCount(duration)
    /\ Goto(k, "ended")
    /\ UNCHANGED <<duration, hardware, probe, encode>>

-----------------------------------------------------------------------------
(* get_segment.  The engine may have been made anew, and the file is then   *)
(* probed again; a segment that the result does not have is not found.      *)
(* Whether ffmpeg reads the file or the stream's URL is left out.           *)
Refuse(k) == encode' = [encode EXCEPT ![k].pc = "error"]

FindSegment(k) ==
    /\ encode[k].pc = "asked"
    /\ \E outcome \in Outcomes :
          /\ Kept(outcome)
          /\ IF outcome # "error" /\ player[k].index \in DOMAIN Found(outcome)
             THEN encode' = [encode EXCEPT ![k].pc = "probed"]
             ELSE Refuse(k)
    /\ UNCHANGED <<duration, hardware, player>>

(* transcode_video_segment, transcode_audio_segment.                        *)
SpawnEncoder(k) ==
    /\ encode[k].pc = "probed"
    /\ encode' = [encode EXCEPT ![k].running = @ + 1,
                                ![k].pc = IF encode[k].hw THEN "started" ELSE "sending"]
    /\ UNCHANGED <<duration, hardware, probe, player>>

(* A hardware encoder that cannot be spawned is replaced by software.       *)
SpawnFails(k) ==
    /\ encode[k].pc = "probed"
    /\ IF encode[k].hw THEN encode' = [encode EXCEPT ![k].hw = FALSE] ELSE Refuse(k)
    /\ UNCHANGED <<duration, hardware, probe, player>>

(* The startup of a hardware encoder is watched for fifty milliseconds.     *)
StartupWatched(k) ==
    /\ encode[k].pc = "started"
    /\ encode' = [encode EXCEPT ![k].pc = "sending"]
    /\ UNCHANGED <<duration, hardware, probe, player>>

(* It exits with an error, or its state cannot be read: software is tried.  *)
StartupCrashed(k) ==
    /\ encode[k].pc = "started"
    /\ encode' = [encode EXCEPT ![k].pc = "crashed", ![k].hw = FALSE]
    /\ UNCHANGED <<duration, hardware, probe, player>>

\* Fault: the process of the first try is left to itself.
LeftRunning(e) == e.running + 1

(* The second process is spawned while the first is still held, and then    *)
(* assigned in its place, which drops the first one (start_kill).           *)
Replaced(e) == e.running

(* Spawning and replacing have no await between them.                       *)
Respawn(k) ==
    /\ encode[k].pc = "crashed"
    /\ encode' = [encode EXCEPT ![k].running = Replaced(encode[k]), ![k].pc = "sending"]
    /\ UNCHANGED <<duration, hardware, probe, player>>

(* The answer is an error, and the first process is dropped with it.        *)
RespawnFails(k) ==
    /\ encode[k].pc = "crashed"
    /\ encode' = [encode EXCEPT ![k].running = 0, ![k].pc = "error"]
    /\ UNCHANGED <<duration, hardware, probe, player>>

(* The end of the output ends the body, whatever ffmpeg's exit status is.   *)
EncoderExits(k) ==
    /\ encode[k].pc = "sending"
    /\ encode' = [encode EXCEPT ![k].running = 0, ![k].pc = "sent"]
    /\ UNCHANGED <<duration, hardware, probe, player>>

-----------------------------------------------------------------------------
(* The player appends a segment where the one before ended.                 *)
Appended(k) ==
    LET segment == SegmentsOf(duration)[player[k].index]
    IN IF segment.start = player[k].time THEN segment.start + segment.dur ELSE player[k].time

TakeSegment(k) ==
    /\ encode[k].pc = "sent"
    /\ player' = [player EXCEPT ![k].time = Appended(k), ![k].index = @ + 1]
    /\ encode' = [encode EXCEPT ![k] = Idle]
    /\ UNCHANGED <<duration, hardware, probe>>

SegmentFails(k) ==
    /\ encode[k].pc = "error"
    /\ Goto(k, "failed")
    /\ encode' = [encode EXCEPT ![k] = Idle]
    /\ UNCHANGED <<duration, hardware, probe>>

(* The player is closed, or jumps: the response under way is dropped, and   *)
(* TranscodeProcess kills its process.                                      *)
ClosePlayer(k) ==
    /\ player[k].pc \in {"new", "master", "reload", "listed"}
    /\ Goto(k, "closed")
    /\ encode' = [encode EXCEPT ![k] = Idle]
    /\ UNCHANGED <<duration, hardware, probe>>

Jump(k, i) ==
    /\ player[k].pc = "listed" /\ i < SegmentCount(duration) /\ i # player[k].index
    /\ player' = [player EXCEPT ![k].index = i, ![k].time = i * SegmentLength]
    /\ encode' = [encode EXCEPT ![k] = Idle]
    /\ UNCHANGED <<duration, hardware, probe>>

(* The engine was removed, and its probe result with it.                    *)
EngineRemoved ==
    /\ probe = "ready"
    /\ probe' = "none"
    /\ UNCHANGED <<duration, hardware, player, encode>>

Next ==
    \/ EngineRemoved
    \/ \E k \in Tracks :
          \/ GetMaster(k) \/ GetPlaylist(k) \/ Ask(k) \/ EndOfPlaylist(k)
          \/ FindSegment(k) \/ SpawnEncoder(k) \/ SpawnFails(k) \/ StartupWatched(k)
          \/ StartupCrashed(k) \/ Respawn(k) \/ RespawnFails(k) \/ EncoderExits(k) \/ TakeSegment(k) \/ SegmentFails(k) \/ ClosePlayer(k)
          \/ \E i \in 0..MaxDuration : Jump(k, i)

Spec == Init /\ [][Next]_vars

-----------------------------------------------------------------------------
(* A player that comes to the end of a playlist has been given the file to  *)
(* its end, each segment starting where the last one ended: the playlist of *)
(* a file whose metadata is still arriving does not end ("An empty VOD      *)
(* playlist with ENDLIST makes clients stop", get_stream_playlist).         *)
EndedMeansPlayed ==
    \A k \in Tracks : player[k].pc = "ended" => player[k].time = duration

(* An encoder is held only for a response that is being made or sent, and   *)
(* such a response holds exactly one: whatever falls back, is refused,      *)
(* dropped or jumped away from kills its process (Drop for                  *)
(* TranscodeProcess).                                                       *)
EncoderIsOwned ==
    \A k \in Tracks :
        encode[k].running = IF encode[k].pc \in {"started", "crashed", "sending"} THEN 1 ELSE 0
=============================================================================
