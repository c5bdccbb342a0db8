-------------------------- MODULE PauseConfirmation --------------------------
(***************************************************************************)
(* The second half of perform_pause: the torrent was told to pause, and    *)
(* its status is polled, at the latest every 50 ms, until it has been      *)
(* silent for PAUSE_QUIET_CONFIRMATION or PAUSE_CONFIRM_TIMEOUT is over.   *)
(*                                                                         *)
(* An alert of the torrent ends a pause between two polls early.  Time is  *)
(* counted in ticks, and nothing bounds how late a poll comes.  Totals of  *)
(* libtorrent may move while it counts no peer: it counts a disconnecting  *)
(* one no more, and a metadata load resumes the torrent without waiting    *)
(* for the operation mutex.                                                *)
(***************************************************************************)
EXTENDS Naturals

CONSTANTS
  PAUSE_QUIET_CONFIRMATION, PAUSE_CONFIRM_TIMEOUT,   \* in ticks
  MaxPeers, MaxBytes                                 \* bounds on the status

VARIABLES
  now,      \* ticks since the wait began
  status,   \* what libtorrent answers to pause_status
  moved,    \* when a byte was last moved
  silence,  \* PauseSilenceTracker; stable_since is {} or {t}
  wait      \* polling, silent (Ok), failed (Err)

vars == <<now, status, moved, silence, wait>>

Statuses == [is_paused: BOOLEAN, num_peers: 0..MaxPeers,
             total_downloaded: 0..MaxBytes, total_uploaded: 0..MaxBytes]

Init ==
  /\ now = 0 /\ moved = 0
  /\ status \in {s \in Statuses : s.total_downloaded = 0 /\ s.total_uploaded = 0}
  /\ silence = [stable_since |-> {}, total_downloaded |-> 0, total_uploaded |-> 0]
  /\ wait = "polling"

-----------------------------------------------------------------------------
(* PauseSilenceTracker.                                                    *)

Busy == ~status.is_paused \/ status.num_peers # 0

\* Fault: only downloads are compared.
DownloadsChanged ==
  silence.stable_since # {} /\ silence.total_downloaded # status.total_downloaded

TotalsChanged ==
  /\ silence.stable_since # {}
  /\ \/ silence.total_downloaded # status.total_downloaded
     \/ silence.total_uploaded # status.total_uploaded

Starts == ~Busy /\ (silence.stable_since = {} \/ TotalsChanged)

Observed ==
  CASE Busy   -> [silence EXCEPT !.stable_since = {}]
    [] Starts -> [stable_since     |-> {now},
                  total_downloaded |-> status.total_downloaded,
                  total_uploaded   |-> status.total_uploaded]
    [] OTHER  -> silence

Silent ==
  /\ ~Busy /\ ~Starts
  /\ \A since \in silence.stable_since : now - since >= PAUSE_QUIET_CONFIRMATION

-----------------------------------------------------------------------------
(* wait_for_pause_confirmation.                                            *)

Poll ==
  /\ wait = "polling"
  /\ silence' = Observed
  /\ wait' = CASE Silent                       -> "silent"
               [] now >= PAUSE_CONFIRM_TIMEOUT -> "failed"
               [] OTHER                        -> "polling"
  /\ UNCHANGED <<now, status, moved>>

\* The torrent is gone, libtorrent reports a file error, or the alerts close.
Fails ==
  /\ wait = "polling" /\ wait' = "failed"
  /\ UNCHANGED <<now, status, moved, silence>>

Tick ==
  /\ wait = "polling" /\ now <= PAUSE_CONFIRM_TIMEOUT
  /\ now' = now + 1
  /\ UNCHANGED <<status, moved, silence, wait>>

-----------------------------------------------------------------------------
(* libtorrent, while the wait polls it.                                    *)

PeerLeaves ==
  /\ wait = "polling" /\ status.num_peers > 0
  /\ status' = [status EXCEPT !.num_peers = @ - 1]
  /\ UNCHANGED <<now, moved, silence, wait>>

PeerJoins ==
  /\ wait = "polling" /\ ~status.is_paused /\ status.num_peers < MaxPeers
  /\ status' = [status EXCEPT !.num_peers = @ + 1]
  /\ UNCHANGED <<now, moved, silence, wait>>

PausedOrResumed ==
  /\ wait = "polling"
  /\ status' = [status EXCEPT !.is_paused = ~@]
  /\ UNCHANGED <<now, moved, silence, wait>>

Transfers ==
  /\ wait = "polling"
  /\ moved' = now
  /\ \/ /\ status.total_downloaded < MaxBytes
        /\ status' = [status EXCEPT !.total_downloaded = @ + 1]
     \/ /\ status.total_uploaded < MaxBytes
        /\ status' = [status EXCEPT !.total_uploaded = @ + 1]
  /\ UNCHANGED <<now, silence, wait>>

Next == Poll \/ Fails \/ Tick \/ PeerLeaves \/ PeerJoins \/ PausedOrResumed \/ Transfers

Spec == Init /\ [][Next]_vars

-----------------------------------------------------------------------------
(* A torrent is recorded as paused only when it moved no byte, down or up,   *)
(* for the whole quiet interval before, whatever it did between the polls.   *)
ConfirmedIsSilent ==
  wait = "silent" =>
      /\ status.is_paused /\ status.num_peers = 0
      /\ now - moved >= PAUSE_QUIET_CONFIRMATION
=============================================================================
