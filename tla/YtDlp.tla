-------------------------------- MODULE YtDlp --------------------------------
(***************************************************************************)
(* The copy of yt-dlp that the server keeps for itself: the warm-up task   *)
(* and the YouTube requests resolve it under one lock, and download it     *)
(* when there is none or the one there is stale.  (A copy on PATH, or the  *)
(* one STREMIO_YTDLP_PATH names, is used as it is and none is kept.)       *)
(*                                                                         *)
(* Files survive a crash, everything else is lost.  A request whose client *)
(* goes away is dropped, and its lock with it, but only at an await: the   *)
(* file is written and renamed without one.                                *)
(***************************************************************************)
EXTENDS Naturals

CONSTANTS
  Requests,
  MaxRequests  \* bound on calls of resolve

VARIABLES
  managed,   \* the managed copy: absent, fresh, stale or truncated
  staging,   \* yt-dlp.partial: absent, truncated or whole
  cached,    \* RESOLVE_LOCK's value: the managed path, or none
  lock,      \* the request that holds RESOLVE_LOCK, or none
  request,   \* each request's place, whether it tried to download, and the
             \* copy it was answered with
  calls

vars == <<managed, staging, cached, lock, request, calls>>

NoLock == "none"
Idle == [pc |-> "idle", tried |-> FALSE, copy |-> "absent"]

Goto(r, pc) == request' = [request EXCEPT ![r].pc = pc]
Answer(r, copy) == request' = [request EXCEPT ![r].pc = "answered", ![r].copy = copy]

Init ==
  /\ managed \in {"absent", "fresh", "stale"} /\ staging = "absent"
  /\ cached = FALSE /\ lock = NoLock
  /\ request = [r \in Requests |-> Idle]
  /\ calls = 0

-----------------------------------------------------------------------------
Call(r) ==
  /\ request[r].pc \in {"idle", "answered", "failed"} /\ calls < MaxRequests
  /\ request' = [request EXCEPT ![r] = [Idle EXCEPT !.pc = "asking"]]
  /\ calls' = calls + 1
  /\ UNCHANGED <<managed, staging, cached, lock>>

\* Fault: the lock covers the cached path alone.
LockUnused(r) == request[r].pc = "asking"

LockFree(r) == request[r].pc = "asking" /\ lock = NoLock

AnswerCached(r) ==
  /\ LockFree(r)
  /\ cached /\ managed # "absent"
  /\ Answer(r, managed)
  /\ UNCHANGED <<managed, staging, cached, lock, calls>>

(* discover: no copy to use, or a stale one to refresh.                    *)
StartDownload(r) ==
  /\ LockFree(r)
  /\ managed = "absent" \/ (~cached /\ managed = "stale")
  /\ lock' = r
  /\ request' = [request EXCEPT ![r].pc = "downloading", ![r].tried = TRUE]
  /\ UNCHANGED <<managed, staging, cached, calls>>

AnswerFound(r) ==
  /\ LockFree(r)
  /\ ~cached /\ managed \in {"fresh", "truncated"}
  /\ cached' = TRUE
  /\ Answer(r, managed)
  /\ UNCHANGED <<managed, staging, lock, calls>>

(* download.                                                               *)
BytesArrive(r) ==
  /\ request[r].pc = "downloading"
  /\ staging' = "truncated"
  /\ Goto(r, "writing")
  /\ UNCHANGED <<managed, cached, lock, calls>>

Written(r) ==
  /\ request[r].pc = "writing"
  /\ staging' = "whole"
  /\ Goto(r, "renaming")
  /\ UNCHANGED <<managed, cached, lock, calls>>

Renamed(r) ==
  /\ request[r].pc = "renaming"
  /\ managed' = IF staging = "whole" THEN "fresh" ELSE "truncated"
  /\ staging' = "absent"
  /\ cached' = TRUE
  /\ lock' = NoLock
  /\ Answer(r, managed')
  /\ UNCHANGED calls

(* A stale copy is used when it could not be refreshed.                    *)
DownloadFails(r) ==
  /\ request[r].pc \in {"downloading", "writing", "renaming"}
  /\ lock' = NoLock
  /\ cached' = (cached \/ managed # "absent")
  /\ IF managed = "absent" THEN Goto(r, "failed") ELSE Answer(r, managed)
  /\ UNCHANGED <<managed, staging, calls>>

Dropped(r) ==
  /\ request[r].pc \in {"asking", "downloading"}
  /\ lock' = IF lock = r THEN NoLock ELSE lock
  /\ Goto(r, "idle")
  /\ UNCHANGED <<managed, staging, cached, calls>>

-----------------------------------------------------------------------------
(* REFRESH_AFTER passes, the user removes the file, the server crashes.    *)

Ages ==
  /\ managed = "fresh" /\ managed' = "stale"
  /\ UNCHANGED <<staging, cached, lock, request, calls>>

Removed ==
  /\ managed # "absent" /\ managed' = "absent"
  /\ UNCHANGED <<staging, cached, lock, request, calls>>

Crash ==
  /\ request' = [r \in Requests |-> Idle]
  /\ cached' = FALSE /\ lock' = NoLock
  /\ UNCHANGED <<managed, staging, calls>>

Next ==
  \/ \E r \in Requests :
       \/ Call(r) \/ AnswerCached(r) \/ StartDownload(r) \/ AnswerFound(r)
       \/ BytesArrive(r) \/ Written(r) \/ Renamed(r) \/ DownloadFails(r) \/ Dropped(r)
  \/ Ages \/ Removed \/ Crash

Spec == Init /\ [][Next]_vars

-----------------------------------------------------------------------------
(* A download that is interrupted, by a crash, an error or another request,  *)
(* never leaves a truncated executable behind.                               *)
InstalledToolIsWhole == managed # "truncated"

(* The extractor is re-fetched once it goes stale: the request that is       *)
(* answered with a stale copy has tried to download another.                 *)
StaleIsRefreshed == \A r \in Requests : request[r].copy = "stale" => request[r].tried
=============================================================================
