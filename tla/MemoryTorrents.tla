--------------------------- MODULE MemoryTorrents ---------------------------
(***************************************************************************)
(* The memory-only mode of the libtorrent backend, which the server falls  *)
(* back to: the pieces live in the storages of memory_storage.cpp, verified *)
(* ones are copied into the piece cache (piece_cache.rs), and the readers  *)
(* of stream.rs poll that cache, its files on the disk and the storages.   *)
(*                                                                         *)
(* Libtorrent numbers its storages; the Rust side knows torrents by their  *)
(* hashes, and a storage gets its hash from whoever labels "the last       *)
(* unlabeled one".  One piece and one reader per torrent are modelled; the *)
(* prefetch of the pieces ahead is left out.                               *)
(***************************************************************************)
EXTENDS Naturals, Sequences, FiniteSets, FiniteSetsExt

CONSTANTS Torrents,
          Nothing,        \* no label, no data
          DiskCache,      \* disk_cache_enabled with a bounded memory cache
          MaxLosses       \* bound: evictions, removals and restarts

VARIABLES
    session,    \* what libtorrent has of each torrent
    storages,   \* memory_disk_io.m_torrents, in the order of its index
    verified,   \* torrents whose piece libtorrent has verified
    alerts,     \* piece_finished alerts the pump has not served
    moka,       \* PieceCacheManager.cache
    writer,     \* what a background write of the piece cache holds
    file,       \* the piece's file under .piece_cache
    clearing,   \* torrents out of the session whose caches are not cleared yet
    reader,     \* LibtorrentFileStream
    losses      \* bound

vars == <<session, storages, verified, alerts, moka, writer, file, clearing, reader, losses>>
native == <<session, storages, verified>>
caches == <<moka, writer, file>>

(* A piece: whose bytes, and whether all of them.                           *)
Data == [owner : Torrents, whole : BOOLEAN]
Some == Data \cup {Nothing}

Storage == [owner : Torrents, label : Torrents \cup {Nothing}, has : BOOLEAN]

ReaderType ==
    [pc        : {"none", "open", "served", "cut", "failed"},
     cancelled : BOOLEAN,      \* playback_permit.is_cancelled()
     requested : BOOLEAN,      \* requested_piece_via_api has the piece
     local     : Some,         \* cached_piece_data
     miss      : BOOLEAN,      \* disk_lookup_miss
     lookup    : {"none", "running", "disk", "found", "missing"},
     found     : Some]         \* what the task of disk_lookup returned

TypeOK ==
    /\ session \in [Torrents -> {"absent", "added", "stored"}]
    /\ storages \in Seq(Storage)
    /\ verified \in SUBSET Torrents
    /\ alerts \in SUBSET Torrents
    /\ {moka, writer, file} \subseteq [Torrents -> Some]
    /\ clearing \in SUBSET Torrents
    /\ reader \in [Torrents -> ReaderType]
    /\ losses \in 0..MaxLosses

NoReader == [pc |-> "none", cancelled |-> FALSE, requested |-> FALSE, local |-> Nothing,
             miss |-> FALSE, lookup |-> "none", found |-> Nothing]

Everywhere(x) == [t \in Torrents |-> x]

Init ==
    /\ session = Everywhere("absent")
    /\ storages = <<>> /\ verified = {} /\ alerts = {}
    /\ moka = Everywhere(Nothing) /\ writer = Everywhere(Nothing) /\ file = Everywhere(Nothing)
    /\ clearing = {}
    /\ reader = Everywhere(NoReader)
    /\ losses = 0

-----------------------------------------------------------------------------
(* The storages.                                                            *)
Unlabeled == {i \in DOMAIN storages : storages[i].label = Nothing}

(* label_last_unlabeled_storage, called under the hash of any torrent that  *)
(* is being polled, opened, given trackers or reported on.                  *)
Labelled(t) ==
    IF Unlabeled = {} THEN storages
    ELSE [storages EXCEPT ![Max(Unlabeled)].label = t]

Holding(sts, t) == {i \in DOMAIN sts : sts[i].label = t /\ sts[i].has}

(* memory_read_piece_direct: the first storage with that hash.              *)
DirectRead(sts, t) ==
    IF Holding(sts, t) = {} THEN Nothing
    ELSE [owner |-> sts[Min(Holding(sts, t))].owner, whole |-> TRUE]

-----------------------------------------------------------------------------
(* Libtorrent makes a storage once it knows the metadata.                   *)
AddTorrent(t) ==
    /\ session[t] = "absent"
    /\ session' = [session EXCEPT ![t] = "added"]
    /\ UNCHANGED <<storages, verified, alerts, caches, clearing, reader, losses>>

NewStorage(t) ==
    /\ session[t] = "added"
    /\ session' = [session EXCEPT ![t] = "stored"]
    /\ storages' = Append(storages, [owner |-> t, label |-> Nothing, has |-> FALSE])
    /\ UNCHANGED <<verified, alerts, caches, clearing, reader, losses>>

(* Its blocks are written and hashed; a write to a storage that was erased  *)
(* is an error.                                                             *)
PieceVerified(t) ==
    /\ t \notin verified
    /\ \E i \in DOMAIN storages :
          /\ storages[i].owner = t
          /\ storages' = [storages EXCEPT ![i].has = TRUE]
    /\ verified' = verified \cup {t}
    /\ alerts' = alerts \cup {t}
    /\ UNCHANGED <<session, caches, clearing, reader, losses>>

-----------------------------------------------------------------------------
(* The piece cache.  put_piece_now spawns the write to the disk.            *)
Put(t, data) ==
    /\ moka' = [moka EXCEPT ![t] = data]
    /\ writer' = IF DiskCache THEN [writer EXCEPT ![t] = data] ELSE writer

(* The pump copies a verified piece; if the read raced, readers try again.  *)
AlertServed(t) ==
    /\ t \in alerts
    /\ alerts' = alerts \ {t}
    /\ storages' = Labelled(t)
    /\ LET data == DirectRead(storages', t)
       IN IF data # Nothing THEN Put(t, data) ELSE UNCHANGED <<moka, writer>>
    /\ UNCHANGED <<session, verified, file, clearing, reader, losses>>

(* tokio::fs::write empties the file, then fills it.                        *)
WriteStarts(t) ==
    /\ writer[t] # Nothing
    /\ file[t] # Nothing => file[t].whole
    /\ file' = [file EXCEPT ![t] = [writer[t] EXCEPT !.whole = FALSE]]
    /\ UNCHANGED <<native, alerts, moka, writer, clearing, reader, losses>>

WriteEnds(t) ==
    /\ writer[t] # Nothing /\ file[t] # Nothing /\ ~file[t].whole
    /\ file' = [file EXCEPT ![t] = writer[t]]
    /\ writer' = [writer EXCEPT ![t] = Nothing]
    /\ UNCHANGED <<native, alerts, moka, clearing, reader, losses>>

(* Capacity, or five minutes without an access.                             *)
Evict(t) ==
    /\ moka[t] # Nothing /\ losses < MaxLosses
    /\ moka' = [moka EXCEPT ![t] = Nothing]
    /\ losses' = losses + 1
    /\ UNCHANGED <<native, alerts, writer, file, clearing, reader>>

-----------------------------------------------------------------------------
(* get_file_reader, after the coordinator let the reader through.           *)
OpenReader(t) ==
    /\ session[t] = "stored" /\ reader[t].pc = "none"
    /\ storages' = Labelled(t)
    /\ reader' = [reader EXCEPT ![t].pc = "open"]
    /\ UNCHANGED <<session, verified, alerts, caches, clearing, losses>>

Superseded(t) ==
    /\ reader[t].pc = "open" /\ reader[t].cancelled
    /\ reader' = [reader EXCEPT ![t].pc = "failed"]
    /\ UNCHANGED <<native, alerts, caches, clearing, losses>>

(* The client goes away; the lookup is aborted.                             *)
CloseReader(t) ==
    /\ reader[t].pc # "none"
    /\ reader' = [reader EXCEPT ![t] = NoReader]
    /\ UNCHANGED <<native, alerts, caches, clearing, losses>>

(* start_seek, to another place in the piece.                               *)
Seek(t) ==
    /\ reader[t].pc \in {"open", "served"} /\ reader[t].local # Nothing
    /\ reader' = [reader EXCEPT ![t] = [@ EXCEPT !.pc = "open", !.local = Nothing, !.miss = FALSE,
                                                 !.lookup = "none", !.found = Nothing]]
    /\ UNCHANGED <<native, alerts, caches, clearing, losses>>

Polls(t) == reader[t].pc = "open" /\ ~reader[t].cancelled

(* Bytes past the end of a piece that was cut short read as nothing: the    *)
(* end of the file.                                                         *)
Serving(r, data, pc) ==
    [r EXCEPT !.requested = FALSE, !.local = data,
              !.pc = IF data.whole THEN "served" ELSE pc]

(* poll_read, in the order of its sources: the piece it holds, the hot      *)
(* cache, one lookup on the disk at a time, the storage.                    *)
ServeLocal(t) ==
    /\ Polls(t) /\ reader[t].local # Nothing
    /\ storages' = Labelled(t)
    /\ \E pc \in {"served", "cut"} :
          reader' = [reader EXCEPT ![t] = Serving(@, @.local, pc)]
    /\ UNCHANGED <<session, verified, alerts, caches, clearing, losses>>

ServeCached(t) ==
    /\ Polls(t) /\ reader[t].local = Nothing /\ moka[t] # Nothing
    /\ storages' = Labelled(t)
    /\ \E pc \in {"served", "cut"} :
          reader' = [reader EXCEPT ![t] = [Serving(@, moka[t], pc) EXCEPT !.miss = FALSE]]
    /\ UNCHANGED <<session, verified, alerts, caches, clearing, losses>>

NotHeld(t) == Polls(t) /\ reader[t].local = Nothing /\ moka[t] = Nothing

(* The task that get_piece runs in: memory first, ...                       *)
LookupMemory(t) ==
    /\ reader[t].lookup = "running"
    /\ reader' = [reader EXCEPT ![t].found = moka[t],
                                ![t].lookup = IF moka[t] # Nothing THEN "found"
                                              ELSE IF DiskCache THEN "disk" ELSE "missing"]
    /\ UNCHANGED <<native, alerts, caches, clearing, losses>>

(* ... then the disk.  What was read, whole or cut short, is cached, over   *)
(* whatever was cached meanwhile.                                           *)
LookupDisk(t) ==
    /\ reader[t].lookup = "disk"
    /\ moka' = [moka EXCEPT ![t] = IF file[t] # Nothing THEN file[t] ELSE @]
    /\ reader' = [reader EXCEPT ![t].lookup = IF file[t] # Nothing THEN "found" ELSE "missing",
                                ![t].found = file[t]]
    /\ UNCHANGED <<native, alerts, writer, file, clearing, losses>>

LookupEnds(t) == LookupMemory(t) \/ LookupDisk(t)

(* The lookup found the piece: the next poll serves it.                     *)
TakeLookup(t) ==
    /\ NotHeld(t) /\ reader[t].lookup = "found"
    /\ storages' = Labelled(t)
    /\ reader' = [reader EXCEPT ![t] = [@ EXCEPT !.lookup = "none", !.miss = FALSE,
                                                 !.local = reader[t].found, !.found = Nothing]]
    /\ UNCHANGED <<session, verified, alerts, caches, clearing, losses>>

\* Fault: a piece that was read once is not read again.
ReadOnce(t) == ~reader[t].requested

(* At once, or when it is still missing 250 ms after it was read.           *)
ReadsAgain(t) == TRUE

(* A poll looks on the disk once, and once more after it read the storage.  *)
AfterMiss(r) ==
    [r EXCEPT !.miss = @ \/ r.lookup = "missing",
              !.lookup = IF @ = "missing" THEN "none"
                         ELSE IF @ = "none" /\ ~r.miss THEN "running" ELSE @]

(* The piece is not held: have_piece, and a read of the storage; the retry  *)
(* timer brings the next poll.                                              *)
PollStorage(t) ==
    /\ NotHeld(t) /\ reader[t].lookup # "found"
    /\ storages' = Labelled(t)
    /\ LET data == IF t \in verified /\ ReadsAgain(t) THEN DirectRead(storages', t) ELSE Nothing
           next == AfterMiss(reader[t])
       IN IF data = Nothing
          THEN /\ reader' = [reader EXCEPT ![t] = next]
               /\ UNCHANGED <<moka, writer>>
          ELSE /\ reader' = [reader EXCEPT ![t] =
                    [next EXCEPT !.requested = TRUE, !.miss = @ /\ reader[t].requested]]
               /\ Put(t, data)
    /\ UNCHANGED <<session, verified, alerts, file, clearing, losses>>

-----------------------------------------------------------------------------
(* remove_torrent: the session and its storage first, then the permits, the *)
(* caches and the storages with that label.  Libtorrent's alerts stay.      *)
Without(key, t) == SelectSeq(storages, LAMBDA st : st[key] # t)

LeaveSession(t) ==
    /\ session[t] # "absent" /\ losses < MaxLosses
    /\ losses' = losses + 1
    /\ session' = [session EXCEPT ![t] = "absent"]
    /\ verified' = verified \ {t}
    /\ storages' = Without("owner", t)
    /\ clearing' = clearing \cup {t}
    /\ UNCHANGED <<alerts, caches, reader>>

(* The directory goes in the background; a write under way makes it again.  *)
ClearTorrent(t) ==
    /\ t \in clearing
    /\ clearing' = clearing \ {t}
    /\ reader' = [reader EXCEPT ![t].cancelled = (@ \/ reader[t].pc = "open")]
    /\ moka' = [moka EXCEPT ![t] = Nothing]
    /\ file' = [file EXCEPT ![t] = IF writer[t] = Nothing THEN Nothing ELSE @]
    /\ storages' = Without("label", t)
    /\ UNCHANGED <<session, verified, alerts, writer, losses>>

(* The process ends and starts again with the files it left.                *)
Restart ==
    /\ losses < MaxLosses
    /\ losses' = losses + 1
    /\ session' = Everywhere("absent")
    /\ storages' = <<>> /\ verified' = {} /\ alerts' = {}
    /\ moka' = Everywhere(Nothing) /\ writer' = Everywhere(Nothing)
    /\ clearing' = {}
    /\ reader' = Everywhere(NoReader)
    /\ UNCHANGED file

Poll(t) == ServeLocal(t) \/ ServeCached(t) \/ TakeLookup(t) \/ PollStorage(t)

Next ==
    \/ Restart
    \/ \E t \in Torrents :
        \/ AddTorrent(t) \/ NewStorage(t) \/ PieceVerified(t) \/ AlertServed(t)
        \/ WriteStarts(t) \/ WriteEnds(t) \/ Evict(t)
        \/ OpenReader(t) \/ Superseded(t) \/ CloseReader(t) \/ Seek(t)
        \/ ServeLocal(t) \/ ServeCached(t) \/ LookupEnds(t) \/ TakeLookup(t) \/ PollStorage(t)
        \/ LeaveSession(t) \/ ClearTorrent(t)

(* Retry timers fire and polls are driven; lookups and the pump proceed.    *)
Fairness ==
    \A t \in Torrents : /\ WF_vars(Poll(t)) /\ WF_vars(Superseded(t))
                        /\ WF_vars(LookupEnds(t)) /\ WF_vars(AlertServed(t))

Spec == Init /\ [][Next]_vars /\ Fairness

-----------------------------------------------------------------------------
Starved(t) ==
    /\ reader[t].pc = "open" /\ t \in verified
    /\ DirectRead(storages, t) # Nothing

(* No reader waits for ever for a piece that its storage holds: whatever is *)
(* evicted between the copy and the poll is read again (poll_read, "still   *)
(* missing from cache after 250ms").                                        *)
MemoryReaderServed == \A t \in Torrents : []<>~Starved(t)
=============================================================================
