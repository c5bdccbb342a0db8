---------------------------- MODULE ArchiveStream ----------------------------
(***************************************************************************)
(* Playing a file inside an archive: server/src/routes/archive.rs over     *)
(* server/src/archives.  A request opens the entry, which for every format *)
(* but tar makes a ProgressiveCache (cache.rs) and a detached task that    *)
(* extracts the entry into its temporary file; the body of the answer      *)
(* polls a ProgressiveReader on that growing file.  Streams share nothing  *)
(* with each other, so one session and one stream are modelled.            *)
(*                                                                         *)
(* The unit of data is one chunk of the writer.                            *)
(***************************************************************************)
EXTENDS Naturals

CONSTANT Size   \* chunks in the entry

Kinds  == {"zip", "rar", "7z", "tgz", "tar", "nzb"}
Async  == {"zip", "rar"}   \* written through CacheWriter, a tokio File
Sync   == {"7z", "tgz"}    \* written through SyncCacheWriter, a std File
Cached == Async \cup Sync

VARIABLES
    session,   \* the entry of archive_cache: an archive, and whether a file is selected
    cache,     \* the ProgressiveCache of the stream
    task,      \* its extraction
    reader     \* the request's reader, and what its client was told

vars == <<session, cache, task, reader>>

Sessions == [kind : Kinds \cup {"none"}, selected : BOOLEAN]

CacheType ==
    [temp     : BOOLEAN,       \* the temporary file has its name on the disk
     written  : 0..Size,       \* written_bytes
     onDisk   : 0..Size,
     inFlight : BOOLEAN,       \* a write of the tokio File is under way
     lastErr  : BOOLEAN,       \* one has failed and was not reported yet
     complete : BOOLEAN,       \* is_complete
     error    : BOOLEAN]       \* error.is_some()

TaskType == {"none", "opening", "cloning", "copying", "ended"}

ReaderType ==
    [kind   : Kinds \cup {"none"},
     found  : BOOLEAN,         \* the archive has the entry
     answer : {"none", "404", "500", "body"},
     pc     : {"idle", "opening", "polling", "reading", "asleep", "ended", "failed", "closed"},
     pos    : 0..Size,         \* ProgressiveReader.pos
     seen   : 0..Size,         \* what the file operation under way has read
     left   : 0..Size,         \* limit of Take: bytes announced and not sent yet
     len    : 0..Size,         \* Content-Length
     got    : 0..Size]         \* bytes the client received

TypeOK ==
    /\ session \in Sessions
    /\ cache \in CacheType
    /\ task \in TaskType
    /\ reader \in ReaderType

NewCache == [temp |-> FALSE, written |-> 0, onDisk |-> 0, inFlight |-> FALSE,
             lastErr |-> FALSE, complete |-> FALSE, error |-> FALSE]

Init ==
    /\ session = [kind |-> "none", selected |-> FALSE]
    /\ cache = NewCache
    /\ task = "none"
    /\ reader = [kind |-> "none", found |-> FALSE, answer |-> "none", pc |-> "idle",
                 pos |-> 0, seen |-> 0, left |-> 0, len |-> 0, got |-> 0]

Least(a, b) == IF a < b THEN a ELSE b

-----------------------------------------------------------------------------
(* Sessions.  Creating one downloads the archive if it has to, lists it and *)
(* picks a file; a failure on the way answers the request and changes       *)
(* nothing here.  A second create under the same key replaces the first.    *)
CreateSession ==
    /\ reader.pc = "idle"
    /\ session' \in [kind : Kinds, selected : BOOLEAN]
    /\ UNCHANGED <<cache, task, reader>>

Answer(status) == reader' = [reader EXCEPT !.answer = status, !.pc = "ended"]

(* A file is asked for by its path or, through the session, by selection.   *)
NoSuchSession ==
    /\ reader.pc = "idle"
    /\ session.kind = "none" \/ ~session.selected
    /\ Answer("404")
    /\ UNCHANGED <<session, cache, task>>

(* tgz is not searched before it is extracted; an entry of an .nzb cannot   *)
(* be opened.                                                               *)
NoSuchEntry ==
    /\ reader.pc = "idle" /\ session.kind \notin {"none", "tgz"}
    /\ Answer("404")
    /\ UNCHANGED <<session, cache, task>>

(* open_file: the extraction is spawned before the reader is opened.        *)
OpenEntry ==
    /\ reader.pc = "idle" /\ session.kind \in Cached
    /\ \E found \in BOOLEAN :
          /\ session.kind # "tgz" => found
          /\ reader' = [reader EXCEPT !.kind = session.kind, !.found = found, !.pc = "opening"]
    /\ cache' = [cache EXCEPT !.temp = TRUE]
    /\ task' = "opening"
    /\ UNCHANGED session

(* The answer's headers and its body, over the range that was asked for.    *)
Responding(r, first, last) ==
    [r EXCEPT !.answer = "body", !.pc = "polling", !.pos = first,
              !.len = last - first + 1, !.left = last - first + 1]

(* The cache, and with it the temporary file's handle, is dropped when      *)
(* open_file returns; the file loses its name, open descriptors stay.       *)
(* Without a size the seek to the end is an error.                          *)
ReaderOpens ==
    /\ reader.pc = "opening"
    /\ cache' = [cache EXCEPT !.temp = FALSE]
    /\ IF reader.kind = "tgz"
       THEN Answer("500")
       ELSE \E first \in 0..Size - 1 : \E last \in first..Size - 1 :
                reader' = Responding(reader, first, last)
    /\ UNCHANGED <<session, task>>

(* A tar entry is a slice of the archive itself.                            *)
OpenTar ==
    /\ reader.pc = "idle" /\ session.kind = "tar"
    /\ \E first \in 0..Size - 1 : \E last \in first..Size - 1 :
           reader' = Responding([reader EXCEPT !.kind = "tar", !.found = TRUE], first, last)
    /\ UNCHANGED <<session, cache, task>>

(* The client goes away, or the request is dropped before its answer.       *)
Close ==
    /\ reader.pc \in {"opening", "polling", "reading", "asleep"}
    /\ reader' = [reader EXCEPT !.pc = "closed"]
    /\ cache' = [cache EXCEPT !.temp = FALSE]
    /\ UNCHANGED <<session, task>>

-----------------------------------------------------------------------------
(* The extraction, a task of its own: nothing of the request reaches it.    *)
Finish == cache' = [cache EXCEPT !.complete = TRUE]
\* Fault: an error does not complete the cache.
SetErrorOnly == cache' = [cache EXCEPT !.error = TRUE]

SetError == cache' = [cache EXCEPT !.complete = TRUE, !.error = TRUE]

Ends == task' = "ended" /\ UNCHANGED <<session, reader>>

(* 7z reports an error only once the writer has been cloned.                *)
Untold == reader.kind = "7z" /\ task \in {"opening", "cloning"}

ExtractionFails ==
    /\ task \in {"opening", "cloning", "copying"}
    /\ IF Untold THEN UNCHANGED cache ELSE SetError
    /\ Ends

ArchiveOpened ==
    /\ task = "opening"
    /\ task' = IF reader.kind \in Async THEN "copying" ELSE "cloning"
    /\ UNCHANGED <<session, cache, reader>>

(* try_clone_sync opens the temporary file again, by its name; a missing    *)
(* name is an ExtractionFails.                                              *)
WriterCloned ==
    /\ task = "cloning" /\ cache.temp
    /\ task' = "copying"
    /\ UNCHANGED <<session, cache, reader>>

(* The tokio File copies the chunk and writes it in the background.         *)
AsyncWrite ==
    /\ task = "copying" /\ reader.kind \in Async
    /\ ~cache.inFlight /\ ~cache.lastErr /\ cache.written < Size
    /\ cache' = [cache EXCEPT !.written = @ + 1, !.inFlight = TRUE]
    /\ UNCHANGED <<session, task, reader>>

WriteLands ==
    /\ cache.inFlight
    /\ cache' = [cache EXCEPT !.onDisk = @ + 1, !.inFlight = FALSE]
    /\ UNCHANGED <<session, task, reader>>

WriteLost ==
    /\ cache.inFlight
    /\ cache' = [cache EXCEPT !.lastErr = TRUE, !.inFlight = FALSE]
    /\ UNCHANGED <<session, task, reader>>

SyncWrite ==
    /\ task = "copying" /\ reader.kind \in Sync
    /\ cache.written < Size /\ reader.found
    /\ cache' = [cache EXCEPT !.written = @ + 1, !.onDisk = @ + 1]
    /\ UNCHANGED <<session, task, reader>>

(* tokio::io::copy flushes its writer at the end; write_all does not.       *)
Flushed == reader.kind = "zip" => ~cache.inFlight /\ ~cache.lastErr

(* The channel of a RAR entry closes at its end and on any error; 7-Zip     *)
(* ignores the operation's result; a damaged tar inside a tgz may end early. *)
EndOfEntry == reader.found /\ (reader.kind = "zip" => cache.written = Size)

ExtractionDone ==
    /\ task = "copying"
    /\ EndOfEntry /\ Flushed
    /\ Finish
    /\ Ends

-----------------------------------------------------------------------------
(* ProgressiveReader::poll_read.                                            *)
Tell(pc) == reader' = [reader EXCEPT !.pc = pc]

(* The wait for the notification is created, polled once and dropped when   *)
(* the poll returns Pending: nothing is left to wake the reader.            *)
NoData == Tell(IF cache.complete THEN "ended" ELSE "asleep")

(* A poll looks at the writer's state, then starts to read the file.        *)
Poll ==
    /\ reader.pc = "polling" /\ reader.kind # "tar"
    /\ IF cache.error THEN Tell("failed")
       ELSE IF reader.pos >= cache.written THEN NoData
       ELSE reader' = [reader EXCEPT !.pc = "reading",
                                     !.seen = IF cache.onDisk > reader.pos
                                              THEN Least(cache.onDisk - reader.pos, reader.left)
                                              ELSE 0]
    /\ UNCHANGED <<session, cache, task>>

(* ReadBuf::take lends a part of the buffer; nobody advances the buffer     *)
(* itself, so that Take and ReaderStream see a read of nothing: the end.    *)
Advances(r, n) == [r EXCEPT !.pos = @ + n, !.pc = "ended"]

(* The poll that finds the file operation finished.                         *)
FileRead ==
    /\ reader.pc = "reading"
    /\ IF cache.error THEN Tell("failed")
       ELSE IF reader.seen = 0 THEN NoData
       ELSE reader' = Advances(reader, reader.seen)
    /\ UNCHANGED <<session, cache, task>>

(* AsyncRawFileSlice::poll_read lends its buffer in the same way.           *)
TarRead ==
    /\ reader.pc = "polling" /\ reader.kind = "tar"
    /\ reader' = Advances(reader, Least(Size - reader.pos, reader.left))
    /\ UNCHANGED <<session, cache, task>>

(* hyper polls the body again for reasons of its own.                       *)
PolledAgain ==
    /\ reader.pc = "asleep"
    /\ Tell("polling")
    /\ UNCHANGED <<session, cache, task>>

Extracts == ExtractionFails \/ ArchiveOpened \/ WriterCloned \/ AsyncWrite \/ SyncWrite
            \/ ExtractionDone
Disk     == WriteLands \/ WriteLost
Reads    == ReaderOpens \/ Poll \/ FileRead \/ TarRead

Next ==
    \/ CreateSession \/ NoSuchSession \/ NoSuchEntry \/ OpenEntry \/ ReaderOpens \/ OpenTar
    \/ Close
    \/ ExtractionFails \/ ArchiveOpened \/ WriterCloned \/ AsyncWrite \/ WriteLands
    \/ WriteLost \/ SyncWrite \/ ExtractionDone
    \/ Poll \/ FileRead \/ TarRead \/ PolledAgain

(* The runtime polls its tasks, the disk answers, requests are driven.      *)
Fairness == WF_vars(Extracts) /\ WF_vars(Disk) /\ WF_vars(Reads)

Spec == Init /\ [][Next]_vars /\ Fairness

-----------------------------------------------------------------------------
(* An extraction ends by marking the cache complete, whatever fails, so     *)
(* that its readers can stop waiting: for every format but 7z, whose task   *)
(* only logs what fails before the writer is cloned.                        *)
ExtractionSettles ==
    []<>(task = "none" \/ reader.kind = "7z" \/ cache.complete)

(* A body that ends without an error has brought every byte its             *)
(* Content-Length announced, as a reader that counts what it read from the  *)
(* file ("Read from file", cache.rs:244) would.                             *)
EndedStreamIsWhole ==
    reader.answer = "body" /\ reader.pc = "ended" => reader.got = reader.len
=============================================================================
