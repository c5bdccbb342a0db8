----------------------------- MODULE LocalAddon -----------------------------
(***************************************************************************)
(* The add-on for local files: scan_background walks the cache directory   *)
(* once and indexes the videos it finds, those listed in .torrent files    *)
(* and those in archives, while a player asks for a catalogue, the meta of *)
(* an item and the stream of one of its videos.                            *)
(*                                                                         *)
(* An identifier is a sequence of its parts, separated by colons in the    *)
(* code: <<"local", name>> or <<"bt", torrent>>, with season and episode,  *)
(* or the index of the file, behind it in the meta's video identifiers.    *)
(* The hash of a path is the path: collisions are left out.  A season that *)
(* a name does not tell is <<>>.                                           *)
(***************************************************************************)
EXTENDS Naturals, Sequences, FiniteSets, SequencesExt

CONSTANTS
  Entries,     \* what the walk finds: the videos of each file, torrent or archive
  ImdbNames,   \* what resolve_imdb may find for any name
  Unresolved

VARIABLES
  items,    \* LocalIndex: identifier -> the items filed under it
  walked,   \* the entries that were indexed, and how many videos of the next
  engines,  \* torrents with an engine
  player    \* the player's place, the item it chose, its video and the answer

vars == <<items, walked, engines, player>>

Torrents == {e.path : e \in {x \in Entries : x.kind = "torrent"}}

(* parse_filename: nothing unless the extension is a video's.              *)
Type(video) ==
  CASE video.season # <<>> /\ video.episode # <<>> -> "series"
    [] video.year                                      -> "movie"
    [] OTHER                                           -> "other"

Parses(video) == video.extension

(* resolve_imdb: what it finds, if anything, lies with the service; asked   *)
(* twice for one name it may answer differently.                           *)
ResolveImdb == ImdbNames \cup {Unresolved}

Id(entry, video, imdb) ==
  CASE entry.kind = "torrent" -> <<"bt", entry.path>>
    [] imdb # Unresolved      -> <<"local", imdb>>
    [] OTHER                  -> <<"local", <<entry.path, video.name>>>>

Item(entry, video, idx, imdb) ==
  [id |-> Id(entry, video, imdb), imdb_id |-> imdb, path |-> <<entry.path, video.name>>,
   season |-> video.season, episode |-> video.episode, type |-> Type(video),
   file_idx |-> IF entry.kind = "torrent" THEN <<idx>> ELSE <<>>]

Ids == DOMAIN items
Filed(id) == IF id \in Ids THEN items[id] ELSE <<>>

\* Fault: the newest item of an identifier comes first.
Prepended(item) == <<item>> \o Filed(item.id)

Inserted(item) == Append(Filed(item.id), item)

Listed == UNION {Range(items[id]) : id \in Ids}

NoPlayer == [pc |-> "idle"]

Init ==
  /\ items = <<>> /\ walked = [done |-> {}, now |-> {}, videos |-> 0]
  /\ engines = {} /\ player = NoPlayer

-----------------------------------------------------------------------------
(* scan_background.  Entries come in any order; one whose bytes or archive *)
(* cannot be read, and a video without a video's extension, are skipped.   *)

Walk(entry) ==
  /\ walked.now = {} /\ entry \notin walked.done
  /\ \/ walked' = [walked EXCEPT !.now = {entry}, !.videos = 0]
     \/ entry.kind # "file" /\ walked' = [walked EXCEPT !.done = @ \cup {entry}]
  /\ UNCHANGED <<items, engines, player>>

Index(entry) ==
  /\ walked.now = {entry} /\ walked.videos < Len(entry.videos)
  /\ LET idx == walked.videos + 1
         video == entry.videos[idx] IN
     IF ~Parses(video) THEN UNCHANGED items
     ELSE \E imdb \in ResolveImdb :
            LET item == Item(entry, video, idx, imdb) IN
            items' = [id \in Ids \cup {item.id} |->
                         IF id = item.id THEN Inserted(item) ELSE items[id]]
  /\ walked' = [walked EXCEPT !.videos = @ + 1]
  /\ UNCHANGED <<engines, player>>

EntryDone(entry) ==
  /\ walked.now = {entry} /\ walked.videos = Len(entry.videos)
  /\ walked' = [done |-> walked.done \cup {entry}, now |-> {}, videos |-> 0]
  /\ UNCHANGED <<items, engines, player>>

-----------------------------------------------------------------------------
(* The player's requests.                                                  *)

(* _handle_catalog: one item for each IMDb name, or path, of the type; the *)
(* order of the map decides which.                                         *)
Catalog(id) ==
  /\ player.pc = "idle" /\ id \in Ids
  /\ player' = [pc |-> "chosen", id |-> id]
  /\ UNCHANGED <<items, walked, engines>>

FirstOrOne(numbers) == IF numbers = <<>> THEN 1 ELSE Head(numbers)

(* handle_meta: a torrent's videos come from its engine, if it has one.    *)
TorrentVideos(id) ==
  {[pc |-> "opened", item |-> <<>>, video |-> id \o <<idx>>] :
      idx \in UNION {DOMAIN e.videos : e \in {x \in Entries : x.path = id[2] /\ id[2] \in engines}}}

LocalVideos(id) ==
  {[pc |-> "opened", item |-> item,
    video |-> id \o <<FirstOrOne(item.season), FirstOrOne(item.episode)>>] : item \in Range(items[id])}

Meta ==
  /\ player.pc = "chosen"
  /\ LET videos == IF Head(player.id) = "bt" THEN TorrentVideos(player.id) ELSE LocalVideos(player.id)
     IN IF videos = {} THEN player' = NoPlayer ELSE player' \in videos
  /\ UNCHANGED <<items, walked, engines>>

\* Fault: of a file with several episodes only the last is found.
LastMatches(item, video) ==
  Len(video) > 2 =>
    item.season = <<video[3]>> /\ item.episode # <<>> /\ Last(item.episode) = video[4]

Matches(item, video) ==
  Len(video) > 2 => item.season = <<video[3]>> /\ video[4] \in Range(item.episode)

(* handle_stream: the first match of those filed under the identifier.     *)
Found(video) ==
  LET filed == Filed(SubSeq(video, 1, 2)) IN {i \in DOMAIN filed : Matches(filed[i], video)}

Answer(video) ==
  IF Head(video) = "bt"
  THEN IF video[2] \in engines THEN <<video[2], video[3]>> ELSE <<>>
  ELSE IF Found(video) = {} THEN <<>> ELSE Filed(SubSeq(video, 1, 2))[Min(Found(video))].path

Stream ==
  /\ player.pc = "opened"
  /\ player' = [pc |-> "answered", item |-> player.item, video |-> player.video,
                answer |-> Answer(player.video)]
  /\ UNCHANGED <<items, walked, engines>>

Back ==
  /\ player.pc \in {"opened", "answered"} /\ player' = NoPlayer
  /\ UNCHANGED <<items, walked, engines>>

EngineComesOrGoes(torrent) ==
  /\ engines' = IF torrent \in engines THEN engines \ {torrent} ELSE engines \cup {torrent}
  /\ UNCHANGED <<items, walked, player>>

Next ==
  \/ \E entry \in Entries : Walk(entry) \/ Index(entry) \/ EntryDone(entry)
  \/ \E id \in Ids : Catalog(id)
  \/ Meta \/ Stream \/ Back
  \/ \E torrent \in Torrents : EngineComesOrGoes(torrent)

Spec == Init /\ [][Next]_vars

-----------------------------------------------------------------------------
(* An episode that the meta of a local series lists has a stream, whatever   *)
(* was indexed since, and it is a file with that episode.                    *)
EpisodePlays ==
  player.pc = "answered" /\ Head(player.video) = "local" /\ player.item.type = "series" =>
      \E item \in Listed :
          /\ item.path = player.answer
          /\ item.season = player.item.season
          /\ Head(player.item.episode) \in Range(item.episode)
=============================================================================
