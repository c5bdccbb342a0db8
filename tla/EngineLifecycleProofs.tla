------------------------- MODULE EngineLifecycleProofs -------------------------
(***************************************************************************)
(* Theorems about EngineLifecycle for any number of requests, files and    *)
(* engines: the counters of streams balance whatever is dropped, removed   *)
(* or registered anew, and the sweeper never chooses an engine that plays. *)
(***************************************************************************)
EXTENDS EngineLifecycle, FiniteSetTheorems, TLAPS

Bit(b) == IF b THEN 1 ELSE 0

(* What a request counts in: active_streams, active_file_streams of a file, *)
(* the readers of an engine.                                                *)
Streams(r)      == r.op \in {"stream", "hls"}
InStreams(r)    == r.counted >= 1 /\ r.pc # "endFile"
InFile(r, f)    == r.file = f /\ r.counted >= 1 /\ (r.counted = 2 \/ r.pc = "endFile")
InReaders(r, e) == /\ r.engine = e /\ Streams(r)
                   /\ r.pc \notin {"ending", "endFile", "endTouch", "dropped", "done"}

StreamSet(act)    == {x \in Actors : InStreams(act[x])}
FileSet(act, f)   == {x \in Actors : InFile(act[x], f)}
ReaderSet(act, e) == {x \in Actors : InReaders(act[x], e)}

(* The counters as Nat and Int: their bounds follow from the balance.       *)
Box == [torrent : Ids, readers : Int, aged : BOOLEAN]
Sweeps == [pc : {"sleeping", "leases", "scan", "unregister", "backend"}, expired : SUBSET Files]

Typed ==
  /\ native \in BOOLEAN
  /\ engines \in Seq(Box) /\ Len(engines) <= MaxEngines
  /\ registry \in 0..Len(engines)
  /\ added \in Ids /\ session \in 0..added
  /\ streams \in Int /\ fileStreams \in [Files -> Nat]
  /\ lease \in [Files -> {"none", "live", "expired"}]
  /\ activeFile \in Files \cup {NoFile, "other"}
  /\ selection \in Selection /\ generation \in Nat
  /\ actor \in [Actors -> Actor]
  /\ cleanups \subseteq Cleanup
  /\ sweep \in Sweeps

(* Where a request is tells how often it is counted, and that the engine    *)
(* that answered a stream exists, k being the number of engines.            *)
Sound(r, k) ==
  /\ r.pc \in {"new", "adding"} => r.engine = 0 /\ r.counted = 0
  /\ r.pc = "adding" => r.op \in {"stream", "hls", "refresh"}
  /\ r.pc \in {"resolving", "count"} => Streams(r) /\ r.counted = 0
  /\ r.pc = "countFile" => Streams(r) /\ r.counted = 1
  /\ r.pc = "lease" => (r.op = "hls" /\ r.counted = 2) \/ (r.op = "refresh" /\ r.counted = 0)
  /\ r.pc \in {"generation", "insert", "retain"} =>
       /\ ~native
       /\ \/ r.next = "count" /\ Streams(r) /\ r.counted = 0
          \/ r.next \in {"open", "reselect"} /\ Streams(r) /\ r.counted = 2
          \/ r.next = "done" /\ ~Streams(r) /\ r.counted = 0
  /\ r.pc \in {"reselect", "open", "reading", "ending"} => Streams(r) /\ r.counted = 2
  /\ r.pc = "endFile" => r.counted = 1
  /\ r.pc \in {"endTouch", "done"} => r.counted = 0
  /\ r.engine <= k
  /\ Streams(r) /\ r.pc \notin {"new", "adding", "ending", "endFile", "endTouch", "dropped", "done"}
       => r.engine >= 1

Balance ==
  /\ streams = Cardinality(StreamSet(actor))
  /\ \A f \in Files : /\ fileStreams[f] <= Cardinality(FileSet(actor, f))
                      /\ native => fileStreams[f] = Cardinality(FileSet(actor, f))
  /\ \A e \in 1..Len(engines) : engines[e].readers = Cardinality(ReaderSet(actor, e))

LInv == Typed /\ Balance /\ \A a \in Actors : Sound(actor[a], Len(engines))

-----------------------------------------------------------------------------
(* A set of requests after one of them moved.                               *)
LEMMA OneMoves ==
  ASSUME NEW S, NEW T, NEW a, S \subseteq Actors, T \subseteq Actors, a \in Actors,
         S \ {a} = T \ {a}
  PROVE  /\ Cardinality(S) \in Nat /\ Cardinality(T) \in Nat
         /\ Cardinality(T) = Cardinality(S) + (IF a \in T THEN 1 ELSE 0) - (IF a \in S THEN 1 ELSE 0)
<1>1. IsFiniteSet(S) /\ IsFiniteSet(T)
  BY FS_Subset, LifecycleAssumption
<1>2. Cardinality(S) \in Nat /\ Cardinality(T) \in Nat
  BY <1>1, FS_CardinalityType
<1>3. Cardinality(S \ {a}) = IF a \in S THEN Cardinality(S) - 1 ELSE Cardinality(S)
  BY <1>1, FS_RemoveElement
<1>4. Cardinality(T \ {a}) = IF a \in T THEN Cardinality(T) - 1 ELSE Cardinality(T)
  BY <1>1, FS_RemoveElement
<1> DEFINE s == Cardinality(S)
           t == Cardinality(T)
           u == Cardinality(S \ {a})
<1>5. s \in Nat /\ t \in Nat /\ u = (IF a \in S THEN s - 1 ELSE s) /\ u = (IF a \in T THEN t - 1 ELSE t)
  BY <1>2, <1>3, <1>4
<1> HIDE DEF s, t, u
<1>6. t = s + (IF a \in T THEN 1 ELSE 0) - (IF a \in S THEN 1 ELSE 0)  BY <1>5
<1> QED  BY <1>2, <1>6 DEF s, t

(* The request a moves, and the counters move with it; those of a file may  *)
(* be reset where the selection of files is not the backend's.              *)
Moves(a) ==
  /\ actor' \in [Actors -> Actor]
  /\ \A b \in Actors \ {a} : actor'[b] = actor[b]
  /\ actor'[a].op = actor[a].op /\ actor'[a].file = actor[a].file

Follows(a) ==
  /\ streams' = streams + Bit(InStreams(actor'[a])) - Bit(InStreams(actor[a]))
  /\ \A f \in Files :
       \/ fileStreams'[f] = fileStreams[f] + Bit(InFile(actor'[a], f)) - Bit(InFile(actor[a], f))
       \/ ~native /\ fileStreams'[f] = 0
  /\ \A e \in 1..Len(engines') :
       engines'[e].readers = (IF e <= Len(engines) THEN engines[e].readers ELSE 0)
                             + Bit(InReaders(actor'[a], e)) - Bit(InReaders(actor[a], e))

LEMMA BalanceFollows ==
  ASSUME LInv, NEW a, a \in Actors, Moves(a), Follows(a), Typed',
         native' = native, Len(engines) <= Len(engines')
  PROVE  Balance'
<1>1. streams' = Cardinality(StreamSet(actor'))
  <2> DEFINE S == StreamSet(actor)
             T == StreamSet(actor')
  <2>1. S \subseteq Actors /\ T \subseteq Actors /\ S \ {a} = T \ {a}  BY DEF StreamSet, Moves
  <2>2. (a \in S <=> InStreams(actor[a])) /\ (a \in T <=> InStreams(actor'[a]))  BY DEF StreamSet
  <2>3. streams = Cardinality(S)  BY DEF LInv, Balance
  <2> HIDE DEF S, T
  <2>4. Cardinality(S) \in Nat
        /\ Cardinality(T) = Cardinality(S) + (IF a \in T THEN 1 ELSE 0) - (IF a \in S THEN 1 ELSE 0)
    BY <2>1, OneMoves
  <2>5. streams' = Cardinality(T)  BY <2>2, <2>3, <2>4 DEF Follows, Bit
  <2> QED  BY <2>5 DEF T
<1>2. ASSUME NEW f \in Files
      PROVE  /\ fileStreams'[f] <= Cardinality(FileSet(actor', f))
             /\ native' => fileStreams'[f] = Cardinality(FileSet(actor', f))
  <2> DEFINE S == FileSet(actor, f)
             T == FileSet(actor', f)
  <2>1. S \subseteq Actors /\ T \subseteq Actors /\ S \ {a} = T \ {a}  BY DEF FileSet, Moves
  <2>2. (a \in S <=> InFile(actor[a], f)) /\ (a \in T <=> InFile(actor'[a], f))  BY DEF FileSet
  <2>3. fileStreams[f] <= Cardinality(S) /\ (native => fileStreams[f] = Cardinality(S))
    BY DEF LInv, Balance
  <2> HIDE DEF S, T
  <2>4. Cardinality(S) \in Nat /\ Cardinality(T) \in Nat
        /\ Cardinality(T) = Cardinality(S) + (IF a \in T THEN 1 ELSE 0) - (IF a \in S THEN 1 ELSE 0)
    BY <2>1, OneMoves
  <2>5. fileStreams[f] \in Nat /\ fileStreams'[f] \in Nat  BY DEF LInv, Typed
  <2>6. CASE fileStreams'[f] = fileStreams[f] + Bit(InFile(actor'[a], f)) - Bit(InFile(actor[a], f))
    <3>1. fileStreams'[f] <= Cardinality(T) /\ (native => fileStreams'[f] = Cardinality(T))
      BY <2>2, <2>3, <2>4, <2>5, <2>6 DEF Bit
    <3> QED  BY <3>1 DEF T
  <2>7. CASE ~native /\ fileStreams'[f] = 0
    BY <2>4, <2>7 DEF T
  <2> QED  BY <2>6, <2>7 DEF Follows
<1>3. ASSUME NEW e \in 1..Len(engines') PROVE engines'[e].readers = Cardinality(ReaderSet(actor', e))
  <2> DEFINE S == ReaderSet(actor, e)
             T == ReaderSet(actor', e)
             n == IF e <= Len(engines) THEN engines[e].readers ELSE 0
  <2>1. S \subseteq Actors /\ T \subseteq Actors /\ S \ {a} = T \ {a}  BY DEF ReaderSet, Moves
  <2>2. (a \in S <=> InReaders(actor[a], e)) /\ (a \in T <=> InReaders(actor'[a], e))  BY DEF ReaderSet
  <2>3. n = Cardinality(S)
    <3>1. CASE e <= Len(engines)
      <4>1. e \in 1..Len(engines)  BY <3>1 DEF LInv, Typed
      <4> QED  BY <3>1, <4>1 DEF LInv, Balance
    <3>2. CASE ~(e <= Len(engines))
      <4>1. Len(engines) \in Nat /\ e \in Int  BY DEF LInv, Typed
      <4>2. \A x \in Actors : actor[x].engine <= Len(engines)  BY DEF LInv, Sound
      <4>3. S = {}  BY <3>2, <4>1, <4>2 DEF ReaderSet, InReaders
      <4> QED  BY <3>2, <4>3, FS_EmptySet
    <3> QED  BY <3>1, <3>2
  <2>4. engines'[e].readers = n + Bit(InReaders(actor'[a], e)) - Bit(InReaders(actor[a], e))
    BY DEF Follows
  <2> HIDE DEF S, T, n
  <2>5. Cardinality(S) \in Nat
        /\ Cardinality(T) = Cardinality(S) + (IF a \in T THEN 1 ELSE 0) - (IF a \in S THEN 1 ELSE 0)
    BY <2>1, OneMoves
  <2>6. engines'[e].readers = Cardinality(T)  BY <2>2, <2>3, <2>4, <2>5 DEF Bit
  <2> QED  BY <2>6 DEF T
<1> QED  BY <1>1, <1>2, <1>3 DEF Balance

(* A step of a request keeps the invariant when the counters follow it.     *)
LEMMA RequestKeeps ==
  ASSUME LInv, NEW a, a \in Actors, Moves(a), Follows(a), Typed',
         native' = native, Len(engines) <= Len(engines'), Sound(actor[a], Len(engines))'
  PROVE  LInv'
<1>1. ASSUME NEW b \in Actors PROVE Sound(actor[b], Len(engines))'
  <2>1. CASE b = a  BY <2>1
  <2>2. CASE b # a
    <3>1. actor'[b] = actor[b] /\ Sound(actor[b], Len(engines))  BY <2>2 DEF Moves, LInv
    <3>2. Len(engines) \in Nat /\ Len(engines') \in Nat /\ actor[b].engine \in Int
      <4>1. Len(engines) \in Nat /\ Len(engines') \in Nat  BY DEF LInv, Typed
      <4>2. actor[b] \in Actor  BY DEF LInv, Typed
      <4> QED  BY <4>1, <4>2, LifecycleAssumption DEF Actor, Ids
    <3> QED  BY <3>1, <3>2 DEF Sound
  <2> QED  BY <2>1, <2>2
<1> QED  BY <1>1, BalanceFollows DEF LInv

(* A step of nobody's.                                                      *)
LEMMA OtherKeeps ==
  ASSUME LInv, Typed', UNCHANGED <<native, actor, streams, fileStreams>>,
         Len(engines') = Len(engines),
         \A e \in 1..Len(engines) : engines'[e].readers = engines[e].readers
  PROVE  LInv'
BY DEF LInv, Balance, Sound

-----------------------------------------------------------------------------
(* What is written to the engines.                                          *)
Edited(es, t, e, d) ==
  /\ t \in Seq(Box) /\ Len(t) = Len(es)
  /\ \A x \in 1..Len(es) : t[x].readers = es[x].readers + (IF x = e THEN d ELSE 0)

LEMMA EditedEngines ==
  ASSUME NEW es, es \in Seq(Box), NEW e, e \in 1..Len(es), NEW t, NEW d, d \in {-1, 0, 1},
         \/ t = [es EXCEPT ![e].aged = FALSE, ![e].readers = @ + d]
         \/ t = [es EXCEPT ![e].readers = @ + d]
         \/ d = 0 /\ \E g \in BOOLEAN : t = [es EXCEPT ![e].aged = g]
         \/ (d = -1) /\ t = [es EXCEPT ![e].readers = @ - 1]
         \/ d = 0 /\ t = [es EXCEPT ![e].aged = FALSE, ![e].readers = @]
  PROVE  Edited(es, t, e, d)
<1>1. es \in [1..Len(es) -> Box] /\ Len(es) \in Nat  OBVIOUS
<1>2. es[e] \in Box /\ es[e].readers \in Int /\ d \in Int /\ es[e].readers + d \in Int  BY <1>1 DEF Box
<1>3. PICK r : /\ t = [es EXCEPT ![e] = r] /\ r \in Box /\ r.readers = es[e].readers + d
  <2>1. CASE t = [es EXCEPT ![e].aged = FALSE, ![e].readers = @ + d]
    <3> DEFINE r == [es[e] EXCEPT !.aged = FALSE, !.readers = @ + d]
    <3>1. r \in Box  BY <1>2 DEF Box
    <3>2. t = [es EXCEPT ![e] = r]  BY <2>1
    <3>3. r.readers = es[e].readers + d  BY <1>2 DEF Box
    <3> QED  BY <3>1, <3>2, <3>3
  <2>2. CASE t = [es EXCEPT ![e].readers = @ + d]
    <3> DEFINE r == [es[e] EXCEPT !.readers = @ + d]
    <3>1. r \in Box  BY <1>2 DEF Box
    <3>2. t = [es EXCEPT ![e] = r]  BY <2>2
    <3>3. r.readers = es[e].readers + d  BY <1>2 DEF Box
    <3> QED  BY <3>1, <3>2, <3>3
  <2>3. CASE d = 0 /\ \E g \in BOOLEAN : t = [es EXCEPT ![e].aged = g]
    <3>1. PICK g \in BOOLEAN : t = [es EXCEPT ![e].aged = g]  BY <2>3
    <3> DEFINE r == [es[e] EXCEPT !.aged = g]
    <3>2. r \in Box  BY <1>2 DEF Box
    <3>3. t = [es EXCEPT ![e] = r]  BY <3>1
    <3>4. r.readers = es[e].readers + d  BY <1>2, <2>3 DEF Box
    <3> QED  BY <3>2, <3>3, <3>4
  <2>4. CASE d = 0 /\ t = [es EXCEPT ![e].aged = FALSE, ![e].readers = @]
    <3> DEFINE r == [es[e] EXCEPT !.aged = FALSE, !.readers = @]
    <3>1. r \in Box  BY <1>2 DEF Box
    <3>2. t = [es EXCEPT ![e] = r]  BY <2>4
    <3>3. r.readers = es[e].readers + d  BY <1>2, <2>4 DEF Box
    <3> QED  BY <3>1, <3>2, <3>3
  <2>5. CASE (d = -1) /\ t = [es EXCEPT ![e].readers = @ - 1]
    <3> DEFINE r == [es[e] EXCEPT !.readers = @ - 1]
    <3>1. r \in Box  BY <1>2 DEF Box
    <3>2. t = [es EXCEPT ![e] = r]  BY <2>5
    <3>3. r.readers = es[e].readers + d  BY <1>2, <2>5 DEF Box
    <3> QED  BY <3>1, <3>2, <3>3
  <2> QED  BY <2>1, <2>2, <2>3, <2>4, <2>5
<1>5. t \in [1..Len(es) -> Box]
      /\ \A x \in 1..Len(es) : t[x].readers = es[x].readers + (IF x = e THEN d ELSE 0)
  <2>1. \A x \in 1..Len(es) : es[x].readers \in Int  BY <1>1 DEF Box
  <2> QED  BY <1>1, <1>3, <2>1
<1>4. t \in Seq(Box) /\ Len(t) = Len(es)  BY <1>1, <1>5
<1> QED  BY <1>4, <1>5 DEF Edited

LEMMA TouchedEngines ==
  ASSUME Typed
  PROVE  Edited(engines, Touched, 0, 0)
<1>1. engines \in Seq(Box) /\ Len(engines) \in Nat
      /\ \A x \in 1..Len(engines) : engines[x].readers \in Int
  <2>1. engines \in [1..Len(engines) -> Box] /\ engines \in Seq(Box) /\ Len(engines) \in Nat
    BY DEF Typed
  <2> QED  BY <2>1 DEF Box
<1>2. CASE registry = 0  BY <1>1, <1>2 DEF Touched, Edited
<1>3. CASE registry # 0
  <2>1. PICK e, t, d : e = registry /\ t = Touched /\ d = 0  OBVIOUS
  <2>2. e \in 1..Len(engines) /\ d \in {-1, 0, 1}  BY <1>3, <2>1 DEF Typed
  <2>3. t = [engines EXCEPT ![e].aged = FALSE]  BY <1>3, <2>1 DEF Touched
  <2>4. Edited(engines, t, e, d)  BY <1>1, <2>1, <2>2, <2>3, EditedEngines
  <2> QED  BY <1>1, <2>1, <2>4 DEF Edited
<1> QED  BY <1>2, <1>3

(* Where the request a is after its step.                                   *)
Now(a, pc, next, engine, counted) ==
  /\ Moves(a)
  /\ actor'[a].pc = pc /\ actor'[a].next = next
  /\ actor'[a].engine = engine /\ actor'[a].counted = counted

LEMMA Recorded ==
  ASSUME Typed, NEW a, a \in Actors, NEW r, r \in Actor, actor' = [actor EXCEPT ![a] = r],
         r.op = actor[a].op, r.file = actor[a].file
  PROVE  Now(a, r.pc, r.next, r.engine, r.counted)
BY DEF Typed, Now, Moves

LEMMA PcMoves ==
  ASSUME Typed, NEW a, a \in Actors, NEW p, p \in Pcs,
         actor' = [actor EXCEPT ![a].pc = p]
  PROVE  Now(a, p, actor[a].next, actor[a].engine, actor[a].counted)
<1> DEFINE r == [actor[a] EXCEPT !.pc = p]
<1>1. actor[a] \in Actor /\ actor \in [Actors -> Actor]  BY DEF Typed
<1>2. r \in Actor
  BY <1>1 DEF Actor
<1>3. /\ r.op = actor[a].op /\ r.file = actor[a].file
      /\ r.pc = p /\ r.next = actor[a].next /\ r.engine = actor[a].engine /\ r.counted = actor[a].counted
  BY <1>1 DEF Actor
<1>4. actor' = [actor EXCEPT ![a] = r]  BY <1>1
<1> HIDE DEF r
<1>5. Now(a, r.pc, r.next, r.engine, r.counted)  BY <1>2, <1>3, <1>4, Recorded
<1> QED  BY <1>3, <1>5

LEMMA NextMoves ==
  ASSUME Typed, NEW a, a \in Actors, NEW p, p \in Pcs, NEW q, q \in Pcs,
         actor' = [actor EXCEPT ![a].pc = p, ![a].next = q]
  PROVE  Now(a, p, q, actor[a].engine, actor[a].counted)
<1> DEFINE r == [actor[a] EXCEPT !.pc = p, !.next = q]
<1>1. actor[a] \in Actor /\ actor \in [Actors -> Actor]  BY DEF Typed
<1>2. r \in Actor
  BY <1>1 DEF Actor
<1>3. /\ r.op = actor[a].op /\ r.file = actor[a].file
      /\ r.pc = p /\ r.next = q /\ r.engine = actor[a].engine /\ r.counted = actor[a].counted
  BY <1>1 DEF Actor
<1>4. actor' = [actor EXCEPT ![a] = r]  BY <1>1
<1> HIDE DEF r
<1>5. Now(a, r.pc, r.next, r.engine, r.counted)  BY <1>2, <1>3, <1>4, Recorded
<1> QED  BY <1>3, <1>5

LEMMA EngineMoves ==
  ASSUME Typed, NEW a, a \in Actors, NEW e, e \in Ids, NEW p, p \in Pcs,
         actor' = [actor EXCEPT ![a].engine = e, ![a].pc = p]
  PROVE  Now(a, p, actor[a].next, e, actor[a].counted)
<1> DEFINE r == [actor[a] EXCEPT !.engine = e, !.pc = p]
<1>1. actor[a] \in Actor /\ actor \in [Actors -> Actor]  BY DEF Typed
<1>2. r \in Actor
  BY <1>1 DEF Actor
<1>3. /\ r.op = actor[a].op /\ r.file = actor[a].file
      /\ r.pc = p /\ r.next = actor[a].next /\ r.engine = e /\ r.counted = actor[a].counted
  BY <1>1 DEF Actor
<1>4. actor' = [actor EXCEPT ![a] = r]  BY <1>1
<1> HIDE DEF r
<1>5. Now(a, r.pc, r.next, r.engine, r.counted)  BY <1>2, <1>3, <1>4, Recorded
<1> QED  BY <1>3, <1>5

LEMMA TorrentMoves ==
  ASSUME Typed, NEW a, a \in Actors, NEW p, p \in Pcs, NEW t, t \in Ids,
         actor' = [actor EXCEPT ![a].pc = p, ![a].torrent = t]
  PROVE  Now(a, p, actor[a].next, actor[a].engine, actor[a].counted)
<1> DEFINE r == [actor[a] EXCEPT !.pc = p, !.torrent = t]
<1>1. actor[a] \in Actor /\ actor \in [Actors -> Actor]  BY DEF Typed
<1>2. r \in Actor
  BY <1>1 DEF Actor
<1>3. /\ r.op = actor[a].op /\ r.file = actor[a].file
      /\ r.pc = p /\ r.next = actor[a].next /\ r.engine = actor[a].engine /\ r.counted = actor[a].counted
  BY <1>1 DEF Actor
<1>4. actor' = [actor EXCEPT ![a] = r]  BY <1>1
<1> HIDE DEF r
<1>5. Now(a, r.pc, r.next, r.engine, r.counted)  BY <1>2, <1>3, <1>4, Recorded
<1> QED  BY <1>3, <1>5

LEMMA CountMoves ==
  ASSUME Typed, NEW a, a \in Actors, NEW p, p \in Pcs, NEW c, c \in 0..2,
         actor' = [actor EXCEPT ![a].pc = p, ![a].counted = c]
  PROVE  Now(a, p, actor[a].next, actor[a].engine, c)
<1> DEFINE r == [actor[a] EXCEPT !.pc = p, !.counted = c]
<1>1. actor[a] \in Actor /\ actor \in [Actors -> Actor]  BY DEF Typed
<1>2. r \in Actor
  BY <1>1 DEF Actor
<1>3. /\ r.op = actor[a].op /\ r.file = actor[a].file
      /\ r.pc = p /\ r.next = actor[a].next /\ r.engine = actor[a].engine /\ r.counted = c
  BY <1>1 DEF Actor
<1>4. actor' = [actor EXCEPT ![a] = r]  BY <1>1
<1> HIDE DEF r
<1>5. Now(a, r.pc, r.next, r.engine, r.counted)  BY <1>2, <1>3, <1>4, Recorded
<1> QED  BY <1>3, <1>5

LEMMA GenerationMoves ==
  ASSUME Typed, NEW a, a \in Actors, NEW p, p \in Pcs, NEW g, g \in Nat,
         actor' = [actor EXCEPT ![a].pc = p, ![a].generation = g]
  PROVE  Now(a, p, actor[a].next, actor[a].engine, actor[a].counted)
<1> DEFINE r == [actor[a] EXCEPT !.pc = p, !.generation = g]
<1>1. actor[a] \in Actor /\ actor \in [Actors -> Actor]  BY DEF Typed
<1>2. r \in Actor
  BY <1>1 DEF Actor
<1>3. /\ r.op = actor[a].op /\ r.file = actor[a].file
      /\ r.pc = p /\ r.next = actor[a].next /\ r.engine = actor[a].engine /\ r.counted = actor[a].counted
  BY <1>1 DEF Actor
<1>4. actor' = [actor EXCEPT ![a] = r]  BY <1>1
<1> HIDE DEF r
<1>5. Now(a, r.pc, r.next, r.engine, r.counted)  BY <1>2, <1>3, <1>4, Recorded
<1> QED  BY <1>3, <1>5

LEMMA LastMoves ==
  ASSUME Typed, NEW a, a \in Actors, NEW p, p \in Pcs, NEW c, c \in 0..2, NEW l, l \in BOOLEAN,
         actor' = [actor EXCEPT ![a].pc = p, ![a].counted = c, ![a].last = l]
  PROVE  Now(a, p, actor[a].next, actor[a].engine, c)
<1> DEFINE r == [actor[a] EXCEPT !.pc = p, !.counted = c, !.last = l]
<1>1. actor[a] \in Actor /\ actor \in [Actors -> Actor]  BY DEF Typed
<1>2. r \in Actor
  BY <1>1 DEF Actor
<1>3. /\ r.op = actor[a].op /\ r.file = actor[a].file
      /\ r.pc = p /\ r.next = actor[a].next /\ r.engine = actor[a].engine /\ r.counted = c
  BY <1>1 DEF Actor
<1>4. actor' = [actor EXCEPT ![a] = r]  BY <1>1
<1> HIDE DEF r
<1>5. Now(a, r.pc, r.next, r.engine, r.counted)  BY <1>2, <1>3, <1>4, Recorded
<1> QED  BY <1>3, <1>5

-----------------------------------------------------------------------------
(* The steps of a request that leave the counters of streams alone.         *)
Gone == {"ending", "endFile", "endTouch", "dropped", "done"}

LEMMA ReadersFollow ==
  ASSUME LInv, NEW a, a \in Actors, NEW p, NEW q, NEW c, NEW d, d \in {-1, 0, 1},
         Now(a, p, q, actor[a].engine, c),
         Edited(engines, engines', actor[a].engine, d),
         \/ actor[a].engine = 0
         \/ ~Streams(actor[a]) /\ d = 0
         \/ Streams(actor[a]) /\ d = (IF p \in Gone THEN 0 ELSE 1) - (IF actor[a].pc \in Gone THEN 0 ELSE 1)
  PROVE  /\ Len(engines') = Len(engines)
         /\ \A e \in 1..Len(engines') :
              engines'[e].readers = (IF e <= Len(engines) THEN engines[e].readers ELSE 0)
                             + Bit(InReaders(actor'[a], e)) - Bit(InReaders(actor[a], e))
<1>1. /\ actor'[a].pc = p /\ actor'[a].engine = actor[a].engine
      /\ actor'[a].op = actor[a].op /\ actor'[a].file = actor[a].file
  BY DEF Now, Moves
<1>2. Len(engines') = Len(engines)  BY DEF Edited
<1>4. ASSUME NEW e \in 1..Len(engines')
      PROVE  engines'[e].readers = (IF e <= Len(engines) THEN engines[e].readers ELSE 0)
                             + Bit(InReaders(actor'[a], e)) - Bit(InReaders(actor[a], e))
  <2>1. /\ e \in 1..Len(engines) /\ e \in Int /\ Len(engines) \in Nat /\ e >= 1 /\ e <= Len(engines)
        /\ engines'[e].readers = engines[e].readers + (IF e = actor[a].engine THEN d ELSE 0)
    BY DEF Edited, LInv, Typed
  <2>2. engines[e].readers \in Int
    <3>1. engines \in [1..Len(engines) -> Box]  BY DEF LInv, Typed
    <3> QED  BY <2>1, <3>1 DEF Box
  <2>3. CASE e # actor[a].engine
    BY <1>1, <2>1, <2>2, <2>3 DEF InReaders, Bit
  <2>4. CASE e = actor[a].engine /\ ~Streams(actor[a])
    BY <1>1, <2>1, <2>2, <2>4 DEF InReaders, Bit, Streams
  <2>5. CASE e = actor[a].engine /\ Streams(actor[a])
    BY <1>1, <2>1, <2>2, <2>5 DEF InReaders, Bit, Streams, Gone
  <2> QED  BY <2>3, <2>4, <2>5
<1> QED  BY <1>2, <1>4

LEMMA StepKeeps ==
  ASSUME LInv, NEW a, a \in Actors, NEW p, NEW q, NEW d, d \in {-1, 0, 1},
         Now(a, p, q, actor[a].engine, actor[a].counted),
         actor[a].pc # "endFile", p # "endFile",
         Edited(engines, engines', actor[a].engine, d),
         \/ actor[a].engine = 0
         \/ ~Streams(actor[a]) /\ d = 0
         \/ Streams(actor[a]) /\ d = (IF p \in Gone THEN 0 ELSE 1) - (IF actor[a].pc \in Gone THEN 0 ELSE 1),
         Typed', UNCHANGED <<native, streams, fileStreams>>, Sound(actor[a], Len(engines))'
  PROVE  LInv'
<1>1. /\ actor'[a].pc = p /\ actor'[a].counted = actor[a].counted
      /\ actor'[a].op = actor[a].op /\ actor'[a].file = actor[a].file /\ Moves(a)
  BY DEF Now, Moves
<1>2. streams' = streams + Bit(InStreams(actor'[a])) - Bit(InStreams(actor[a]))
  BY <1>1 DEF InStreams, Bit, LInv, Typed
<1>3. ASSUME NEW f \in Files
      PROVE  fileStreams'[f] = fileStreams[f] + Bit(InFile(actor'[a], f)) - Bit(InFile(actor[a], f))
  <2>1. InFile(actor'[a], f) <=> InFile(actor[a], f)  BY <1>1 DEF InFile
  <2>2. fileStreams[f] \in Nat  BY DEF LInv, Typed
  <2> QED  BY <2>1, <2>2 DEF Bit
<1>5. Follows(a)  BY <1>2, <1>3, ReadersFollow DEF Follows
<1>6. Len(engines) <= Len(engines')  BY DEF Edited, LInv, Typed
<1> QED  BY <1>1, <1>5, <1>6, RequestKeeps

LEMMA SameEngines == ASSUME Typed, NEW e PROVE Edited(engines, engines, e, 0)
<1>1. engines \in [1..Len(engines) -> Box] /\ engines \in Seq(Box)  BY DEF Typed
<1>2. \A x \in 1..Len(engines) : engines[x].readers \in Int  BY <1>1 DEF Box
<1> QED  BY <1>1, <1>2 DEF Edited

LEMMA AnyTouched == ASSUME Typed, NEW e PROVE Edited(engines, Touched, e, 0)
<1>1. engines \in [1..Len(engines) -> Box]  BY DEF Typed
<1>2. \A x \in 1..Len(engines) : engines[x].readers \in Int  BY <1>1 DEF Box
<1> QED  BY <1>2, TouchedEngines DEF Edited

LEMMA CleanupTyped == ASSUME Typed, NEW a, a \in Actors PROVE NewCleanup(actor[a].file) \subseteq Cleanup
<1>1. actor[a].file \in Files  BY DEF Typed, Actor
<1>2. ASSUME selection.file = actor[a].file PROVE selection.generation \in Nat
  BY <1>2 DEF Typed, Selection, NoSelection
<1>3. ASSUME NEW g \in Nat PROVE [file |-> actor[a].file, checked |-> FALSE, generation |-> g] \in Cleanup
  BY <1>1 DEF Cleanup
<1>4. (IF selection.file = actor[a].file THEN selection.generation ELSE 0) \in Nat  BY <1>2
<1> QED  BY <1>3, <1>4 DEF NewCleanup

(* activate_file leads on, or to the selection of the file.                 *)
LEMMA Activates ==
  ASSUME NEW a, NEW next, NEW es, ActivateThen(a, next, es), native \in BOOLEAN
  PROVE  \E p, q : /\ q = next /\ (p = q \/ (p = "generation" /\ ~native))
                   /\ actor' = [actor EXCEPT ![a].pc = p, ![a].next = q]
<1>1. CASE registry # 0 /\ ~native /\ MultiFile
  BY <1>1 DEF ActivateThen
<1>2. CASE ~(registry # 0 /\ ~native /\ MultiFile)
  BY <1>2 DEF ActivateThen
<1> QED  BY <1>1, <1>2


LEMMA OneAged ==
  ASSUME LInv, NEW a, a \in Actors, Streams(actor[a]), actor[a].pc \notin Gone \cup {"new", "adding"},
         engines' = [engines EXCEPT ![actor[a].engine].aged = FALSE]
  PROVE  Edited(engines, engines', actor[a].engine, 0)
<1>1. PICK e, t, d : e = actor[a].engine /\ t = engines' /\ d = 0  OBVIOUS
<1>2. e \in 1..Len(engines)
  <2>1. Sound(actor[a], Len(engines)) /\ actor[a] \in Actor /\ engines \in Seq(Box)  BY DEF LInv, Typed
  <2>2. e \in Nat  BY <1>1, <2>1, LifecycleAssumption DEF Actor, Ids
  <2> QED  BY <1>1, <2>1, <2>2 DEF Sound, Gone
<1>3. engines \in Seq(Box) /\ d \in {-1, 0, 1} /\ d = 0 /\ t = [engines EXCEPT ![e].aged = FALSE]
  BY <1>1 DEF LInv, Typed
<1>4. Edited(engines, t, e, d)  BY <1>2, <1>3, EditedEngines
<1> QED  BY <1>1, <1>4

LEMMA OneReaderLess ==
  ASSUME LInv, NEW a, a \in Actors, Streams(actor[a]), actor[a].pc \notin Gone \cup {"new", "adding"},
         engines' = [engines EXCEPT ![actor[a].engine].readers = @ - 1]
  PROVE  Edited(engines, engines', actor[a].engine, -1)
<1>1. PICK e, t, d : e = actor[a].engine /\ t = engines' /\ d = -1  OBVIOUS
<1>2. e \in 1..Len(engines)
  <2>1. Sound(actor[a], Len(engines)) /\ actor[a] \in Actor /\ engines \in Seq(Box)  BY DEF LInv, Typed
  <2>2. e \in Nat  BY <1>1, <2>1, LifecycleAssumption DEF Actor, Ids
  <2> QED  BY <1>1, <2>1, <2>2 DEF Sound, Gone
<1>3. engines \in Seq(Box) /\ d \in {-1, 0, 1} /\ (d = -1) /\ t = [engines EXCEPT ![e].readers = @ - 1]
  BY <1>1 DEF LInv, Typed
<1>4. Edited(engines, t, e, d)  BY <1>2, <1>3, EditedEngines
<1> QED  BY <1>1, <1>4

LEMMA LookupMissingKeeps == ASSUME LInv, NEW a, a \in Actors, LookupMissing(a) PROVE LInv'
<1>1. Typed /\ actor[a] \in Actor /\ Sound(actor[a], Len(engines))  BY DEF LInv, Typed
<1>2. CASE TRUE
  <2>1. PICK p, t : p = "adding" /\ t = session'  OBVIOUS
  <2>2. p \in Pcs /\ t \in Ids
    BY <1>2, <1>1, <2>1, LifecycleAssumption
    DEF LookupMissing, Typed, Actor, Pcs, Ids, At, backend, playback
  <2>3. actor' = [actor EXCEPT ![a].pc = p, ![a].torrent = t]
    BY <1>2, <2>1 DEF LookupMissing, Goto, At, backend, playback
  <2>4. Now(a, p, actor[a].next, actor[a].engine, actor[a].counted)  BY <1>1, <2>2, <2>3, TorrentMoves
  <2>5. At(a, "new") /\ engines' = engines /\ session' \in 0..added' /\ added' \in Ids /\ actor[a].op \in {"stream", "hls", "refresh"}
    BY <1>2, <1>1, <2>1, LifecycleAssumption
    DEF LookupMissing, At, Sound, Streams, Ids, Typed, Actor, Streaming, backend, playback
  <2>6. Edited(engines, engines', actor[a].engine, 0)  BY <1>1, <2>5, SameEngines
  <2>7. Typed'
    <3>1. engines' \in Seq(Box) /\ Len(engines') = Len(engines) /\ Len(engines) \in Nat
      BY <1>1, <2>6 DEF Edited, Typed
    <3>2. actor' \in [Actors -> Actor]  BY <2>4 DEF Now, Moves
    <3>3. native' \in BOOLEAN /\ registry' \in 0..Len(engines') /\ Len(engines') <= MaxEngines
      BY <1>2, <1>1, <3>1 DEF Typed, LookupMissing, backend, playback, counters
    <3>4. added' \in Ids /\ session' \in 0..added'
      BY <1>2, <1>1, <2>5 DEF Typed, LookupMissing, backend, playback, counters
    <3>5. streams' \in Int /\ fileStreams' \in [Files -> Nat] /\ sweep' \in Sweeps /\ cleanups' \subseteq Cleanup
      BY <1>2, <1>1, <2>5, CleanupTyped DEF Typed, LookupMissing, backend, playback, counters
    <3>6. lease' \in [Files -> {"none", "live", "expired"}] /\ selection' \in Selection /\ generation' \in Nat
      BY <1>2, <1>1, <2>1, <2>5 DEF Typed, Actor, Selection, LookupMissing, backend, playback, counters
    <3>7. activeFile' \in Files \cup {NoFile, "other"}
      BY <1>2, <1>1, <2>5 DEF Typed, Actor, LookupMissing, backend, playback, counters
    <3> QED  BY <3>1, <3>2, <3>3, <3>4, <3>5, <3>6, <3>7 DEF Typed
  <2>8. Sound(actor[a], Len(engines))'
    <3>1. Len(engines') = Len(engines) /\ native' = native  BY <2>6, <1>2 DEF Edited, LookupMissing
    <3> QED
      BY <1>2, <1>1, <2>1, <2>4, <2>5, <3>1
      DEF LookupMissing, At, Sound, Now, Moves, Streams, backend, playback
  <2>9. UNCHANGED <<native, streams, fileStreams>>
    BY <1>2 DEF LookupMissing, counters, backend, playback
  <2>10. PICK d : d = 0  OBVIOUS
  <2>11. actor[a].engine = 0 \/ (~Streams(actor[a]) /\ d = 0) \/ (Streams(actor[a]) /\ d = (IF p \in Gone THEN 0 ELSE 1) - (IF actor[a].pc \in Gone THEN 0 ELSE 1))
    BY <1>1, <2>1, <2>5, <2>10 DEF Sound, Streams, Gone, At, backend, playback
  <2>12. actor[a].pc # "endFile" /\ p # "endFile"  BY <1>1, <2>1, <2>5 DEF At, Sound, backend, playback
  <2> QED  BY <2>4, <2>6, <2>7, <2>8, <2>9, <2>10, <2>11, <2>12, StepKeeps
<1> QED  BY <1>2

LEMMA AddFailsKeeps == ASSUME LInv, NEW a, a \in Actors, AddFails(a) PROVE LInv'
<1>1. Typed /\ actor[a] \in Actor /\ Sound(actor[a], Len(engines))  BY DEF LInv, Typed
<1>2. CASE TRUE
  <2>1. PICK p : p = "done"  OBVIOUS
  <2>2. p \in Pcs
    BY <1>2, <1>1, <2>1, LifecycleAssumption DEF AddFails, Typed, Actor, Pcs, Ids, At, backend, playback
  <2>3. actor' = [actor EXCEPT ![a].pc = p]
    BY <1>2, <2>1 DEF AddFails, Goto, At, backend, playback
  <2>4. Now(a, p, actor[a].next, actor[a].engine, actor[a].counted)  BY <1>1, <2>2, <2>3, PcMoves
  <2>5. At(a, "new") /\ engines' = engines
    BY <1>2, <1>1, <2>1, LifecycleAssumption
    DEF AddFails, At, Sound, Streams, Ids, Typed, Actor, Streaming, backend, playback
  <2>6. Edited(engines, engines', actor[a].engine, 0)  BY <1>1, <2>5, SameEngines
  <2>7. Typed'
    <3>1. engines' \in Seq(Box) /\ Len(engines') = Len(engines) /\ Len(engines) \in Nat
      BY <1>1, <2>6 DEF Edited, Typed
    <3>2. actor' \in [Actors -> Actor]  BY <2>4 DEF Now, Moves
    <3>3. native' \in BOOLEAN /\ registry' \in 0..Len(engines') /\ Len(engines') <= MaxEngines
      BY <1>2, <1>1, <3>1 DEF Typed, AddFails, backend, playback, counters
    <3>4. added' \in Ids /\ session' \in 0..added'
      BY <1>2, <1>1, <2>5 DEF Typed, AddFails, backend, playback, counters
    <3>5. streams' \in Int /\ fileStreams' \in [Files -> Nat] /\ sweep' \in Sweeps /\ cleanups' \subseteq Cleanup
      BY <1>2, <1>1, <2>5, CleanupTyped DEF Typed, AddFails, backend, playback, counters
    <3>6. lease' \in [Files -> {"none", "live", "expired"}] /\ selection' \in Selection /\ generation' \in Nat
      BY <1>2, <1>1, <2>1, <2>5 DEF Typed, Actor, Selection, AddFails, backend, playback, counters
    <3>7. activeFile' \in Files \cup {NoFile, "other"}
      BY <1>2, <1>1, <2>5 DEF Typed, Actor, AddFails, backend, playback, counters
    <3> QED  BY <3>1, <3>2, <3>3, <3>4, <3>5, <3>6, <3>7 DEF Typed
  <2>8. Sound(actor[a], Len(engines))'
    <3>1. Len(engines') = Len(engines) /\ native' = native  BY <2>6, <1>2 DEF Edited, AddFails
    <3> QED
      BY <1>2, <1>1, <2>1, <2>4, <2>5, <3>1
      DEF AddFails, At, Sound, Now, Moves, Streams, backend, playback
  <2>9. UNCHANGED <<native, streams, fileStreams>>  BY <1>2 DEF AddFails, counters, backend, playback
  <2>10. PICK d : d = 0  OBVIOUS
  <2>11. actor[a].engine = 0 \/ (~Streams(actor[a]) /\ d = 0) \/ (Streams(actor[a]) /\ d = (IF p \in Gone THEN 0 ELSE 1) - (IF actor[a].pc \in Gone THEN 0 ELSE 1))
    BY <1>1, <2>1, <2>5, <2>10 DEF Sound, Streams, Gone, At, backend, playback
  <2>12. actor[a].pc # "endFile" /\ p # "endFile"  BY <1>1, <2>1, <2>5 DEF At, Sound, backend, playback
  <2> QED  BY <2>4, <2>6, <2>7, <2>8, <2>9, <2>10, <2>11, <2>12, StepKeeps
<1> QED  BY <1>2

LEMMA RefusedKeeps == ASSUME LInv, NEW a, a \in Actors, Refused(a) PROVE LInv'
<1>1. Typed /\ actor[a] \in Actor /\ Sound(actor[a], Len(engines))  BY DEF LInv, Typed
<1>2. CASE TRUE
  <2>1. PICK p : p = "done"  OBVIOUS
  <2>2. p \in Pcs
    BY <1>2, <1>1, <2>1, LifecycleAssumption DEF Refused, Typed, Actor, Pcs, Ids, At, backend, playback
  <2>3. actor' = [actor EXCEPT ![a].pc = p]
    BY <1>2, <2>1 DEF Refused, Goto, At, backend, playback
  <2>4. Now(a, p, actor[a].next, actor[a].engine, actor[a].counted)  BY <1>1, <2>2, <2>3, PcMoves
  <2>5. At(a, "resolving") /\ engines' = [engines EXCEPT ![actor[a].engine].readers = @ - 1] /\ Streams(actor[a])
    BY <1>2, <1>1, <2>1, LifecycleAssumption
    DEF Refused, At, Sound, Streams, Ids, Typed, Actor, Streaming, backend, playback
  <2>6. Edited(engines, engines', actor[a].engine, -1)  BY <2>5, OneReaderLess DEF Gone, At
  <2>7. Typed'
    <3>1. engines' \in Seq(Box) /\ Len(engines') = Len(engines) /\ Len(engines) \in Nat
      BY <1>1, <2>6 DEF Edited, Typed
    <3>2. actor' \in [Actors -> Actor]  BY <2>4 DEF Now, Moves
    <3>3. native' \in BOOLEAN /\ registry' \in 0..Len(engines') /\ Len(engines') <= MaxEngines
      BY <1>2, <1>1, <3>1 DEF Typed, Refused, backend, playback, counters
    <3>4. added' \in Ids /\ session' \in 0..added'
      BY <1>2, <1>1, <2>5 DEF Typed, Refused, backend, playback, counters
    <3>5. streams' \in Int /\ fileStreams' \in [Files -> Nat] /\ sweep' \in Sweeps /\ cleanups' \subseteq Cleanup
      BY <1>2, <1>1, <2>5, CleanupTyped DEF Typed, Refused, backend, playback, counters
    <3>6. lease' \in [Files -> {"none", "live", "expired"}] /\ selection' \in Selection /\ generation' \in Nat
      BY <1>2, <1>1, <2>1, <2>5 DEF Typed, Actor, Selection, Refused, backend, playback, counters
    <3>7. activeFile' \in Files \cup {NoFile, "other"}
      BY <1>2, <1>1, <2>5 DEF Typed, Actor, Refused, backend, playback, counters
    <3> QED  BY <3>1, <3>2, <3>3, <3>4, <3>5, <3>6, <3>7 DEF Typed
  <2>8. Sound(actor[a], Len(engines))'
    <3>1. Len(engines') = Len(engines) /\ native' = native  BY <2>6, <1>2 DEF Edited, Refused
    <3> QED
      BY <1>2, <1>1, <2>1, <2>4, <2>5, <3>1
      DEF Refused, At, Sound, Now, Moves, Streams, backend, playback
  <2>9. UNCHANGED <<native, streams, fileStreams>>  BY <1>2 DEF Refused, counters, backend, playback
  <2>10. PICK d : d = -1  OBVIOUS
  <2>11. actor[a].engine = 0 \/ (~Streams(actor[a]) /\ d = 0) \/ (Streams(actor[a]) /\ d = (IF p \in Gone THEN 0 ELSE 1) - (IF actor[a].pc \in Gone THEN 0 ELSE 1))
    BY <1>1, <2>1, <2>5, <2>10 DEF Sound, Streams, Gone, At, backend, playback
  <2>12. actor[a].pc # "endFile" /\ p # "endFile"  BY <1>1, <2>1, <2>5 DEF At, Sound, backend, playback
  <2> QED  BY <2>4, <2>6, <2>7, <2>8, <2>9, <2>10, <2>11, <2>12, StepKeeps
<1> QED  BY <1>2

LEMMA StreamStartsKeeps == ASSUME LInv, NEW a, a \in Actors, StreamStarts(a) PROVE LInv'
<1>1. Typed /\ actor[a] \in Actor /\ Sound(actor[a], Len(engines))  BY DEF LInv, Typed
<1>2. CASE TRUE
  <2>1. PICK p, q : /\ q = "count" /\ (p = q \/ (p = "generation" /\ ~native))
                   /\ actor' = [actor EXCEPT ![a].pc = p, ![a].next = q]
    <3>1. PICK n, es : n = "count" /\ es = Touched /\ ActivateThen(a, n, es)  BY DEF StreamStarts
    <3>2. native \in BOOLEAN  BY <1>1 DEF Typed
    <3>3. ActivateThen(a, n, es)  BY <3>1
    <3>4. \E p, q : /\ q = n /\ (p = q \/ (p = "generation" /\ ~native))
                   /\ actor' = [actor EXCEPT ![a].pc = p, ![a].next = q]
      BY <3>2, <3>3, Activates
    <3> QED  BY <3>1, <3>4
  <2>2. p \in Pcs /\ q \in Pcs  BY <2>1 DEF Pcs, backend, playback, ActivateThen
  <2>3. actor' = [actor EXCEPT ![a].pc = p, ![a].next = q]  BY <2>1
  <2>4. Now(a, p, q, actor[a].engine, actor[a].counted)  BY <1>1, <2>2, <2>3, NextMoves
  <2>5. At(a, "resolving") /\ engines' = Touched /\ Streams(actor[a]) /\ activeFile' \in Files /\ actor[a].counted = 0
    BY <1>2, <1>1, <2>1, LifecycleAssumption
    DEF StreamStarts, At, Sound, Streams, Ids, Typed, Actor, Streaming, backend, playback, ActivateThen
  <2>6. Edited(engines, engines', actor[a].engine, 0)  BY <1>1, <2>5, AnyTouched
  <2>7. Typed'
    <3>1. engines' \in Seq(Box) /\ Len(engines') = Len(engines) /\ Len(engines) \in Nat
      BY <1>1, <2>6 DEF Edited, Typed
    <3>2. actor' \in [Actors -> Actor]  BY <2>4 DEF Now, Moves
    <3>3. native' \in BOOLEAN /\ registry' \in 0..Len(engines') /\ Len(engines') <= MaxEngines
      BY <1>2, <1>1, <3>1 DEF Typed, StreamStarts, backend, playback, ActivateThen, counters
    <3>4. added' \in Ids /\ session' \in 0..added'
      BY <1>2, <1>1, <2>5 DEF Typed, StreamStarts, backend, playback, ActivateThen, counters
    <3>5. streams' \in Int /\ fileStreams' \in [Files -> Nat] /\ sweep' \in Sweeps /\ cleanups' \subseteq Cleanup
      BY <1>2, <1>1, <2>5, CleanupTyped
      DEF Typed, StreamStarts, backend, playback, ActivateThen, counters
    <3>6. lease' \in [Files -> {"none", "live", "expired"}] /\ selection' \in Selection /\ generation' \in Nat
      BY <1>2, <1>1, <2>1, <2>5
      DEF Typed, Actor, Selection, StreamStarts, backend, playback, ActivateThen, counters
    <3>7. activeFile' \in Files \cup {NoFile, "other"}
      BY <1>2, <1>1, <2>5 DEF Typed, Actor, StreamStarts, backend, playback, ActivateThen, counters
    <3> QED  BY <3>1, <3>2, <3>3, <3>4, <3>5, <3>6, <3>7 DEF Typed
  <2>8. Sound(actor[a], Len(engines))'
    <3>1. Len(engines') = Len(engines) /\ native' = native  BY <2>6, <1>2 DEF Edited, StreamStarts
    <3> QED
      BY <1>2, <1>1, <2>1, <2>4, <2>5, <3>1
      DEF StreamStarts, At, Sound, Now, Moves, Streams, backend, playback, ActivateThen
  <2>9. UNCHANGED <<native, streams, fileStreams>>
    BY <1>2 DEF StreamStarts, counters, backend, playback, ActivateThen
  <2>10. PICK d : d = 0  OBVIOUS
  <2>11. actor[a].engine = 0 \/ (~Streams(actor[a]) /\ d = 0) \/ (Streams(actor[a]) /\ d = (IF p \in Gone THEN 0 ELSE 1) - (IF actor[a].pc \in Gone THEN 0 ELSE 1))
    BY <1>1, <2>1, <2>5, <2>10 DEF Sound, Streams, Gone, At, backend, playback, ActivateThen
  <2>12. actor[a].pc # "endFile" /\ p # "endFile"
    BY <1>1, <2>1, <2>5 DEF At, Sound, backend, playback, ActivateThen
  <2> QED  BY <2>4, <2>6, <2>7, <2>8, <2>9, <2>10, <2>11, <2>12, StepKeeps
<1> QED  BY <1>2

LEMMA RefreshLeaseKeeps == ASSUME LInv, NEW a, a \in Actors, RefreshLease(a) PROVE LInv'
<1>1. Typed /\ actor[a] \in Actor /\ Sound(actor[a], Len(engines))  BY DEF LInv, Typed
<1>2. CASE registry # 0 /\ ActivateThen(a, AfterLease(a), Touched)
  <2>1. PICK p, q : /\ q = AfterLease(a) /\ (p = q \/ (p = "generation" /\ ~native))
                   /\ actor' = [actor EXCEPT ![a].pc = p, ![a].next = q]
    <3>1. PICK n, es : n = AfterLease(a) /\ es = Touched /\ ActivateThen(a, n, es)  BY <1>2
    <3>2. native \in BOOLEAN  BY <1>1 DEF Typed
    <3>3. ActivateThen(a, n, es)  BY <3>1
    <3>4. \E p, q : /\ q = n /\ (p = q \/ (p = "generation" /\ ~native))
                   /\ actor' = [actor EXCEPT ![a].pc = p, ![a].next = q]
      BY <3>2, <3>3, Activates
    <3> QED  BY <3>1, <3>4
  <2>2. p \in Pcs /\ q \in Pcs  BY <2>1 DEF Pcs, backend, playback, ActivateThen, AfterLease
  <2>3. actor' = [actor EXCEPT ![a].pc = p, ![a].next = q]  BY <2>1
  <2>4. Now(a, p, q, actor[a].engine, actor[a].counted)  BY <1>1, <2>2, <2>3, NextMoves
  <2>5. At(a, "lease") /\ engines' = Touched /\ activeFile' \in Files
    BY <1>2, <1>1, <2>1, LifecycleAssumption
    DEF RefreshLease, At, Sound, Streams, Ids, Typed, Actor, Streaming, backend, playback, ActivateThen,
      AfterLease
  <2>6. Edited(engines, engines', actor[a].engine, 0)  BY <1>1, <2>5, AnyTouched
  <2>7. Typed'
    <3>1. engines' \in Seq(Box) /\ Len(engines') = Len(engines) /\ Len(engines) \in Nat
      BY <1>1, <2>6 DEF Edited, Typed
    <3>2. actor' \in [Actors -> Actor]  BY <2>4 DEF Now, Moves
    <3>3. native' \in BOOLEAN /\ registry' \in 0..Len(engines') /\ Len(engines') <= MaxEngines
      BY <1>2, <1>1, <3>1 DEF Typed, RefreshLease, backend, playback, ActivateThen, AfterLease, counters
    <3>4. added' \in Ids /\ session' \in 0..added'
      BY <1>2, <1>1, <2>5 DEF Typed, RefreshLease, backend, playback, ActivateThen, AfterLease, counters
    <3>5. streams' \in Int /\ fileStreams' \in [Files -> Nat] /\ sweep' \in Sweeps /\ cleanups' \subseteq Cleanup
      BY <1>2, <1>1, <2>5, CleanupTyped
      DEF Typed, RefreshLease, backend, playback, ActivateThen, AfterLease, counters
    <3>6. lease' \in [Files -> {"none", "live", "expired"}] /\ selection' \in Selection /\ generation' \in Nat
      BY <1>2, <1>1, <2>1, <2>5
      DEF Typed, Actor, Selection, RefreshLease, backend, playback, ActivateThen, AfterLease, counters
    <3>7. activeFile' \in Files \cup {NoFile, "other"}
      BY <1>2, <1>1, <2>5
      DEF Typed, Actor, RefreshLease, backend, playback, ActivateThen, AfterLease, counters
    <3> QED  BY <3>1, <3>2, <3>3, <3>4, <3>5, <3>6, <3>7 DEF Typed
  <2>8. Sound(actor[a], Len(engines))'
    <3>1. Len(engines') = Len(engines) /\ native' = native  BY <2>6, <1>2 DEF Edited, RefreshLease
    <3> QED
      BY <1>2, <1>1, <2>1, <2>4, <2>5, <3>1
      DEF RefreshLease, At, Sound, Now, Moves, Streams, backend, playback, ActivateThen, AfterLease
  <2>9. UNCHANGED <<native, streams, fileStreams>>
    BY <1>2 DEF RefreshLease, counters, backend, playback, ActivateThen, AfterLease
  <2>10. PICK d : d = 0  OBVIOUS
  <2>11. actor[a].engine = 0 \/ (~Streams(actor[a]) /\ d = 0) \/ (Streams(actor[a]) /\ d = (IF p \in Gone THEN 0 ELSE 1) - (IF actor[a].pc \in Gone THEN 0 ELSE 1))
    BY <1>1, <2>1, <2>5, <2>10 DEF Sound, Streams, Gone, At, backend, playback, ActivateThen, AfterLease
  <2>12. actor[a].pc # "endFile" /\ p # "endFile"
    BY <1>1, <2>1, <2>5 DEF At, Sound, backend, playback, ActivateThen, AfterLease
  <2> QED  BY <2>4, <2>6, <2>7, <2>8, <2>9, <2>10, <2>11, <2>12, StepKeeps
<1>3. CASE registry = 0 /\ Goto(a, AfterLease(a)) /\ UNCHANGED <<engines, activeFile>>
  <2>1. PICK p : p = AfterLease(a)  OBVIOUS
  <2>2. p \in Pcs
    BY <1>3, <1>1, <2>1, LifecycleAssumption
    DEF RefreshLease, Typed, Actor, Pcs, Ids, At, backend, playback, ActivateThen, AfterLease
  <2>3. actor' = [actor EXCEPT ![a].pc = p]
    BY <1>3, <2>1 DEF RefreshLease, Goto, At, backend, playback, ActivateThen, AfterLease
  <2>4. Now(a, p, actor[a].next, actor[a].engine, actor[a].counted)  BY <1>1, <2>2, <2>3, PcMoves
  <2>5. At(a, "lease") /\ engines' = engines /\ activeFile' = activeFile
    BY <1>3, <1>1, <2>1, LifecycleAssumption
    DEF RefreshLease, At, Sound, Streams, Ids, Typed, Actor, Streaming, backend, playback, ActivateThen,
      AfterLease
  <2>6. Edited(engines, engines', actor[a].engine, 0)  BY <1>1, <2>5, SameEngines
  <2>7. Typed'
    <3>1. engines' \in Seq(Box) /\ Len(engines') = Len(engines) /\ Len(engines) \in Nat
      BY <1>1, <2>6 DEF Edited, Typed
    <3>2. actor' \in [Actors -> Actor]  BY <2>4 DEF Now, Moves
    <3>3. native' \in BOOLEAN /\ registry' \in 0..Len(engines') /\ Len(engines') <= MaxEngines
      BY <1>3, <1>1, <3>1 DEF Typed, RefreshLease, backend, playback, ActivateThen, AfterLease, counters
    <3>4. added' \in Ids /\ session' \in 0..added'
      BY <1>3, <1>1, <2>5 DEF Typed, RefreshLease, backend, playback, ActivateThen, AfterLease, counters
    <3>5. streams' \in Int /\ fileStreams' \in [Files -> Nat] /\ sweep' \in Sweeps /\ cleanups' \subseteq Cleanup
      BY <1>3, <1>1, <2>5, CleanupTyped
      DEF Typed, RefreshLease, backend, playback, ActivateThen, AfterLease, counters
    <3>6. lease' \in [Files -> {"none", "live", "expired"}] /\ selection' \in Selection /\ generation' \in Nat
      BY <1>3, <1>1, <2>1, <2>5
      DEF Typed, Actor, Selection, RefreshLease, backend, playback, ActivateThen, AfterLease, counters
    <3>7. activeFile' \in Files \cup {NoFile, "other"}
      BY <1>3, <1>1, <2>5
      DEF Typed, Actor, RefreshLease, backend, playback, ActivateThen, AfterLease, counters
    <3> QED  BY <3>1, <3>2, <3>3, <3>4, <3>5, <3>6, <3>7 DEF Typed
  <2>8. Sound(actor[a], Len(engines))'
    <3>1. Len(engines') = Len(engines) /\ native' = native  BY <2>6, <1>3 DEF Edited, RefreshLease
    <3> QED
      BY <1>3, <1>1, <2>1, <2>4, <2>5, <3>1
      DEF RefreshLease, At, Sound, Now, Moves, Streams, backend, playback, ActivateThen, AfterLease
  <2>9. UNCHANGED <<native, streams, fileStreams>>
    BY <1>3 DEF RefreshLease, counters, backend, playback, ActivateThen, AfterLease
  <2>10. PICK d : d = 0  OBVIOUS
  <2>11. actor[a].engine = 0 \/ (~Streams(actor[a]) /\ d = 0) \/ (Streams(actor[a]) /\ d = (IF p \in Gone THEN 0 ELSE 1) - (IF actor[a].pc \in Gone THEN 0 ELSE 1))
    BY <1>1, <2>1, <2>5, <2>10 DEF Sound, Streams, Gone, At, backend, playback, ActivateThen, AfterLease
  <2>12. actor[a].pc # "endFile" /\ p # "endFile"
    BY <1>1, <2>1, <2>5 DEF At, Sound, backend, playback, ActivateThen, AfterLease
  <2> QED  BY <2>4, <2>6, <2>7, <2>8, <2>9, <2>10, <2>11, <2>12, StepKeeps
<1> QED  BY <1>2, <1>3 DEF RefreshLease, Goto

LEMMA ReselectKeeps == ASSUME LInv, NEW a, a \in Actors, Reselect(a) PROVE LInv'
<1>1. Typed /\ actor[a] \in Actor /\ Sound(actor[a], Len(engines))  BY DEF LInv, Typed
<1>2. CASE TRUE
  <2>1. PICK p, q : /\ q = "open" /\ (p = q \/ (p = "generation" /\ ~native))
                   /\ actor' = [actor EXCEPT ![a].pc = p, ![a].next = q]
    BY <1>1 DEF Reselect, Managed, Typed
  <2>2. p \in Pcs /\ q \in Pcs  BY <2>1 DEF Pcs, backend, playback, Managed
  <2>3. actor' = [actor EXCEPT ![a].pc = p, ![a].next = q]  BY <2>1
  <2>4. Now(a, p, q, actor[a].engine, actor[a].counted)  BY <1>1, <2>2, <2>3, NextMoves
  <2>5. At(a, "reselect") /\ engines' = Touched /\ Streams(actor[a])
    BY <1>2, <1>1, <2>1, LifecycleAssumption
    DEF Reselect, At, Sound, Streams, Ids, Typed, Actor, Streaming, backend, playback, Managed
  <2>6. Edited(engines, engines', actor[a].engine, 0)  BY <1>1, <2>5, AnyTouched
  <2>7. Typed'
    <3>1. engines' \in Seq(Box) /\ Len(engines') = Len(engines) /\ Len(engines) \in Nat
      BY <1>1, <2>6 DEF Edited, Typed
    <3>2. actor' \in [Actors -> Actor]  BY <2>4 DEF Now, Moves
    <3>3. native' \in BOOLEAN /\ registry' \in 0..Len(engines') /\ Len(engines') <= MaxEngines
      BY <1>2, <1>1, <3>1 DEF Typed, Reselect, backend, playback, Managed, counters
    <3>4. added' \in Ids /\ session' \in 0..added'
      BY <1>2, <1>1, <2>5 DEF Typed, Reselect, backend, playback, Managed, counters
    <3>5. streams' \in Int /\ fileStreams' \in [Files -> Nat] /\ sweep' \in Sweeps /\ cleanups' \subseteq Cleanup
      BY <1>2, <1>1, <2>5, CleanupTyped DEF Typed, Reselect, backend, playback, Managed, counters
    <3>6. lease' \in [Files -> {"none", "live", "expired"}] /\ selection' \in Selection /\ generation' \in Nat
      BY <1>2, <1>1, <2>1, <2>5
      DEF Typed, Actor, Selection, Reselect, backend, playback, Managed, counters
    <3>7. activeFile' \in Files \cup {NoFile, "other"}
      BY <1>2, <1>1, <2>5 DEF Typed, Actor, Reselect, backend, playback, Managed, counters
    <3> QED  BY <3>1, <3>2, <3>3, <3>4, <3>5, <3>6, <3>7 DEF Typed
  <2>8. Sound(actor[a], Len(engines))'
    <3>1. Len(engines') = Len(engines) /\ native' = native  BY <2>6, <1>2 DEF Edited, Reselect
    <3> QED
      BY <1>2, <1>1, <2>1, <2>4, <2>5, <3>1
      DEF Reselect, At, Sound, Now, Moves, Streams, backend, playback, Managed
  <2>9. UNCHANGED <<native, streams, fileStreams>>
    BY <1>2 DEF Reselect, counters, backend, playback, Managed
  <2>10. PICK d : d = 0  OBVIOUS
  <2>11. actor[a].engine = 0 \/ (~Streams(actor[a]) /\ d = 0) \/ (Streams(actor[a]) /\ d = (IF p \in Gone THEN 0 ELSE 1) - (IF actor[a].pc \in Gone THEN 0 ELSE 1))
    BY <1>1, <2>1, <2>5, <2>10 DEF Sound, Streams, Gone, At, backend, playback, Managed
  <2>12. actor[a].pc # "endFile" /\ p # "endFile"
    BY <1>1, <2>1, <2>5 DEF At, Sound, backend, playback, Managed
  <2> QED  BY <2>4, <2>6, <2>7, <2>8, <2>9, <2>10, <2>11, <2>12, StepKeeps
<1> QED  BY <1>2

LEMMA TakeGenerationKeeps == ASSUME LInv, NEW a, a \in Actors, TakeGeneration(a) PROVE LInv'
<1>1. Typed /\ actor[a] \in Actor /\ Sound(actor[a], Len(engines))  BY DEF LInv, Typed
<1>2. CASE registry = 0
  <2>1. PICK p : p = actor[a].next  OBVIOUS
  <2>2. p \in Pcs
    BY <1>2, <1>1, <2>1, LifecycleAssumption
    DEF TakeGeneration, Typed, Actor, Pcs, Ids, At, backend, playback
  <2>3. actor' = [actor EXCEPT ![a].pc = p]
    BY <1>2, <2>1 DEF TakeGeneration, Goto, At, backend, playback
  <2>4. Now(a, p, actor[a].next, actor[a].engine, actor[a].counted)  BY <1>1, <2>2, <2>3, PcMoves
  <2>5. At(a, "generation") /\ engines' = Touched /\ generation' = generation
    BY <1>2, <1>1, <2>1, LifecycleAssumption
    DEF TakeGeneration, At, Sound, Streams, Ids, Typed, Actor, Streaming, backend, playback
  <2>6. Edited(engines, engines', actor[a].engine, 0)  BY <1>1, <2>5, AnyTouched
  <2>7. Typed'
    <3>1. engines' \in Seq(Box) /\ Len(engines') = Len(engines) /\ Len(engines) \in Nat
      BY <1>1, <2>6 DEF Edited, Typed
    <3>2. actor' \in [Actors -> Actor]  BY <2>4 DEF Now, Moves
    <3>3. native' \in BOOLEAN /\ registry' \in 0..Len(engines') /\ Len(engines') <= MaxEngines
      BY <1>2, <1>1, <3>1 DEF Typed, TakeGeneration, backend, playback, counters
    <3>4. added' \in Ids /\ session' \in 0..added'
      BY <1>2, <1>1, <2>5 DEF Typed, TakeGeneration, backend, playback, counters
    <3>5. streams' \in Int /\ fileStreams' \in [Files -> Nat] /\ sweep' \in Sweeps /\ cleanups' \subseteq Cleanup
      BY <1>2, <1>1, <2>5, CleanupTyped DEF Typed, TakeGeneration, backend, playback, counters
    <3>6. lease' \in [Files -> {"none", "live", "expired"}] /\ selection' \in Selection /\ generation' \in Nat
      BY <1>2, <1>1, <2>1, <2>5 DEF Typed, Actor, Selection, TakeGeneration, backend, playback, counters
    <3>7. activeFile' \in Files \cup {NoFile, "other"}
      BY <1>2, <1>1, <2>5 DEF Typed, Actor, TakeGeneration, backend, playback, counters
    <3> QED  BY <3>1, <3>2, <3>3, <3>4, <3>5, <3>6, <3>7 DEF Typed
  <2>8. Sound(actor[a], Len(engines))'
    <3>1. Len(engines') = Len(engines) /\ native' = native  BY <2>6, <1>2 DEF Edited, TakeGeneration
    <3> QED
      BY <1>2, <1>1, <2>1, <2>4, <2>5, <3>1
      DEF TakeGeneration, At, Sound, Now, Moves, Streams, backend, playback
  <2>9. UNCHANGED <<native, streams, fileStreams>>
    BY <1>2 DEF TakeGeneration, counters, backend, playback
  <2>10. PICK d : d = 0  OBVIOUS
  <2>11. actor[a].engine = 0 \/ (~Streams(actor[a]) /\ d = 0) \/ (Streams(actor[a]) /\ d = (IF p \in Gone THEN 0 ELSE 1) - (IF actor[a].pc \in Gone THEN 0 ELSE 1))
    BY <1>1, <2>1, <2>5, <2>10 DEF Sound, Streams, Gone, At, backend, playback
  <2>12. actor[a].pc # "endFile" /\ p # "endFile"  BY <1>1, <2>1, <2>5 DEF At, Sound, backend, playback
  <2> QED  BY <2>4, <2>6, <2>7, <2>8, <2>9, <2>10, <2>11, <2>12, StepKeeps
<1>3. CASE registry # 0
  <2>1. PICK p, g : p = "insert" /\ g = generation'  OBVIOUS
  <2>2. p \in Pcs /\ g \in Nat
    BY <1>3, <1>1, <2>1, LifecycleAssumption
    DEF TakeGeneration, Typed, Actor, Pcs, Ids, At, backend, playback
  <2>3. actor' = [actor EXCEPT ![a].pc = p, ![a].generation = g]
    BY <1>3, <2>1 DEF TakeGeneration, Goto, At, backend, playback
  <2>4. Now(a, p, actor[a].next, actor[a].engine, actor[a].counted)
    BY <1>1, <2>2, <2>3, GenerationMoves
  <2>5. At(a, "generation") /\ engines' = Touched /\ generation' \in Nat
    BY <1>3, <1>1, <2>1, LifecycleAssumption
    DEF TakeGeneration, At, Sound, Streams, Ids, Typed, Actor, Streaming, backend, playback
  <2>6. Edited(engines, engines', actor[a].engine, 0)  BY <1>1, <2>5, AnyTouched
  <2>7. Typed'
    <3>1. engines' \in Seq(Box) /\ Len(engines') = Len(engines) /\ Len(engines) \in Nat
      BY <1>1, <2>6 DEF Edited, Typed
    <3>2. actor' \in [Actors -> Actor]  BY <2>4 DEF Now, Moves
    <3>3. native' \in BOOLEAN /\ registry' \in 0..Len(engines') /\ Len(engines') <= MaxEngines
      BY <1>3, <1>1, <3>1 DEF Typed, TakeGeneration, backend, playback, counters
    <3>4. added' \in Ids /\ session' \in 0..added'
      BY <1>3, <1>1, <2>5 DEF Typed, TakeGeneration, backend, playback, counters
    <3>5. streams' \in Int /\ fileStreams' \in [Files -> Nat] /\ sweep' \in Sweeps /\ cleanups' \subseteq Cleanup
      BY <1>3, <1>1, <2>5, CleanupTyped DEF Typed, TakeGeneration, backend, playback, counters
    <3>6. lease' \in [Files -> {"none", "live", "expired"}] /\ selection' \in Selection /\ generation' \in Nat
      BY <1>3, <1>1, <2>1, <2>5 DEF Typed, Actor, Selection, TakeGeneration, backend, playback, counters
    <3>7. activeFile' \in Files \cup {NoFile, "other"}
      BY <1>3, <1>1, <2>5 DEF Typed, Actor, TakeGeneration, backend, playback, counters
    <3> QED  BY <3>1, <3>2, <3>3, <3>4, <3>5, <3>6, <3>7 DEF Typed
  <2>8. Sound(actor[a], Len(engines))'
    <3>1. Len(engines') = Len(engines) /\ native' = native  BY <2>6, <1>3 DEF Edited, TakeGeneration
    <3> QED
      BY <1>3, <1>1, <2>1, <2>4, <2>5, <3>1
      DEF TakeGeneration, At, Sound, Now, Moves, Streams, backend, playback
  <2>9. UNCHANGED <<native, streams, fileStreams>>
    BY <1>3 DEF TakeGeneration, counters, backend, playback
  <2>10. PICK d : d = 0  OBVIOUS
  <2>11. actor[a].engine = 0 \/ (~Streams(actor[a]) /\ d = 0) \/ (Streams(actor[a]) /\ d = (IF p \in Gone THEN 0 ELSE 1) - (IF actor[a].pc \in Gone THEN 0 ELSE 1))
    BY <1>1, <2>1, <2>5, <2>10 DEF Sound, Streams, Gone, At, backend, playback
  <2>12. actor[a].pc # "endFile" /\ p # "endFile"  BY <1>1, <2>1, <2>5 DEF At, Sound, backend, playback
  <2> QED  BY <2>4, <2>6, <2>7, <2>8, <2>9, <2>10, <2>11, <2>12, StepKeeps
<1> QED  BY <1>2, <1>3 DEF TakeGeneration, Goto

LEMMA InsertSelectionKeeps == ASSUME LInv, NEW a, a \in Actors, InsertSelection(a) PROVE LInv'
<1>1. Typed /\ actor[a] \in Actor /\ Sound(actor[a], Len(engines))  BY DEF LInv, Typed
<1>2. CASE TRUE
  <2>1. PICK p : p = "retain"  OBVIOUS
  <2>2. p \in Pcs
    BY <1>2, <1>1, <2>1, LifecycleAssumption
    DEF InsertSelection, Typed, Actor, Pcs, Ids, At, backend, playback
  <2>3. actor' = [actor EXCEPT ![a].pc = p]
    BY <1>2, <2>1 DEF InsertSelection, Goto, At, backend, playback
  <2>4. Now(a, p, actor[a].next, actor[a].engine, actor[a].counted)  BY <1>1, <2>2, <2>3, PcMoves
  <2>5. At(a, "insert") /\ engines' = engines
    BY <1>2, <1>1, <2>1, LifecycleAssumption
    DEF InsertSelection, At, Sound, Streams, Ids, Typed, Actor, Streaming, backend, playback
  <2>6. Edited(engines, engines', actor[a].engine, 0)  BY <1>1, <2>5, SameEngines
  <2>7. Typed'
    <3>1. engines' \in Seq(Box) /\ Len(engines') = Len(engines) /\ Len(engines) \in Nat
      BY <1>1, <2>6 DEF Edited, Typed
    <3>2. actor' \in [Actors -> Actor]  BY <2>4 DEF Now, Moves
    <3>3. native' \in BOOLEAN /\ registry' \in 0..Len(engines') /\ Len(engines') <= MaxEngines
      BY <1>2, <1>1, <3>1 DEF Typed, InsertSelection, backend, playback, counters
    <3>4. added' \in Ids /\ session' \in 0..added'
      BY <1>2, <1>1, <2>5 DEF Typed, InsertSelection, backend, playback, counters
    <3>5. streams' \in Int /\ fileStreams' \in [Files -> Nat] /\ sweep' \in Sweeps /\ cleanups' \subseteq Cleanup
      BY <1>2, <1>1, <2>5, CleanupTyped DEF Typed, InsertSelection, backend, playback, counters
    <3>6. lease' \in [Files -> {"none", "live", "expired"}] /\ selection' \in Selection /\ generation' \in Nat
      BY <1>2, <1>1, <2>1, <2>5
      DEF Typed, Actor, Selection, InsertSelection, backend, playback, counters
    <3>7. activeFile' \in Files \cup {NoFile, "other"}
      BY <1>2, <1>1, <2>5 DEF Typed, Actor, InsertSelection, backend, playback, counters
    <3> QED  BY <3>1, <3>2, <3>3, <3>4, <3>5, <3>6, <3>7 DEF Typed
  <2>8. Sound(actor[a], Len(engines))'
    <3>1. Len(engines') = Len(engines) /\ native' = native  BY <2>6, <1>2 DEF Edited, InsertSelection
    <3> QED
      BY <1>2, <1>1, <2>1, <2>4, <2>5, <3>1
      DEF InsertSelection, At, Sound, Now, Moves, Streams, backend, playback
  <2>9. UNCHANGED <<native, streams, fileStreams>>
    BY <1>2 DEF InsertSelection, counters, backend, playback
  <2>10. PICK d : d = 0  OBVIOUS
  <2>11. actor[a].engine = 0 \/ (~Streams(actor[a]) /\ d = 0) \/ (Streams(actor[a]) /\ d = (IF p \in Gone THEN 0 ELSE 1) - (IF actor[a].pc \in Gone THEN 0 ELSE 1))
    BY <1>1, <2>1, <2>5, <2>10 DEF Sound, Streams, Gone, At, backend, playback
  <2>12. actor[a].pc # "endFile" /\ p # "endFile"  BY <1>1, <2>1, <2>5 DEF At, Sound, backend, playback
  <2> QED  BY <2>4, <2>6, <2>7, <2>8, <2>9, <2>10, <2>11, <2>12, StepKeeps
<1> QED  BY <1>2

LEMMA RequestDroppedKeeps == ASSUME LInv, NEW a, a \in Actors, RequestDropped(a) PROVE LInv'
<1>1. Typed /\ actor[a] \in Actor /\ Sound(actor[a], Len(engines))  BY DEF LInv, Typed
<1>2. CASE Streaming(a)
  <2>1. PICK p : p = "dropped"  OBVIOUS
  <2>2. p \in Pcs
    BY <1>2, <1>1, <2>1, LifecycleAssumption
    DEF RequestDropped, Typed, Actor, Pcs, Ids, At, backend, playback
  <2>3. actor' = [actor EXCEPT ![a].pc = p]
    BY <1>2, <2>1 DEF RequestDropped, Goto, At, backend, playback
  <2>4. Now(a, p, actor[a].next, actor[a].engine, actor[a].counted)  BY <1>1, <2>2, <2>3, PcMoves
  <2>5. Streams(actor[a]) /\ actor[a].pc \in {"resolving", "count", "countFile", "lease", "reselect", "generation", "insert", "retain"} /\ engines' = [engines EXCEPT ![actor[a].engine].readers = @ - 1]
    BY <1>2, <1>1, <2>1, LifecycleAssumption
    DEF RequestDropped, At, Sound, Streams, Ids, Typed, Actor, Streaming, backend, playback
  <2>6. Edited(engines, engines', actor[a].engine, -1)  BY <2>5, OneReaderLess DEF Gone, At
  <2>7. Typed'
    <3>1. engines' \in Seq(Box) /\ Len(engines') = Len(engines) /\ Len(engines) \in Nat
      BY <1>1, <2>6 DEF Edited, Typed
    <3>2. actor' \in [Actors -> Actor]  BY <2>4 DEF Now, Moves
    <3>3. native' \in BOOLEAN /\ registry' \in 0..Len(engines') /\ Len(engines') <= MaxEngines
      BY <1>2, <1>1, <3>1 DEF Typed, RequestDropped, backend, playback, counters
    <3>4. added' \in Ids /\ session' \in 0..added'
      BY <1>2, <1>1, <2>5 DEF Typed, RequestDropped, backend, playback, counters
    <3>5. streams' \in Int /\ fileStreams' \in [Files -> Nat] /\ sweep' \in Sweeps /\ cleanups' \subseteq Cleanup
      BY <1>2, <1>1, <2>5, CleanupTyped DEF Typed, RequestDropped, backend, playback, counters
    <3>6. lease' \in [Files -> {"none", "live", "expired"}] /\ selection' \in Selection /\ generation' \in Nat
      BY <1>2, <1>1, <2>1, <2>5 DEF Typed, Actor, Selection, RequestDropped, backend, playback, counters
    <3>7. activeFile' \in Files \cup {NoFile, "other"}
      BY <1>2, <1>1, <2>5 DEF Typed, Actor, RequestDropped, backend, playback, counters
    <3> QED  BY <3>1, <3>2, <3>3, <3>4, <3>5, <3>6, <3>7 DEF Typed
  <2>8. Sound(actor[a], Len(engines))'
    <3>1. Len(engines') = Len(engines) /\ native' = native  BY <2>6, <1>2 DEF Edited, RequestDropped
    <3> QED
      BY <1>2, <1>1, <2>1, <2>4, <2>5, <3>1
      DEF RequestDropped, At, Sound, Now, Moves, Streams, backend, playback
  <2>9. UNCHANGED <<native, streams, fileStreams>>
    BY <1>2 DEF RequestDropped, counters, backend, playback
  <2>10. PICK d : d = -1  OBVIOUS
  <2>11. actor[a].engine = 0 \/ (~Streams(actor[a]) /\ d = 0) \/ (Streams(actor[a]) /\ d = (IF p \in Gone THEN 0 ELSE 1) - (IF actor[a].pc \in Gone THEN 0 ELSE 1))
    BY <1>1, <2>1, <2>5, <2>10 DEF Sound, Streams, Gone, At, backend, playback
  <2>12. actor[a].pc # "endFile" /\ p # "endFile"  BY <1>1, <2>1, <2>5 DEF At, Sound, backend, playback
  <2> QED  BY <2>4, <2>6, <2>7, <2>8, <2>9, <2>10, <2>11, <2>12, StepKeeps
<1>3. CASE ~Streaming(a)
  <2>1. PICK p : p = "dropped"  OBVIOUS
  <2>2. p \in Pcs
    BY <1>3, <1>1, <2>1, LifecycleAssumption
    DEF RequestDropped, Typed, Actor, Pcs, Ids, At, backend, playback
  <2>3. actor' = [actor EXCEPT ![a].pc = p]
    BY <1>3, <2>1 DEF RequestDropped, Goto, At, backend, playback
  <2>4. Now(a, p, actor[a].next, actor[a].engine, actor[a].counted)  BY <1>1, <2>2, <2>3, PcMoves
  <2>5. ~Streams(actor[a]) /\ actor[a].pc \in {"resolving", "count", "countFile", "lease", "reselect", "generation", "insert", "retain"} /\ engines' = engines
    BY <1>3, <1>1, <2>1, LifecycleAssumption
    DEF RequestDropped, At, Sound, Streams, Ids, Typed, Actor, Streaming, backend, playback
  <2>6. Edited(engines, engines', actor[a].engine, 0)  BY <1>1, <2>5, SameEngines
  <2>7. Typed'
    <3>1. engines' \in Seq(Box) /\ Len(engines') = Len(engines) /\ Len(engines) \in Nat
      BY <1>1, <2>6 DEF Edited, Typed
    <3>2. actor' \in [Actors -> Actor]  BY <2>4 DEF Now, Moves
    <3>3. native' \in BOOLEAN /\ registry' \in 0..Len(engines') /\ Len(engines') <= MaxEngines
      BY <1>3, <1>1, <3>1 DEF Typed, RequestDropped, backend, playback, counters
    <3>4. added' \in Ids /\ session' \in 0..added'
      BY <1>3, <1>1, <2>5 DEF Typed, RequestDropped, backend, playback, counters
    <3>5. streams' \in Int /\ fileStreams' \in [Files -> Nat] /\ sweep' \in Sweeps /\ cleanups' \subseteq Cleanup
      BY <1>3, <1>1, <2>5, CleanupTyped DEF Typed, RequestDropped, backend, playback, counters
    <3>6. lease' \in [Files -> {"none", "live", "expired"}] /\ selection' \in Selection /\ generation' \in Nat
      BY <1>3, <1>1, <2>1, <2>5 DEF Typed, Actor, Selection, RequestDropped, backend, playback, counters
    <3>7. activeFile' \in Files \cup {NoFile, "other"}
      BY <1>3, <1>1, <2>5 DEF Typed, Actor, RequestDropped, backend, playback, counters
    <3> QED  BY <3>1, <3>2, <3>3, <3>4, <3>5, <3>6, <3>7 DEF Typed
  <2>8. Sound(actor[a], Len(engines))'
    <3>1. Len(engines') = Len(engines) /\ native' = native  BY <2>6, <1>3 DEF Edited, RequestDropped
    <3> QED
      BY <1>3, <1>1, <2>1, <2>4, <2>5, <3>1
      DEF RequestDropped, At, Sound, Now, Moves, Streams, backend, playback
  <2>9. UNCHANGED <<native, streams, fileStreams>>
    BY <1>3 DEF RequestDropped, counters, backend, playback
  <2>10. PICK d : d = 0  OBVIOUS
  <2>11. actor[a].engine = 0 \/ (~Streams(actor[a]) /\ d = 0) \/ (Streams(actor[a]) /\ d = (IF p \in Gone THEN 0 ELSE 1) - (IF actor[a].pc \in Gone THEN 0 ELSE 1))
    BY <1>1, <2>1, <2>5, <2>10 DEF Sound, Streams, Gone, At, backend, playback
  <2>12. actor[a].pc # "endFile" /\ p # "endFile"  BY <1>1, <2>1, <2>5 DEF At, Sound, backend, playback
  <2> QED  BY <2>4, <2>6, <2>7, <2>8, <2>9, <2>10, <2>11, <2>12, StepKeeps
<1> QED  BY <1>2, <1>3 DEF RequestDropped, Goto

LEMMA OpenReaderKeeps == ASSUME LInv, NEW a, a \in Actors, OpenReader(a) PROVE LInv'
<1>1. Typed /\ actor[a] \in Actor /\ Sound(actor[a], Len(engines))  BY DEF LInv, Typed
<1>2. CASE TRUE
  <2>1. PICK p : p = "reading"  OBVIOUS
  <2>2. p \in Pcs
    BY <1>2, <1>1, <2>1, LifecycleAssumption
    DEF OpenReader, Typed, Actor, Pcs, Ids, At, backend, playback
  <2>3. actor' = [actor EXCEPT ![a].pc = p]
    BY <1>2, <2>1 DEF OpenReader, Goto, At, backend, playback
  <2>4. Now(a, p, actor[a].next, actor[a].engine, actor[a].counted)  BY <1>1, <2>2, <2>3, PcMoves
  <2>5. At(a, "open") /\ Streams(actor[a]) /\ engines' = [engines EXCEPT ![actor[a].engine].aged = FALSE]
    BY <1>2, <1>1, <2>1, LifecycleAssumption
    DEF OpenReader, At, Sound, Streams, Ids, Typed, Actor, Streaming, backend, playback
  <2>6. Edited(engines, engines', actor[a].engine, 0)  BY <2>5, OneAged DEF Gone, At
  <2>7. Typed'
    <3>1. engines' \in Seq(Box) /\ Len(engines') = Len(engines) /\ Len(engines) \in Nat
      BY <1>1, <2>6 DEF Edited, Typed
    <3>2. actor' \in [Actors -> Actor]  BY <2>4 DEF Now, Moves
    <3>3. native' \in BOOLEAN /\ registry' \in 0..Len(engines') /\ Len(engines') <= MaxEngines
      BY <1>2, <1>1, <3>1 DEF Typed, OpenReader, backend, playback, counters
    <3>4. added' \in Ids /\ session' \in 0..added'
      BY <1>2, <1>1, <2>5 DEF Typed, OpenReader, backend, playback, counters
    <3>5. streams' \in Int /\ fileStreams' \in [Files -> Nat] /\ sweep' \in Sweeps /\ cleanups' \subseteq Cleanup
      BY <1>2, <1>1, <2>5, CleanupTyped DEF Typed, OpenReader, backend, playback, counters
    <3>6. lease' \in [Files -> {"none", "live", "expired"}] /\ selection' \in Selection /\ generation' \in Nat
      BY <1>2, <1>1, <2>1, <2>5 DEF Typed, Actor, Selection, OpenReader, backend, playback, counters
    <3>7. activeFile' \in Files \cup {NoFile, "other"}
      BY <1>2, <1>1, <2>5 DEF Typed, Actor, OpenReader, backend, playback, counters
    <3> QED  BY <3>1, <3>2, <3>3, <3>4, <3>5, <3>6, <3>7 DEF Typed
  <2>8. Sound(actor[a], Len(engines))'
    <3>1. Len(engines') = Len(engines) /\ native' = native  BY <2>6, <1>2 DEF Edited, OpenReader
    <3> QED
      BY <1>2, <1>1, <2>1, <2>4, <2>5, <3>1
      DEF OpenReader, At, Sound, Now, Moves, Streams, backend, playback
  <2>9. UNCHANGED <<native, streams, fileStreams>>  BY <1>2 DEF OpenReader, counters, backend, playback
  <2>10. PICK d : d = 0  OBVIOUS
  <2>11. actor[a].engine = 0 \/ (~Streams(actor[a]) /\ d = 0) \/ (Streams(actor[a]) /\ d = (IF p \in Gone THEN 0 ELSE 1) - (IF actor[a].pc \in Gone THEN 0 ELSE 1))
    BY <1>1, <2>1, <2>5, <2>10 DEF Sound, Streams, Gone, At, backend, playback
  <2>12. actor[a].pc # "endFile" /\ p # "endFile"  BY <1>1, <2>1, <2>5 DEF At, Sound, backend, playback
  <2> QED  BY <2>4, <2>6, <2>7, <2>8, <2>9, <2>10, <2>11, <2>12, StepKeeps
<1> QED  BY <1>2

LEMMA StreamEndsKeeps == ASSUME LInv, NEW a, a \in Actors, StreamEnds(a) PROVE LInv'
<1>1. Typed /\ actor[a] \in Actor /\ Sound(actor[a], Len(engines))  BY DEF LInv, Typed
<1>2. CASE TRUE
  <2>1. PICK p : p = "ending"  OBVIOUS
  <2>2. p \in Pcs
    BY <1>2, <1>1, <2>1, LifecycleAssumption
    DEF StreamEnds, Typed, Actor, Pcs, Ids, At, backend, playback
  <2>3. actor' = [actor EXCEPT ![a].pc = p]
    BY <1>2, <2>1 DEF StreamEnds, Goto, At, backend, playback
  <2>4. Now(a, p, actor[a].next, actor[a].engine, actor[a].counted)  BY <1>1, <2>2, <2>3, PcMoves
  <2>5. actor[a].pc \in {"open", "reading"} /\ Streams(actor[a]) /\ engines' = [engines EXCEPT ![actor[a].engine].readers = @ - 1]
    BY <1>2, <1>1, <2>1, LifecycleAssumption
    DEF StreamEnds, At, Sound, Streams, Ids, Typed, Actor, Streaming, backend, playback
  <2>6. Edited(engines, engines', actor[a].engine, -1)  BY <2>5, OneReaderLess DEF Gone, At
  <2>7. Typed'
    <3>1. engines' \in Seq(Box) /\ Len(engines') = Len(engines) /\ Len(engines) \in Nat
      BY <1>1, <2>6 DEF Edited, Typed
    <3>2. actor' \in [Actors -> Actor]  BY <2>4 DEF Now, Moves
    <3>3. native' \in BOOLEAN /\ registry' \in 0..Len(engines') /\ Len(engines') <= MaxEngines
      BY <1>2, <1>1, <3>1 DEF Typed, StreamEnds, backend, playback, counters
    <3>4. added' \in Ids /\ session' \in 0..added'
      BY <1>2, <1>1, <2>5 DEF Typed, StreamEnds, backend, playback, counters
    <3>5. streams' \in Int /\ fileStreams' \in [Files -> Nat] /\ sweep' \in Sweeps /\ cleanups' \subseteq Cleanup
      BY <1>2, <1>1, <2>5, CleanupTyped DEF Typed, StreamEnds, backend, playback, counters
    <3>6. lease' \in [Files -> {"none", "live", "expired"}] /\ selection' \in Selection /\ generation' \in Nat
      BY <1>2, <1>1, <2>1, <2>5 DEF Typed, Actor, Selection, StreamEnds, backend, playback, counters
    <3>7. activeFile' \in Files \cup {NoFile, "other"}
      BY <1>2, <1>1, <2>5 DEF Typed, Actor, StreamEnds, backend, playback, counters
    <3> QED  BY <3>1, <3>2, <3>3, <3>4, <3>5, <3>6, <3>7 DEF Typed
  <2>8. Sound(actor[a], Len(engines))'
    <3>1. Len(engines') = Len(engines) /\ native' = native  BY <2>6, <1>2 DEF Edited, StreamEnds
    <3> QED
      BY <1>2, <1>1, <2>1, <2>4, <2>5, <3>1
      DEF StreamEnds, At, Sound, Now, Moves, Streams, backend, playback
  <2>9. UNCHANGED <<native, streams, fileStreams>>  BY <1>2 DEF StreamEnds, counters, backend, playback
  <2>10. PICK d : d = -1  OBVIOUS
  <2>11. actor[a].engine = 0 \/ (~Streams(actor[a]) /\ d = 0) \/ (Streams(actor[a]) /\ d = (IF p \in Gone THEN 0 ELSE 1) - (IF actor[a].pc \in Gone THEN 0 ELSE 1))
    BY <1>1, <2>1, <2>5, <2>10 DEF Sound, Streams, Gone, At, backend, playback
  <2>12. actor[a].pc # "endFile" /\ p # "endFile"  BY <1>1, <2>1, <2>5 DEF At, Sound, backend, playback
  <2> QED  BY <2>4, <2>6, <2>7, <2>8, <2>9, <2>10, <2>11, <2>12, StepKeeps
<1> QED  BY <1>2

LEMMA EndTouchKeeps == ASSUME LInv, NEW a, a \in Actors, EndTouch(a) PROVE LInv'
<1>1. Typed /\ actor[a] \in Actor /\ Sound(actor[a], Len(engines))  BY DEF LInv, Typed
<1>2. CASE TRUE
  <2>1. PICK p : p = "done"  OBVIOUS
  <2>2. p \in Pcs
    BY <1>2, <1>1, <2>1, LifecycleAssumption DEF EndTouch, Typed, Actor, Pcs, Ids, At, backend, playback
  <2>3. actor' = [actor EXCEPT ![a].pc = p]
    BY <1>2, <2>1 DEF EndTouch, Goto, At, backend, playback
  <2>4. Now(a, p, actor[a].next, actor[a].engine, actor[a].counted)  BY <1>1, <2>2, <2>3, PcMoves
  <2>5. At(a, "endTouch") /\ engines' = Touched
    BY <1>2, <1>1, <2>1, LifecycleAssumption
    DEF EndTouch, At, Sound, Streams, Ids, Typed, Actor, Streaming, backend, playback
  <2>6. Edited(engines, engines', actor[a].engine, 0)  BY <1>1, <2>5, AnyTouched
  <2>7. Typed'
    <3>1. engines' \in Seq(Box) /\ Len(engines') = Len(engines) /\ Len(engines) \in Nat
      BY <1>1, <2>6 DEF Edited, Typed
    <3>2. actor' \in [Actors -> Actor]  BY <2>4 DEF Now, Moves
    <3>3. native' \in BOOLEAN /\ registry' \in 0..Len(engines') /\ Len(engines') <= MaxEngines
      BY <1>2, <1>1, <3>1 DEF Typed, EndTouch, backend, playback, counters
    <3>4. added' \in Ids /\ session' \in 0..added'
      BY <1>2, <1>1, <2>5 DEF Typed, EndTouch, backend, playback, counters
    <3>5. streams' \in Int /\ fileStreams' \in [Files -> Nat] /\ sweep' \in Sweeps /\ cleanups' \subseteq Cleanup
      BY <1>2, <1>1, <2>5, CleanupTyped DEF Typed, EndTouch, backend, playback, counters
    <3>6. lease' \in [Files -> {"none", "live", "expired"}] /\ selection' \in Selection /\ generation' \in Nat
      BY <1>2, <1>1, <2>1, <2>5 DEF Typed, Actor, Selection, EndTouch, backend, playback, counters
    <3>7. activeFile' \in Files \cup {NoFile, "other"}
      BY <1>2, <1>1, <2>5 DEF Typed, Actor, EndTouch, backend, playback, counters
    <3> QED  BY <3>1, <3>2, <3>3, <3>4, <3>5, <3>6, <3>7 DEF Typed
  <2>8. Sound(actor[a], Len(engines))'
    <3>1. Len(engines') = Len(engines) /\ native' = native  BY <2>6, <1>2 DEF Edited, EndTouch
    <3> QED
      BY <1>2, <1>1, <2>1, <2>4, <2>5, <3>1
      DEF EndTouch, At, Sound, Now, Moves, Streams, backend, playback
  <2>9. UNCHANGED <<native, streams, fileStreams>>  BY <1>2 DEF EndTouch, counters, backend, playback
  <2>10. PICK d : d = 0  OBVIOUS
  <2>11. actor[a].engine = 0 \/ (~Streams(actor[a]) /\ d = 0) \/ (Streams(actor[a]) /\ d = (IF p \in Gone THEN 0 ELSE 1) - (IF actor[a].pc \in Gone THEN 0 ELSE 1))
    BY <1>1, <2>1, <2>5, <2>10 DEF Sound, Streams, Gone, At, backend, playback
  <2>12. actor[a].pc # "endFile" /\ p # "endFile"  BY <1>1, <2>1, <2>5 DEF At, Sound, backend, playback
  <2> QED  BY <2>4, <2>6, <2>7, <2>8, <2>9, <2>10, <2>11, <2>12, StepKeeps
<1> QED  BY <1>2

LEMMA PollKeeps == ASSUME LInv, NEW a, a \in Actors, Poll(a) PROVE LInv'
<1>1. Typed /\ actor[a] \in Actor /\ Sound(actor[a], Len(engines))  BY DEF LInv, Typed
<1>2. CASE Goto(a, "done") /\ UNCHANGED activeFile
  <2>1. PICK p : p = "done"  OBVIOUS
  <2>2. p \in Pcs
    BY <1>2, <1>1, <2>1, LifecycleAssumption
    DEF Poll, Typed, Actor, Pcs, Ids, At, backend, playback, ActivateThen
  <2>3. actor' = [actor EXCEPT ![a].pc = p]
    BY <1>2, <2>1 DEF Poll, Goto, At, backend, playback, ActivateThen
  <2>4. Now(a, p, actor[a].next, actor[a].engine, actor[a].counted)  BY <1>1, <2>2, <2>3, PcMoves
  <2>5. At(a, "new") /\ engines' = Touched /\ ~Streams(actor[a]) /\ activeFile' = activeFile
    BY <1>2, <1>1, <2>1, LifecycleAssumption
    DEF Poll, At, Sound, Streams, Ids, Typed, Actor, Streaming, backend, playback, ActivateThen
  <2>6. Edited(engines, engines', actor[a].engine, 0)  BY <1>1, <2>5, AnyTouched
  <2>7. Typed'
    <3>1. engines' \in Seq(Box) /\ Len(engines') = Len(engines) /\ Len(engines) \in Nat
      BY <1>1, <2>6 DEF Edited, Typed
    <3>2. actor' \in [Actors -> Actor]  BY <2>4 DEF Now, Moves
    <3>3. native' \in BOOLEAN /\ registry' \in 0..Len(engines') /\ Len(engines') <= MaxEngines
      BY <1>2, <1>1, <3>1 DEF Typed, Poll, backend, playback, ActivateThen, counters
    <3>4. added' \in Ids /\ session' \in 0..added'
      BY <1>2, <1>1, <2>5 DEF Typed, Poll, backend, playback, ActivateThen, counters
    <3>5. streams' \in Int /\ fileStreams' \in [Files -> Nat] /\ sweep' \in Sweeps /\ cleanups' \subseteq Cleanup
      BY <1>2, <1>1, <2>5, CleanupTyped DEF Typed, Poll, backend, playback, ActivateThen, counters
    <3>6. lease' \in [Files -> {"none", "live", "expired"}] /\ selection' \in Selection /\ generation' \in Nat
      BY <1>2, <1>1, <2>1, <2>5
      DEF Typed, Actor, Selection, Poll, backend, playback, ActivateThen, counters
    <3>7. activeFile' \in Files \cup {NoFile, "other"}
      BY <1>2, <1>1, <2>5 DEF Typed, Actor, Poll, backend, playback, ActivateThen, counters
    <3> QED  BY <3>1, <3>2, <3>3, <3>4, <3>5, <3>6, <3>7 DEF Typed
  <2>8. Sound(actor[a], Len(engines))'
    <3>1. Len(engines') = Len(engines) /\ native' = native  BY <2>6, <1>2 DEF Edited, Poll
    <3> QED
      BY <1>2, <1>1, <2>1, <2>4, <2>5, <3>1
      DEF Poll, At, Sound, Now, Moves, Streams, backend, playback, ActivateThen
  <2>9. UNCHANGED <<native, streams, fileStreams>>
    BY <1>2 DEF Poll, counters, backend, playback, ActivateThen
  <2>10. PICK d : d = 0  OBVIOUS
  <2>11. actor[a].engine = 0 \/ (~Streams(actor[a]) /\ d = 0) \/ (Streams(actor[a]) /\ d = (IF p \in Gone THEN 0 ELSE 1) - (IF actor[a].pc \in Gone THEN 0 ELSE 1))
    BY <1>1, <2>1, <2>5, <2>10 DEF Sound, Streams, Gone, At, backend, playback, ActivateThen
  <2>12. actor[a].pc # "endFile" /\ p # "endFile"
    BY <1>1, <2>1, <2>5 DEF At, Sound, backend, playback, ActivateThen
  <2> QED  BY <2>4, <2>6, <2>7, <2>8, <2>9, <2>10, <2>11, <2>12, StepKeeps
<1>3. CASE lease' = lease /\ ActivateThen(a, "done", Touched)
  <2>1. PICK p, q : /\ q = "done" /\ (p = q \/ (p = "generation" /\ ~native))
                   /\ actor' = [actor EXCEPT ![a].pc = p, ![a].next = q]
    <3>1. PICK n, es : n = "done" /\ es = Touched /\ ActivateThen(a, n, es)  BY <1>3
    <3>2. native \in BOOLEAN  BY <1>1 DEF Typed
    <3>3. ActivateThen(a, n, es)  BY <3>1
    <3>4. \E p, q : /\ q = n /\ (p = q \/ (p = "generation" /\ ~native))
                   /\ actor' = [actor EXCEPT ![a].pc = p, ![a].next = q]
      BY <3>2, <3>3, Activates
    <3> QED  BY <3>1, <3>4
  <2>2. p \in Pcs /\ q \in Pcs  BY <2>1 DEF Pcs, backend, playback, ActivateThen
  <2>3. actor' = [actor EXCEPT ![a].pc = p, ![a].next = q]  BY <2>1
  <2>4. Now(a, p, q, actor[a].engine, actor[a].counted)  BY <1>1, <2>2, <2>3, NextMoves
  <2>5. At(a, "new") /\ engines' = Touched /\ ~Streams(actor[a]) /\ activeFile' \in Files
    BY <1>3, <1>1, <2>1, LifecycleAssumption
    DEF Poll, At, Sound, Streams, Ids, Typed, Actor, Streaming, backend, playback, ActivateThen
  <2>6. Edited(engines, engines', actor[a].engine, 0)  BY <1>1, <2>5, AnyTouched
  <2>7. Typed'
    <3>1. engines' \in Seq(Box) /\ Len(engines') = Len(engines) /\ Len(engines) \in Nat
      BY <1>1, <2>6 DEF Edited, Typed
    <3>2. actor' \in [Actors -> Actor]  BY <2>4 DEF Now, Moves
    <3>3. native' \in BOOLEAN /\ registry' \in 0..Len(engines') /\ Len(engines') <= MaxEngines
      BY <1>3, <1>1, <3>1 DEF Typed, Poll, backend, playback, ActivateThen, counters
    <3>4. added' \in Ids /\ session' \in 0..added'
      BY <1>3, <1>1, <2>5 DEF Typed, Poll, backend, playback, ActivateThen, counters
    <3>5. streams' \in Int /\ fileStreams' \in [Files -> Nat] /\ sweep' \in Sweeps /\ cleanups' \subseteq Cleanup
      BY <1>3, <1>1, <2>5, CleanupTyped DEF Typed, Poll, backend, playback, ActivateThen, counters
    <3>6. lease' \in [Files -> {"none", "live", "expired"}] /\ selection' \in Selection /\ generation' \in Nat
      BY <1>3, <1>1, <2>1, <2>5
      DEF Typed, Actor, Selection, Poll, backend, playback, ActivateThen, counters
    <3>7. activeFile' \in Files \cup {NoFile, "other"}
      BY <1>3, <1>1, <2>5 DEF Typed, Actor, Poll, backend, playback, ActivateThen, counters
    <3> QED  BY <3>1, <3>2, <3>3, <3>4, <3>5, <3>6, <3>7 DEF Typed
  <2>8. Sound(actor[a], Len(engines))'
    <3>1. Len(engines') = Len(engines) /\ native' = native  BY <2>6, <1>3 DEF Edited, Poll
    <3> QED
      BY <1>3, <1>1, <2>1, <2>4, <2>5, <3>1
      DEF Poll, At, Sound, Now, Moves, Streams, backend, playback, ActivateThen
  <2>9. UNCHANGED <<native, streams, fileStreams>>
    BY <1>3 DEF Poll, counters, backend, playback, ActivateThen
  <2>10. PICK d : d = 0  OBVIOUS
  <2>11. actor[a].engine = 0 \/ (~Streams(actor[a]) /\ d = 0) \/ (Streams(actor[a]) /\ d = (IF p \in Gone THEN 0 ELSE 1) - (IF actor[a].pc \in Gone THEN 0 ELSE 1))
    BY <1>1, <2>1, <2>5, <2>10 DEF Sound, Streams, Gone, At, backend, playback, ActivateThen
  <2>12. actor[a].pc # "endFile" /\ p # "endFile"
    BY <1>1, <2>1, <2>5 DEF At, Sound, backend, playback, ActivateThen
  <2> QED  BY <2>4, <2>6, <2>7, <2>8, <2>9, <2>10, <2>11, <2>12, StepKeeps
<1> QED  BY <1>2, <1>3 DEF Poll, Goto

LEMMA EndHlsKeeps == ASSUME LInv, NEW a, a \in Actors, EndHls(a) PROVE LInv'
<1>1. Typed /\ actor[a] \in Actor /\ Sound(actor[a], Len(engines))  BY DEF LInv, Typed
<1>2. CASE TRUE
  <2>1. PICK p : p = "done"  OBVIOUS
  <2>2. p \in Pcs
    BY <1>2, <1>1, <2>1, LifecycleAssumption DEF EndHls, Typed, Actor, Pcs, Ids, At, backend, playback
  <2>3. actor' = [actor EXCEPT ![a].pc = p]
    BY <1>2, <2>1 DEF EndHls, Goto, At, backend, playback
  <2>4. Now(a, p, actor[a].next, actor[a].engine, actor[a].counted)  BY <1>1, <2>2, <2>3, PcMoves
  <2>5. At(a, "new") /\ engines' = Touched /\ ~Streams(actor[a])
    BY <1>2, <1>1, <2>1, LifecycleAssumption
    DEF EndHls, At, Sound, Streams, Ids, Typed, Actor, Streaming, backend, playback
  <2>6. Edited(engines, engines', actor[a].engine, 0)  BY <1>1, <2>5, AnyTouched
  <2>7. Typed'
    <3>1. engines' \in Seq(Box) /\ Len(engines') = Len(engines) /\ Len(engines) \in Nat
      BY <1>1, <2>6 DEF Edited, Typed
    <3>2. actor' \in [Actors -> Actor]  BY <2>4 DEF Now, Moves
    <3>3. native' \in BOOLEAN /\ registry' \in 0..Len(engines') /\ Len(engines') <= MaxEngines
      BY <1>2, <1>1, <3>1 DEF Typed, EndHls, backend, playback, counters
    <3>4. added' \in Ids /\ session' \in 0..added'
      BY <1>2, <1>1, <2>5 DEF Typed, EndHls, backend, playback, counters
    <3>5. streams' \in Int /\ fileStreams' \in [Files -> Nat] /\ sweep' \in Sweeps /\ cleanups' \subseteq Cleanup
      BY <1>2, <1>1, <2>5, CleanupTyped DEF Typed, EndHls, backend, playback, counters
    <3>6. lease' \in [Files -> {"none", "live", "expired"}] /\ selection' \in Selection /\ generation' \in Nat
      BY <1>2, <1>1, <2>1, <2>5 DEF Typed, Actor, Selection, EndHls, backend, playback, counters
    <3>7. activeFile' \in Files \cup {NoFile, "other"}
      BY <1>2, <1>1, <2>5 DEF Typed, Actor, EndHls, backend, playback, counters
    <3> QED  BY <3>1, <3>2, <3>3, <3>4, <3>5, <3>6, <3>7 DEF Typed
  <2>8. Sound(actor[a], Len(engines))'
    <3>1. Len(engines') = Len(engines) /\ native' = native  BY <2>6, <1>2 DEF Edited, EndHls
    <3> QED
      BY <1>2, <1>1, <2>1, <2>4, <2>5, <3>1
      DEF EndHls, At, Sound, Now, Moves, Streams, backend, playback
  <2>9. UNCHANGED <<native, streams, fileStreams>>  BY <1>2 DEF EndHls, counters, backend, playback
  <2>10. PICK d : d = 0  OBVIOUS
  <2>11. actor[a].engine = 0 \/ (~Streams(actor[a]) /\ d = 0) \/ (Streams(actor[a]) /\ d = (IF p \in Gone THEN 0 ELSE 1) - (IF actor[a].pc \in Gone THEN 0 ELSE 1))
    BY <1>1, <2>1, <2>5, <2>10 DEF Sound, Streams, Gone, At, backend, playback
  <2>12. actor[a].pc # "endFile" /\ p # "endFile"  BY <1>1, <2>1, <2>5 DEF At, Sound, backend, playback
  <2> QED  BY <2>4, <2>6, <2>7, <2>8, <2>9, <2>10, <2>11, <2>12, StepKeeps
<1> QED  BY <1>2

-----------------------------------------------------------------------------
(* The steps that count a request, or count it out.                         *)

(* A request that is counted was not lost from the counters.                *)
LEMMA CountedOnce ==
  ASSUME LInv, NEW a, a \in Actors
  PROVE  /\ InStreams(actor[a]) => streams >= 1
         /\ actor[a].file \in Files
         /\ native /\ InFile(actor[a], actor[a].file) => fileStreams[actor[a].file] >= 1
<1>1. ASSUME NEW S, S \subseteq Actors, a \in S PROVE Cardinality(S) \in Nat /\ Cardinality(S) >= 1
  <2>1. IsFiniteSet(S)  BY <1>1, FS_Subset, LifecycleAssumption
  <2>2. Cardinality(S) \in Nat /\ Cardinality(S) # 0  BY <1>1, <2>1, FS_CardinalityType, FS_EmptySet
  <2> QED  BY <2>2
<1>2. InStreams(actor[a]) => streams >= 1
  <2>1. StreamSet(actor) \subseteq Actors /\ (InStreams(actor[a]) => a \in StreamSet(actor))
    BY DEF StreamSet
  <2> QED  BY <1>1, <2>1 DEF LInv, Balance
<1>3. actor[a].file \in Files  BY DEF LInv, Typed, Actor
<1>4. native /\ InFile(actor[a], actor[a].file) => fileStreams[actor[a].file] >= 1
  <2>1. PICK f : f = actor[a].file  OBVIOUS
  <2>2. FileSet(actor, f) \subseteq Actors /\ (InFile(actor[a], f) => a \in FileSet(actor, f))
    BY DEF FileSet
  <2>3. native => fileStreams[f] = Cardinality(FileSet(actor, f))  BY <1>3, <2>1 DEF LInv, Balance
  <2> QED  BY <1>1, <2>1, <2>2, <2>3
<1> QED  BY <1>2, <1>3, <1>4

LEMMA CountStreamKeeps == ASSUME LInv, NEW a, a \in Actors, CountStream(a) PROVE LInv'
<1>1. Typed /\ actor[a] \in Actor /\ Sound(actor[a], Len(engines))  BY DEF LInv, Typed
<1>2. PICK p, c : p = "countFile" /\ c = 1  OBVIOUS
<1>3. p \in Pcs /\ c \in 0..2  BY <1>1, <1>2 DEF CountStream, Pcs, AfterCount, Sound, Actor
<1>4. actor' = [actor EXCEPT ![a].pc = p, ![a].counted = c]  BY <1>2 DEF CountStream, Goto
<1>5. Now(a, p, actor[a].next, actor[a].engine, 1)  BY <1>1, <1>2, <1>3, <1>4, CountMoves
<1>6. /\ actor[a].pc = "count" /\ actor[a].counted = 0 /\ engines' = engines /\ native' = native /\ streams' = streams + 1 /\ fileStreams' = fileStreams
  BY <1>1 DEF CountStream, At, Sound, counters, backend
<1>7. Edited(engines, engines', actor[a].engine, 0)  BY <1>1, <1>6, SameEngines
<1>8. /\ Len(engines') = Len(engines)
      /\ \A e \in 1..Len(engines') :
           engines'[e].readers = (IF e <= Len(engines) THEN engines[e].readers ELSE 0)
                             + Bit(InReaders(actor'[a], e)) - Bit(InReaders(actor[a], e))
  <2>1. PICK k, d, q : k = 1 /\ d = 0 /\ q = actor[a].next  OBVIOUS
  <2>2. Now(a, p, q, actor[a].engine, k)  BY <1>5, <2>1
  <2>3. d \in {-1, 0, 1} /\ Edited(engines, engines', actor[a].engine, d)  BY <1>7, <2>1
  <2>4. \/ ~Streams(actor[a]) /\ d = 0
        \/ Streams(actor[a]) /\ d = (IF p \in Gone THEN 0 ELSE 1) - (IF actor[a].pc \in Gone THEN 0 ELSE 1)
    BY <1>1, <1>2, <1>6, <2>1 DEF Gone, AfterCount, Sound, Streams
  <2> QED  BY <2>2, <2>3, <2>4, ReadersFollow
<1>9. /\ actor'[a].pc = p /\ actor'[a].counted = 1 /\ actor'[a].next = actor[a].next
      /\ actor'[a].engine = actor[a].engine
      /\ actor'[a].op = actor[a].op /\ actor'[a].file = actor[a].file /\ Moves(a)
  BY <1>5 DEF Now, Moves
<1>10. streams' = streams + Bit(InStreams(actor'[a])) - Bit(InStreams(actor[a]))
  BY <1>1, <1>2, <1>6, <1>9 DEF InStreams, Bit, Typed, AfterCount, Decremented
<1>11. \A f \in Files :
         fileStreams'[f] = fileStreams[f] + Bit(InFile(actor'[a], f)) - Bit(InFile(actor[a], f))
  <2> TAKE f \in Files
  <2>1. InFile(actor'[a], f) <=> InFile(actor[a], f)  BY <1>2, <1>6, <1>9 DEF InFile
  <2>2. fileStreams[f] \in Nat  BY <1>1 DEF Typed
  <2> QED  BY <1>6, <2>1, <2>2 DEF Bit
<1>12. Follows(a)  BY <1>8, <1>10, <1>11 DEF Follows
<1>13. Typed'
  <2>1. engines' \in Seq(Box) /\ Len(engines') <= MaxEngines /\ native' \in BOOLEAN
    BY <1>1, <1>6 DEF Typed
  <2>2. actor' \in [Actors -> Actor]  BY <1>9 DEF Moves
  <2>3. registry' \in 0..Len(engines') /\ added' \in Ids /\ session' \in 0..added'
    BY <1>1, <1>6 DEF CountStream, backend, Typed
  <2>4. streams' \in Int /\ fileStreams' \in [Files -> Nat]
    BY <1>1, <1>6, LifecycleAssumption DEF CountStream, counters, Typed, Actor, Decremented
  <2>5. /\ lease' \in [Files -> {"none", "live", "expired"}] /\ selection' \in Selection
        /\ generation' \in Nat /\ activeFile' \in Files \cup {NoFile, "other"}
    BY <1>1 DEF CountStream, playback, Typed, Actor
  <2>6. cleanups' \subseteq Cleanup /\ sweep' \in Sweeps  BY <1>1 DEF CountStream, Typed
  <2> QED  BY <2>1, <2>2, <2>3, <2>4, <2>5, <2>6 DEF Typed
<1>14. Sound(actor[a], Len(engines))'
  BY <1>1, <1>2, <1>6, <1>8, <1>9 DEF Sound, Streams, AfterCount, Gone
<1>15. Len(engines) <= Len(engines')  BY <1>1, <1>6 DEF Typed
<1> QED  BY <1>6, <1>9, <1>12, <1>13, <1>14, <1>15, RequestKeeps

LEMMA CountFileKeeps == ASSUME LInv, NEW a, a \in Actors, CountFile(a) PROVE LInv'
<1>1. Typed /\ actor[a] \in Actor /\ Sound(actor[a], Len(engines))  BY DEF LInv, Typed
<1>2. PICK p, c : p = AfterCount(a) /\ c = 2  OBVIOUS
<1>3. p \in Pcs /\ c \in 0..2  BY <1>1, <1>2 DEF CountFile, Pcs, AfterCount, Sound, Actor
<1>4. actor' = [actor EXCEPT ![a].pc = p, ![a].counted = c]  BY <1>2 DEF CountFile, Goto
<1>5. Now(a, p, actor[a].next, actor[a].engine, 2)  BY <1>1, <1>2, <1>3, <1>4, CountMoves
<1>6. /\ actor[a].pc = "countFile" /\ actor[a].counted = 1 /\ engines' = engines /\ native' = native
      /\ streams' = streams /\ fileStreams' = [fileStreams EXCEPT ![actor[a].file] = @ + 1]
  BY <1>1 DEF CountFile, At, Sound, counters, backend
<1>7. Edited(engines, engines', actor[a].engine, 0)  BY <1>1, <1>6, SameEngines
<1>8. /\ Len(engines') = Len(engines)
      /\ \A e \in 1..Len(engines') :
           engines'[e].readers = (IF e <= Len(engines) THEN engines[e].readers ELSE 0)
                             + Bit(InReaders(actor'[a], e)) - Bit(InReaders(actor[a], e))
  <2>1. PICK k, d, q : k = 2 /\ d = 0 /\ q = actor[a].next  OBVIOUS
  <2>2. Now(a, p, q, actor[a].engine, k)  BY <1>5, <2>1
  <2>3. d \in {-1, 0, 1} /\ Edited(engines, engines', actor[a].engine, d)  BY <1>7, <2>1
  <2>4. \/ ~Streams(actor[a]) /\ d = 0
        \/ Streams(actor[a]) /\ d = (IF p \in Gone THEN 0 ELSE 1) - (IF actor[a].pc \in Gone THEN 0 ELSE 1)
    BY <1>1, <1>2, <1>6, <2>1 DEF Gone, AfterCount, Sound, Streams
  <2> QED  BY <2>2, <2>3, <2>4, ReadersFollow
<1>9. /\ actor'[a].pc = p /\ actor'[a].counted = 2 /\ actor'[a].next = actor[a].next
      /\ actor'[a].engine = actor[a].engine
      /\ actor'[a].op = actor[a].op /\ actor'[a].file = actor[a].file /\ Moves(a)
  BY <1>5 DEF Now, Moves
<1>10. streams' = streams + Bit(InStreams(actor'[a])) - Bit(InStreams(actor[a]))
  BY <1>1, <1>2, <1>6, <1>9 DEF InStreams, Bit, Typed, AfterCount, Decremented
<1>11. \A f \in Files :
         fileStreams'[f] = fileStreams[f] + Bit(InFile(actor'[a], f)) - Bit(InFile(actor[a], f))
  <2> TAKE f \in Files
  <2>1. InFile(actor'[a], f) <=> f = actor[a].file  BY <1>6, <1>9 DEF InFile
  <2>2. ~InFile(actor[a], f)  BY <1>6 DEF InFile
  <2>3. fileStreams[f] \in Nat /\ fileStreams'[f] = IF f = actor[a].file THEN fileStreams[f] + 1 ELSE fileStreams[f]
    BY <1>1, <1>6 DEF Typed
  <2> QED  BY <2>1, <2>2, <2>3 DEF Bit
<1>12. Follows(a)  BY <1>8, <1>10, <1>11 DEF Follows
<1>13. Typed'
  <2>1. engines' \in Seq(Box) /\ Len(engines') <= MaxEngines /\ native' \in BOOLEAN
    BY <1>1, <1>6 DEF Typed
  <2>2. actor' \in [Actors -> Actor]  BY <1>9 DEF Moves
  <2>3. registry' \in 0..Len(engines') /\ added' \in Ids /\ session' \in 0..added'
    BY <1>1, <1>6 DEF CountFile, backend, Typed
  <2>4. streams' \in Int /\ fileStreams' \in [Files -> Nat]
    BY <1>1, <1>6, LifecycleAssumption DEF CountFile, counters, Typed, Actor, Decremented
  <2>5. /\ lease' \in [Files -> {"none", "live", "expired"}] /\ selection' \in Selection
        /\ generation' \in Nat /\ activeFile' \in Files \cup {NoFile, "other"}
    BY <1>1 DEF CountFile, playback, Typed, Actor
  <2>6. cleanups' \subseteq Cleanup /\ sweep' \in Sweeps  BY <1>1 DEF CountFile, Typed
  <2> QED  BY <2>1, <2>2, <2>3, <2>4, <2>5, <2>6 DEF Typed
<1>14. Sound(actor[a], Len(engines))'
  BY <1>1, <1>2, <1>6, <1>8, <1>9 DEF Sound, Streams, AfterCount, Gone
<1>15. Len(engines) <= Len(engines')  BY <1>1, <1>6 DEF Typed
<1> QED  BY <1>6, <1>9, <1>12, <1>13, <1>14, <1>15, RequestKeeps

LEMMA UncountStreamKeeps == ASSUME LInv, NEW a, a \in Actors, UncountStream(a) PROVE LInv'
<1>1. Typed /\ actor[a] \in Actor /\ Sound(actor[a], Len(engines))  BY DEF LInv, Typed
<1>2. PICK p, c : p = "endFile" /\ c = 1  OBVIOUS
<1>3. p \in Pcs /\ c \in 0..2  BY <1>1, <1>2 DEF UncountStream, Pcs, AfterCount, Sound, Actor
<1>4. actor' = [actor EXCEPT ![a].pc = p, ![a].counted = c]  BY <1>2 DEF UncountStream, Goto
<1>5. Now(a, p, actor[a].next, actor[a].engine, 1)  BY <1>1, <1>2, <1>3, <1>4, CountMoves
<1>6. /\ actor[a].pc = "ending" /\ actor[a].counted = 2 /\ engines' = engines /\ native' = native
      /\ streams' = Decremented(streams) /\ fileStreams' = fileStreams
  BY <1>1 DEF UncountStream, At, Sound, counters, backend
<1>7. Edited(engines, engines', actor[a].engine, 0)  BY <1>1, <1>6, SameEngines
<1>8. /\ Len(engines') = Len(engines)
      /\ \A e \in 1..Len(engines') :
           engines'[e].readers = (IF e <= Len(engines) THEN engines[e].readers ELSE 0)
                             + Bit(InReaders(actor'[a], e)) - Bit(InReaders(actor[a], e))
  <2>1. PICK k, d, q : k = 1 /\ d = 0 /\ q = actor[a].next  OBVIOUS
  <2>2. Now(a, p, q, actor[a].engine, k)  BY <1>5, <2>1
  <2>3. d \in {-1, 0, 1} /\ Edited(engines, engines', actor[a].engine, d)  BY <1>7, <2>1
  <2>4. \/ ~Streams(actor[a]) /\ d = 0
        \/ Streams(actor[a]) /\ d = (IF p \in Gone THEN 0 ELSE 1) - (IF actor[a].pc \in Gone THEN 0 ELSE 1)
    BY <1>1, <1>2, <1>6, <2>1 DEF Gone, AfterCount, Sound, Streams
  <2> QED  BY <2>2, <2>3, <2>4, ReadersFollow
<1>9. /\ actor'[a].pc = p /\ actor'[a].counted = 1 /\ actor'[a].next = actor[a].next
      /\ actor'[a].engine = actor[a].engine
      /\ actor'[a].op = actor[a].op /\ actor'[a].file = actor[a].file /\ Moves(a)
  BY <1>5 DEF Now, Moves
<1>10. streams' = streams + Bit(InStreams(actor'[a])) - Bit(InStreams(actor[a]))
  BY <1>1, <1>2, <1>6, <1>9, CountedOnce DEF InStreams, Bit, Typed, AfterCount, Decremented
<1>11. \A f \in Files :
         fileStreams'[f] = fileStreams[f] + Bit(InFile(actor'[a], f)) - Bit(InFile(actor[a], f))
  <2> TAKE f \in Files
  <2>1. InFile(actor'[a], f) <=> InFile(actor[a], f)  BY <1>2, <1>6, <1>9 DEF InFile
  <2>2. fileStreams[f] \in Nat  BY <1>1 DEF Typed
  <2> QED  BY <1>6, <2>1, <2>2 DEF Bit
<1>12. Follows(a)  BY <1>8, <1>10, <1>11 DEF Follows
<1>13. Typed'
  <2>1. engines' \in Seq(Box) /\ Len(engines') <= MaxEngines /\ native' \in BOOLEAN
    BY <1>1, <1>6 DEF Typed
  <2>2. actor' \in [Actors -> Actor]  BY <1>9 DEF Moves
  <2>3. registry' \in 0..Len(engines') /\ added' \in Ids /\ session' \in 0..added'
    BY <1>1, <1>6 DEF UncountStream, backend, Typed
  <2>4. streams' \in Int /\ fileStreams' \in [Files -> Nat]
    BY <1>1, <1>6, LifecycleAssumption DEF UncountStream, counters, Typed, Actor, Decremented
  <2>5. /\ lease' \in [Files -> {"none", "live", "expired"}] /\ selection' \in Selection
        /\ generation' \in Nat /\ activeFile' \in Files \cup {NoFile, "other"}
    BY <1>1 DEF UncountStream, playback, Typed, Actor
  <2>6. cleanups' \subseteq Cleanup /\ sweep' \in Sweeps  BY <1>1 DEF UncountStream, Typed
  <2> QED  BY <2>1, <2>2, <2>3, <2>4, <2>5, <2>6 DEF Typed
<1>14. Sound(actor[a], Len(engines))'
  BY <1>1, <1>2, <1>6, <1>8, <1>9 DEF Sound, Streams, AfterCount, Gone
<1>15. Len(engines) <= Len(engines')  BY <1>1, <1>6 DEF Typed
<1> QED  BY <1>6, <1>9, <1>12, <1>13, <1>14, <1>15, RequestKeeps

LEMMA UncountFileKeeps == ASSUME LInv, NEW a, a \in Actors, UncountFile(a) PROVE LInv'
<1>1. Typed /\ actor[a] \in Actor /\ Sound(actor[a], Len(engines))  BY DEF LInv, Typed
<1>2. PICK p, c, l : p = "endTouch" /\ c = 0 /\ l = (Decremented(fileStreams[actor[a].file]) = 0)  OBVIOUS
<1>3. p \in Pcs /\ c \in 0..2 /\ l \in BOOLEAN
  BY <1>1, <1>2 DEF UncountFile, Pcs, AfterCount, Sound, Actor
<1>4. actor' = [actor EXCEPT ![a].pc = p, ![a].counted = c, ![a].last = l]
  BY <1>2 DEF UncountFile, Goto
<1>5. Now(a, p, actor[a].next, actor[a].engine, 0)  BY <1>1, <1>2, <1>3, <1>4, LastMoves
<1>6. /\ actor[a].pc = "endFile" /\ actor[a].counted = 1 /\ engines' = engines /\ native' = native
      /\ streams' = streams
      /\ fileStreams' = [fileStreams EXCEPT ![actor[a].file] = Decremented(fileStreams[actor[a].file])]
  BY <1>1 DEF UncountFile, At, Sound, counters, backend
<1>7. Edited(engines, engines', actor[a].engine, 0)  BY <1>1, <1>6, SameEngines
<1>8. /\ Len(engines') = Len(engines)
      /\ \A e \in 1..Len(engines') :
           engines'[e].readers = (IF e <= Len(engines) THEN engines[e].readers ELSE 0)
                             + Bit(InReaders(actor'[a], e)) - Bit(InReaders(actor[a], e))
  <2>1. PICK k, d, q : k = 0 /\ d = 0 /\ q = actor[a].next  OBVIOUS
  <2>2. Now(a, p, q, actor[a].engine, k)  BY <1>5, <2>1
  <2>3. d \in {-1, 0, 1} /\ Edited(engines, engines', actor[a].engine, d)  BY <1>7, <2>1
  <2>4. \/ ~Streams(actor[a]) /\ d = 0
        \/ Streams(actor[a]) /\ d = (IF p \in Gone THEN 0 ELSE 1) - (IF actor[a].pc \in Gone THEN 0 ELSE 1)
    BY <1>1, <1>2, <1>6, <2>1 DEF Gone, AfterCount, Sound, Streams
  <2> QED  BY <2>2, <2>3, <2>4, ReadersFollow
<1>9. /\ actor'[a].pc = p /\ actor'[a].counted = 0 /\ actor'[a].next = actor[a].next
      /\ actor'[a].engine = actor[a].engine
      /\ actor'[a].op = actor[a].op /\ actor'[a].file = actor[a].file /\ Moves(a)
  BY <1>5 DEF Now, Moves
<1>10. streams' = streams + Bit(InStreams(actor'[a])) - Bit(InStreams(actor[a]))
  BY <1>1, <1>2, <1>6, <1>9 DEF InStreams, Bit, Typed, AfterCount, Decremented
<1>11. \A f \in Files :
         \/ fileStreams'[f] = fileStreams[f] + Bit(InFile(actor'[a], f)) - Bit(InFile(actor[a], f))
         \/ ~native /\ fileStreams'[f] = 0
  <2> TAKE f \in Files
  <2>1. ~InFile(actor'[a], f)  BY <1>9 DEF InFile
  <2>2. InFile(actor[a], f) <=> f = actor[a].file  BY <1>6 DEF InFile
  <2>3. fileStreams[f] \in Nat /\ fileStreams'[f] = IF f = actor[a].file THEN Decremented(fileStreams[f]) ELSE fileStreams[f]
    BY <1>1, <1>6 DEF Typed
  <2>4. f = actor[a].file /\ native => fileStreams[f] >= 1  BY <2>2, CountedOnce
  <2> QED  BY <2>1, <2>2, <2>3, <2>4 DEF Bit, Decremented
<1>12. Follows(a)  BY <1>8, <1>10, <1>11 DEF Follows
<1>13. Typed'
  <2>1. engines' \in Seq(Box) /\ Len(engines') <= MaxEngines /\ native' \in BOOLEAN
    BY <1>1, <1>6 DEF Typed
  <2>2. actor' \in [Actors -> Actor]  BY <1>9 DEF Moves
  <2>3. registry' \in 0..Len(engines') /\ added' \in Ids /\ session' \in 0..added'
    BY <1>1, <1>6 DEF UncountFile, backend, Typed
  <2>4. streams' \in Int /\ fileStreams' \in [Files -> Nat]
    BY <1>1, <1>6, LifecycleAssumption DEF UncountFile, counters, Typed, Actor, Decremented
  <2>5. /\ lease' \in [Files -> {"none", "live", "expired"}] /\ selection' \in Selection
        /\ generation' \in Nat /\ activeFile' \in Files \cup {NoFile, "other"}
    BY <1>1 DEF UncountFile, playback, Typed, Actor
  <2>6. cleanups' \subseteq Cleanup /\ sweep' \in Sweeps  BY <1>1 DEF UncountFile, Typed
  <2> QED  BY <2>1, <2>2, <2>3, <2>4, <2>5, <2>6 DEF Typed
<1>14. Sound(actor[a], Len(engines))'
  BY <1>1, <1>2, <1>6, <1>8, <1>9 DEF Sound, Streams, AfterCount, Gone
<1>15. Len(engines) <= Len(engines')  BY <1>1, <1>6 DEF Typed
<1> QED  BY <1>6, <1>9, <1>12, <1>13, <1>14, <1>15, RequestKeeps

LEMMA RetainFileKeeps == ASSUME LInv, NEW a, a \in Actors, RetainFile(a) PROVE LInv'
<1>1. Typed /\ actor[a] \in Actor /\ Sound(actor[a], Len(engines))  BY DEF LInv, Typed
<1>2. PICK p : p = actor[a].next  OBVIOUS
<1>3. p \in Pcs  BY <1>1, <1>2 DEF RetainFile, Pcs, AfterCount, Sound, Actor
<1>4. actor' = [actor EXCEPT ![a].pc = p]  BY <1>2 DEF RetainFile, Goto
<1>5. Now(a, p, actor[a].next, actor[a].engine, actor[a].counted)  BY <1>1, <1>2, <1>3, <1>4, PcMoves
<1>6. /\ actor[a].pc = "retain" /\ actor[a].counted = actor[a].counted /\ engines' = engines /\ native' = native
      /\ streams' = streams /\ ~native
      /\ fileStreams' = [f \in Files |-> IF f = actor[a].file THEN fileStreams[f] ELSE 0]
  BY <1>1 DEF RetainFile, At, Sound, counters, backend
<1>7. Edited(engines, engines', actor[a].engine, 0)  BY <1>1, <1>6, SameEngines
<1>8. /\ Len(engines') = Len(engines)
      /\ \A e \in 1..Len(engines') :
           engines'[e].readers = (IF e <= Len(engines) THEN engines[e].readers ELSE 0)
                             + Bit(InReaders(actor'[a], e)) - Bit(InReaders(actor[a], e))
  <2>1. PICK k, d, q : k = actor[a].counted /\ d = 0 /\ q = actor[a].next  OBVIOUS
  <2>2. Now(a, p, q, actor[a].engine, k)  BY <1>5, <2>1
  <2>3. d \in {-1, 0, 1} /\ Edited(engines, engines', actor[a].engine, d)  BY <1>7, <2>1
  <2>4. \/ ~Streams(actor[a]) /\ d = 0
        \/ Streams(actor[a]) /\ d = (IF p \in Gone THEN 0 ELSE 1) - (IF actor[a].pc \in Gone THEN 0 ELSE 1)
    BY <1>1, <1>2, <1>6, <2>1 DEF Gone, AfterCount, Sound, Streams
  <2> QED  BY <2>2, <2>3, <2>4, ReadersFollow
<1>9. /\ actor'[a].pc = p /\ actor'[a].counted = actor[a].counted /\ actor'[a].next = actor[a].next
      /\ actor'[a].engine = actor[a].engine
      /\ actor'[a].op = actor[a].op /\ actor'[a].file = actor[a].file /\ Moves(a)
  BY <1>5 DEF Now, Moves
<1>10. streams' = streams + Bit(InStreams(actor'[a])) - Bit(InStreams(actor[a]))
  <2>1. InStreams(actor'[a]) <=> InStreams(actor[a])  BY <1>1, <1>2, <1>6, <1>9 DEF InStreams, Sound
  <2> QED  BY <1>1, <1>6, <2>1 DEF Bit, Typed
<1>11. \A f \in Files :
         \/ fileStreams'[f] = fileStreams[f] + Bit(InFile(actor'[a], f)) - Bit(InFile(actor[a], f))
         \/ ~native /\ fileStreams'[f] = 0
  <2> TAKE f \in Files
  <2>1. InFile(actor'[a], f) <=> InFile(actor[a], f)  BY <1>1, <1>2, <1>6, <1>9 DEF InFile, Sound
  <2>2. fileStreams[f] \in Nat /\ fileStreams'[f] = IF f = actor[a].file THEN fileStreams[f] ELSE 0
    BY <1>1, <1>6 DEF Typed
  <2> QED  BY <1>6, <2>1, <2>2 DEF Bit
<1>12. Follows(a)  BY <1>8, <1>10, <1>11 DEF Follows
<1>13. Typed'
  <2>1. engines' \in Seq(Box) /\ Len(engines') <= MaxEngines /\ native' \in BOOLEAN
    BY <1>1, <1>6 DEF Typed
  <2>2. actor' \in [Actors -> Actor]  BY <1>9 DEF Moves
  <2>3. registry' \in 0..Len(engines') /\ added' \in Ids /\ session' \in 0..added'
    BY <1>1, <1>6 DEF RetainFile, backend, Typed
  <2>4. streams' \in Int /\ fileStreams' \in [Files -> Nat]
    BY <1>1, <1>6, LifecycleAssumption DEF RetainFile, counters, Typed, Actor, Decremented
  <2>5. /\ lease' \in [Files -> {"none", "live", "expired"}] /\ selection' \in Selection
        /\ generation' \in Nat /\ activeFile' \in Files \cup {NoFile, "other"}
    BY <1>1 DEF RetainFile, playback, Typed, Actor
  <2>6. cleanups' \subseteq Cleanup /\ sweep' \in Sweeps  BY <1>1 DEF RetainFile, Typed
  <2> QED  BY <2>1, <2>2, <2>3, <2>4, <2>5, <2>6 DEF Typed
<1>14. Sound(actor[a], Len(engines))'
  BY <1>1, <1>2, <1>6, <1>8, <1>9 DEF Sound, Streams, AfterCount, Gone
<1>15. Len(engines) <= Len(engines')  BY <1>1, <1>6 DEF Typed
<1> QED  BY <1>6, <1>9, <1>12, <1>13, <1>14, <1>15, RequestKeeps

-----------------------------------------------------------------------------
(* An engine answers a request: the one that is registered, or a new one.   *)
LEMMA AnsweredKeeps ==
  ASSUME LInv, NEW a, a \in Actors, NEW e, NEW es, Answered(a, e, es),
         actor[a].pc \in {"new", "adding"}, actor[a].op \in {"stream", "hls", "refresh"},
         es \in Seq(Box), Len(es) <= MaxEngines, e \in 1..Len(es), Len(engines) <= Len(es),
         \A x \in 1..Len(es) : es[x].readers = IF x <= Len(engines) THEN engines[x].readers ELSE 0,
         registry' \in 0..Len(es),
         UNCHANGED <<native, backend, counters, playback, cleanups, sweep>>
  PROVE  LInv'
<1>1. Typed /\ actor[a] \in Actor /\ Sound(actor[a], Len(engines)) /\ Len(engines) \in Nat
  BY DEF LInv, Typed
<1>2. actor[a].engine = 0 /\ actor[a].counted = 0  BY <1>1 DEF Sound
<1>3. PICK p : p = IF Streaming(a) THEN "resolving" ELSE "lease"  OBVIOUS
<1>4. Now(a, p, actor[a].next, e, actor[a].counted)
  <2>1. p \in Pcs  BY <1>3 DEF Pcs
  <2>2. e \in Ids  BY LifecycleAssumption DEF Ids
  <2>3. actor' = [actor EXCEPT ![a].engine = e, ![a].pc = p]  BY <1>3 DEF Answered
  <2> QED  BY <1>1, <2>1, <2>2, <2>3, EngineMoves
<1>5. /\ actor'[a].pc = p /\ actor'[a].engine = e /\ actor'[a].counted = 0
      /\ actor'[a].op = actor[a].op /\ actor'[a].file = actor[a].file /\ Moves(a)
  BY <1>2, <1>4 DEF Now, Moves
<1>6. PICK d : d \in {-1, 0, 1} /\ d = (IF Streaming(a) THEN 1 ELSE 0)  OBVIOUS
<1>7. Edited(es, engines', e, d)
  <2>1. PICK t : t = engines'  OBVIOUS
  <2>2. CASE Streaming(a)
    <3>1. PICK g : g = 1 /\ g \in {-1, 0, 1}  OBVIOUS
    <3>2. t = [es EXCEPT ![e].aged = FALSE, ![e].readers = @ + g]  BY <2>1, <2>2, <3>1 DEF Answered
    <3>3. Edited(es, t, e, g)  BY <3>1, <3>2, EditedEngines
    <3> QED  BY <1>6, <2>1, <2>2, <3>1, <3>3
  <2>3. CASE ~Streaming(a)
    <3>1. PICK g : g = 0 /\ g \in {-1, 0, 1}  OBVIOUS
    <3>2. t = [es EXCEPT ![e].aged = FALSE, ![e].readers = @]  BY <2>1, <2>3 DEF Answered
    <3>3. Edited(es, t, e, g)  BY <3>1, <3>2, EditedEngines
    <3> QED  BY <1>6, <2>1, <2>3, <3>1, <3>3
  <2> QED  BY <2>2, <2>3
<1>8. streams' = streams + Bit(InStreams(actor'[a])) - Bit(InStreams(actor[a]))
  BY <1>1, <1>2, <1>5 DEF InStreams, Bit, Typed, counters
<1>9. ASSUME NEW f \in Files
      PROVE  fileStreams'[f] = fileStreams[f] + Bit(InFile(actor'[a], f)) - Bit(InFile(actor[a], f))
  BY <1>1, <1>2, <1>5 DEF InFile, Bit, Typed, counters
<1>10. ASSUME NEW x \in 1..Len(engines')
       PROVE  engines'[x].readers = (IF x <= Len(engines) THEN engines[x].readers ELSE 0)
                             + Bit(InReaders(actor'[a], x)) - Bit(InReaders(actor[a], x))
  <2>1. /\ x \in 1..Len(es) /\ x >= 1
        /\ engines'[x].readers = es[x].readers + (IF x = e THEN d ELSE 0)
    BY <1>7 DEF Edited
  <2>2. ~InReaders(actor[a], x)  BY <1>2, <2>1 DEF InReaders
  <2>3. InReaders(actor'[a], x) <=> x = e /\ Streaming(a)
    BY <1>3, <1>5 DEF InReaders, Streams, Streaming
  <2>4. es[x].readers \in Int
    <3>1. es \in [1..Len(es) -> Box]  OBVIOUS
    <3> QED  BY <2>1, <3>1 DEF Box
  <2>5. es[x].readers = IF x <= Len(engines) THEN engines[x].readers ELSE 0  BY <2>1
  <2> QED  BY <1>6, <2>1, <2>2, <2>3, <2>4, <2>5 DEF Bit
<1>11. Follows(a)  BY <1>8, <1>9, <1>10 DEF Follows
<1>12. engines' \in Seq(Box) /\ Len(engines') = Len(es)  BY <1>7 DEF Edited
<1>13. Typed'
  <2>1. actor' \in [Actors -> Actor]  BY <1>5 DEF Moves
  <2> QED  BY <1>1, <1>12, <2>1 DEF Typed, backend, counters, playback
<1>14. Sound(actor[a], Len(engines))'
  <2>1. e \in Int /\ e >= 1 /\ e <= Len(engines')  BY <1>12
  <2>2. CASE Streaming(a)
    <3>1. p = "resolving" /\ Streams(actor'[a])  BY <1>3, <1>5, <2>2 DEF Streams, Streaming
    <3> QED  BY <1>5, <2>1, <3>1 DEF Sound
  <2>3. CASE ~Streaming(a)
    <3>1. p = "lease" /\ ~Streams(actor'[a]) /\ actor'[a].op = "refresh"
      BY <1>1, <1>3, <1>5, <2>3 DEF Streams, Streaming
    <3> QED  BY <1>5, <2>1, <3>1 DEF Sound
  <2> QED  BY <2>2, <2>3
<1> QED  BY <1>5, <1>11, <1>12, <1>13, <1>14, RequestKeeps

LEMMA FoundKeeps == ASSUME LInv, NEW a, a \in Actors, LookupFound(a) \/ RegisterFound(a) PROVE LInv'
<1>1. Typed /\ actor[a] \in Actor /\ Sound(actor[a], Len(engines)) /\ Len(engines) \in Nat
  BY DEF LInv, Typed
<1>2. /\ registry # 0 /\ Answered(a, registry, engines) /\ registry' = registry
      /\ UNCHANGED <<native, backend, counters, playback, cleanups, sweep>>
      /\ actor[a].pc \in {"new", "adding"} /\ actor[a].op \in {"stream", "hls", "refresh"}
  BY <1>1 DEF LookupFound, RegisterFound, At, Sound
<1>3. PICK e, es : e = registry /\ es = engines  OBVIOUS
<1>4. /\ Answered(a, e, es) /\ es \in Seq(Box) /\ Len(es) <= MaxEngines /\ e \in 1..Len(es)
      /\ Len(engines) <= Len(es) /\ registry' \in 0..Len(es)
  BY <1>1, <1>2, <1>3 DEF Typed
<1>5. \A x \in 1..Len(es) : es[x].readers = IF x <= Len(engines) THEN engines[x].readers ELSE 0
  BY <1>1, <1>3
<1> QED  BY <1>2, <1>4, <1>5, AnsweredKeeps

LEMMA RegisterKeeps == ASSUME LInv, NEW a, a \in Actors, Register(a) PROVE LInv'
<1>1. Typed /\ actor[a] \in Actor /\ Sound(actor[a], Len(engines)) /\ Len(engines) \in Nat /\ MaxEngines \in Nat
  BY LifecycleAssumption DEF LInv, Typed
<1>2. PICK box : box = [torrent |-> actor[a].torrent, readers |-> 0, aged |-> FALSE]  OBVIOUS
<1>3. PICK e, es : e = Len(engines) + 1 /\ es = Append(engines, box)  OBVIOUS
<1>4. /\ Len(engines) < MaxEngines /\ registry' = e /\ Answered(a, e, es)
      /\ UNCHANGED <<native, backend, counters, playback, cleanups, sweep>>
      /\ actor[a].pc \in {"new", "adding"} /\ actor[a].op \in {"stream", "hls", "refresh"}
  BY <1>1, <1>2, <1>3 DEF Register, At, Sound
<1>5. box \in Box /\ box.readers = 0  BY <1>1, <1>2 DEF Actor, Box
<1>6. /\ es \in Seq(Box) /\ Len(es) = Len(engines) + 1
      /\ \A x \in 1..Len(engines) : es[x] = engines[x]
      /\ es[Len(engines) + 1] = box
  BY <1>1, <1>3, <1>5 DEF Typed
<1>7. Len(es) <= MaxEngines /\ e \in 1..Len(es) /\ Len(engines) <= Len(es) /\ registry' \in 0..Len(es)
  BY <1>1, <1>3, <1>4, <1>6
<1>8. \A x \in 1..Len(es) : es[x].readers = IF x <= Len(engines) THEN engines[x].readers ELSE 0
  <2> TAKE x \in 1..Len(es)
  <2>1. CASE x <= Len(engines)  BY <1>1, <1>6, <2>1
  <2>2. CASE ~(x <= Len(engines))
    <3>1. x = Len(engines) + 1  BY <1>1, <1>6, <2>2
    <3> QED  BY <1>5, <1>6, <2>2, <3>1
  <2> QED  BY <2>1, <2>2
<1> QED  BY <1>4, <1>6, <1>7, <1>8, AnsweredKeeps

-----------------------------------------------------------------------------
(* Cleanups, the sweeper, time, the other torrents, a client that removes.  *)
LEMMA NobodysStepKeeps ==
  ASSUME LInv,
         \/ \E c \in cleanups : CleanupTask(c)
         \/ Sweep \/ Ages \/ (\E f \in Files : LeaseExpires(f)) \/ OtherTorrentStreams \/ EngineRemoved
         \/ UNCHANGED vars
  PROVE  LInv'
<1>1. Typed /\ engines \in Seq(Box) /\ Len(engines) \in Nat  BY DEF LInv, Typed
<1>2. ASSUME Typed', UNCHANGED <<native, engines, actor, streams, fileStreams>> PROVE LInv'
  BY <1>2, OtherKeeps
<1>3. NoSelection \in Selection /\ \A s \in Selection : s.file \in Files \cup {NoFile, "other"}
  BY DEF Selection, NoSelection
<1>4. ASSUME NEW f, NEW s \in Selection PROVE GiveWay(f, s) \in Files \cup {NoFile, "other"}
  BY <1>1, <1>3 DEF GiveWay, Typed
<1>5. CASE \E c \in cleanups : CheckCleanup(c)
  <2>1. PICK c \in cleanups : CheckCleanup(c)  BY <1>5
  <2>2. c \in Cleanup /\ [c EXCEPT !.checked = TRUE] \in Cleanup  BY <1>1 DEF Typed, Cleanup
  <2>3. cleanups' \subseteq Cleanup  BY <1>1, <2>1, <2>2 DEF CheckCleanup, Typed
  <2> QED  BY <1>1, <1>2, <2>1, <2>3 DEF CheckCleanup, Typed, backend, counters, playback
<1>6. CASE \E c \in cleanups : ClearSelection(c)
  <2>1. PICK c \in cleanups : ClearSelection(c)  BY <1>6
  <2>2. selection' \in Selection /\ activeFile' \in Files \cup {NoFile, "other"}
    BY <1>1, <1>3, <1>4, <2>1 DEF ClearSelection, Typed
  <2>3. cleanups' \subseteq Cleanup  BY <1>1, <2>1 DEF ClearSelection, Typed
  <2> QED  BY <1>1, <1>2, <2>1, <2>2, <2>3 DEF ClearSelection, Typed, backend, counters
<1>7. CASE SweepWakes
  <2>1. sweep' \in Sweeps  BY <1>7 DEF SweepWakes, Sweeps
  <2>2. lease' \in [Files -> {"none", "live", "expired"}]  BY <1>1, <1>7 DEF SweepWakes, Typed
  <2> QED  BY <1>1, <1>2, <1>7, <2>1, <2>2 DEF SweepWakes, Typed, backend, counters
<1>8. CASE \E f \in Files : SweepLease(f)
  <2>1. PICK f \in Files : SweepLease(f)  BY <1>8
  <2>2. selection' \in Selection /\ activeFile' \in Files \cup {NoFile, "other"}
    BY <1>1, <1>3, <1>4, <2>1 DEF SweepLease, Typed
  <2>3. sweep' \in Sweeps  BY <1>1, <2>1 DEF SweepLease, Typed, Sweeps
  <2> QED  BY <1>1, <1>2, <2>1, <2>2, <2>3 DEF SweepLease, Typed, backend, counters
<1>9. CASE SweepLeasesDone \/ SweepScan
  <2>1. sweep' \in Sweeps  BY <1>1, <1>9 DEF SweepLeasesDone, SweepScan, Typed, Sweeps
  <2> QED  BY <1>1, <1>2, <1>9, <2>1 DEF SweepLeasesDone, SweepScan, Typed, backend, counters, playback
<1>10. CASE SweepUnregister \/ SweepRemovesTorrent
  <2>1. sweep' \in Sweeps  BY <1>1, <1>10 DEF SweepUnregister, SweepRemovesTorrent, Typed, Sweeps
  <2>2. registry' \in 0..Len(engines) /\ added' \in Ids /\ session' \in 0..added'
    BY <1>1, <1>10, LifecycleAssumption DEF SweepUnregister, SweepRemovesTorrent, Typed, Ids, backend
  <2> QED
    BY <1>1, <1>2, <1>10, <2>1, <2>2
    DEF SweepUnregister, SweepRemovesTorrent, Typed, backend, counters, playback
<1>11. CASE Ages
  <2>1. PICK e, t, d : e = registry /\ t = engines' /\ d = 0 /\ d \in {-1, 0, 1}  OBVIOUS
  <2>2. e \in 1..Len(engines)  BY <1>1, <1>11, <2>1 DEF Ages, Typed
  <2>3. \E g \in BOOLEAN : t = [engines EXCEPT ![e].aged = g]  BY <1>11, <2>1 DEF Ages
  <2>4. Edited(engines, t, e, d)  BY <1>1, <2>1, <2>2, <2>3, EditedEngines
  <2>5. \A x \in 1..Len(engines) : engines[x].readers \in Int
    <3>1. engines \in [1..Len(engines) -> Box]  BY <1>1
    <3> QED  BY <3>1 DEF Box
  <2>6. /\ engines' \in Seq(Box) /\ Len(engines') = Len(engines)
        /\ \A x \in 1..Len(engines) : engines'[x].readers = engines[x].readers
    BY <2>1, <2>4, <2>5 DEF Edited
  <2>7. Typed'  BY <1>1, <1>11, <2>6 DEF Ages, Typed, backend, counters, playback
  <2> QED  BY <1>11, <2>6, <2>7, OtherKeeps DEF Ages, counters
<1>12. CASE \E f \in Files : LeaseExpires(f)
  <2>1. PICK f \in Files : LeaseExpires(f)  BY <1>12
  <2>2. lease' \in [Files -> {"none", "live", "expired"}]  BY <1>1, <2>1 DEF LeaseExpires, Typed
  <2> QED  BY <1>1, <1>2, <2>1, <2>2 DEF LeaseExpires, Typed, backend, counters
<1>13. CASE OtherTorrentStreams
  BY <1>1, <1>2, <1>13 DEF OtherTorrentStreams, Typed, backend, counters
<1>14. CASE EngineRemoved
  <2>1. registry' \in 0..Len(engines)  BY <1>1, <1>14 DEF EngineRemoved
  <2> QED  BY <1>1, <1>2, <1>14, <2>1 DEF EngineRemoved, Typed, backend, counters, playback
<1>15. CASE UNCHANGED vars
  BY <1>1, <1>2, <1>15 DEF vars, Typed, backend, counters, playback
<1> QED
  BY <1>5, <1>6, <1>7, <1>8, <1>9, <1>10, <1>11, <1>12, <1>13, <1>14, <1>15 DEF CleanupTask, Sweep

LEMMA LInvHolds == LInv /\ [Next]_vars => LInv'
<1> SUFFICES ASSUME LInv, [Next]_vars PROVE LInv'  OBVIOUS
<1>1. ASSUME NEW a \in Actors,
             \/ FindEngine(a) \/ Handle(a) \/ RequestDropped(a) \/ OpenReader(a)
             \/ StreamEnds(a) \/ StreamEndTask(a) \/ Poll(a) \/ EndHls(a)
      PROVE  LInv'
  <2>1. CASE FindEngine(a)
    BY <2>1, FoundKeeps, LookupMissingKeeps, AddFailsKeeps DEF FindEngine
  <2>2. CASE Handle(a)
    BY <2>2, FoundKeeps, RegisterKeeps, RefusedKeeps, StreamStartsKeeps, CountStreamKeeps,
      CountFileKeeps,
      RefreshLeaseKeeps, ReselectKeeps, TakeGenerationKeeps, InsertSelectionKeeps, RetainFileKeeps
    DEF Handle
  <2>3. CASE StreamEndTask(a)
    BY <2>3, UncountStreamKeeps, UncountFileKeeps, EndTouchKeeps DEF StreamEndTask
  <2> QED
    BY <1>1, <2>1, <2>2, <2>3, RequestDroppedKeeps, OpenReaderKeeps, StreamEndsKeeps, PollKeeps,
      EndHlsKeeps
<1> QED  BY <1>1, NobodysStepKeeps DEF Next

LEMMA InitLInv == Init => LInv
<1> SUFFICES ASSUME Init PROVE LInv  OBVIOUS
<1>1. /\ actor \in [Actors -> Actor]
      /\ \A a \in Actors : /\ actor[a].pc = "new" /\ actor[a].engine = 0 /\ actor[a].counted = 0
  <2>1. PICK S : S = [pc : {"new"}, next : {"done"}, op : Operations, file : Files, torrent : {0},
                      engine : {0}, generation : {0}, counted : {0}, last : {FALSE}]
    OBVIOUS
  <2>2. actor \in [Actors -> S]  BY <2>1 DEF Init
  <2>3. 0 \in Ids /\ "new" \in Pcs /\ "done" \in Pcs  BY LifecycleAssumption DEF Ids, Pcs
  <2>4. ASSUME NEW r \in S
        PROVE  r \in Actor /\ r.pc = "new" /\ r.engine = 0 /\ r.counted = 0
    <3>1. PICK c : c = 0 /\ c \in Nat /\ c \in 0..2  OBVIOUS
    <3>2. S = [pc : {"new"}, next : {"done"}, op : Operations, file : Files, torrent : {0},
               engine : {0}, generation : {c}, counted : {c}, last : {FALSE}]
      BY <2>1, <3>1
    <3>3. r \in Actor /\ r.pc = "new" /\ r.engine = 0 /\ r.counted = c
      BY <2>3, <3>1, <3>2 DEF Actor
    <3> QED  BY <3>1, <3>3
  <2> QED  BY <2>2, <2>4
<1>2. engines = <<>> /\ engines \in Seq(Box) /\ Len(engines) = 0  BY DEF Init
<1>3. Typed
  <2>1. NoSelection \in Selection  BY DEF Selection
  <2>2. sweep \in Sweeps  BY DEF Init, Sweeps
  <2>3. lease \in [Files -> {"none", "live", "expired"}] /\ fileStreams \in [Files -> Nat]  BY DEF Init
  <2>4. native \in BOOLEAN  BY LifecycleAssumption DEF Init
  <2> QED  BY <1>1, <1>2, <2>1, <2>2, <2>3, <2>4, LifecycleAssumption DEF Init, Typed, Ids
<1>4. StreamSet(actor) = {} /\ \A f \in Files : FileSet(actor, f) = {}
  BY <1>1 DEF StreamSet, FileSet, InStreams, InFile
<1>5. Balance
  <2>1. Cardinality({}) = 0  BY FS_EmptySet
  <2>2. streams = Cardinality(StreamSet(actor))  BY <1>4, <2>1 DEF Init
  <2>3. ASSUME NEW f \in Files
        PROVE  fileStreams[f] = 0 /\ Cardinality(FileSet(actor, f)) = 0
    BY <1>4, <2>1 DEF Init
  <2>4. \A e \in 1..Len(engines) : engines[e].readers = Cardinality(ReaderSet(actor, e))
    BY <1>2
  <2> QED  BY <2>2, <2>3, <2>4 DEF Balance
<1>6. \A a \in Actors : Sound(actor[a], Len(engines))
  <2> SUFFICES ASSUME NEW a \in Actors PROVE Sound(actor[a], Len(engines))  OBVIOUS
  <2>1. PICK r : r = actor[a]  OBVIOUS
  <2>2. r.pc = "new" /\ r.engine = 0 /\ r.counted = 0 /\ r.engine <= Len(engines)  BY <1>1, <1>2, <2>1
  <2>3. Sound(r, Len(engines))  BY <2>2 DEF Sound
  <2> QED  BY <2>1, <2>3
<1> QED  BY <1>3, <1>5, <1>6 DEF LInv

-----------------------------------------------------------------------------
(* lib.rs: the invariant, for every number of requests, files and engines.  *)
THEOREM LifecycleInvariant == Spec => []LInv
<1> QED  BY InitLInv, LInvHolds, PTL DEF Spec

(* lib.rs: the type invariant; no counter of streams exceeds the number of   *)
(* requests, and none goes below zero.                                       *)
THEOREM LifecycleTypeCorrect == Spec => []TypeOK
<1>1. LInv => TypeOK
  <2> SUFFICES ASSUME LInv PROVE TypeOK  OBVIOUS
  <2>1. ASSUME NEW S, S \subseteq Actors PROVE Cardinality(S) \in Count
    <3>1. IsFiniteSet(S) /\ Cardinality(S) <= Cardinality(Actors)
      BY <2>1, FS_Subset, LifecycleAssumption
    <3>2. Cardinality(S) \in Nat /\ Cardinality(Actors) \in Nat
      BY <3>1, FS_CardinalityType, LifecycleAssumption
    <3> QED  BY <3>1, <3>2 DEF Count
  <2>2. streams \in Count  BY <2>1 DEF LInv, Balance, StreamSet
  <2>3. fileStreams \in [Files -> Count]
    <3>1. fileStreams \in [Files -> Nat]  BY DEF LInv, Typed
    <3>2. ASSUME NEW f \in Files PROVE fileStreams[f] \in Count
      <4>1. Cardinality(FileSet(actor, f)) \in Count /\ Cardinality(Actors) \in Nat
        BY <2>1, FS_CardinalityType, LifecycleAssumption DEF FileSet
      <4> QED  BY <3>1, <4>1 DEF Count, LInv, Balance
    <3> QED  BY <3>1, <3>2
  <2>4. engines \in Seq(Engine)
    <3>1. engines \in [1..Len(engines) -> Box] /\ Len(engines) \in Nat  BY DEF LInv, Typed
    <3>2. ASSUME NEW e \in 1..Len(engines) PROVE engines[e] \in Engine
      <4>1. engines[e].readers \in Count  BY <2>1 DEF LInv, Balance, ReaderSet
      <4> QED  BY <3>1, <4>1 DEF Box, Engine
    <3>3. engines \in [1..Len(engines) -> Engine]  BY <3>1, <3>2
    <3> QED  BY <3>1, <3>3
  <2>5. registry \in Ids /\ registry <= Len(engines) /\ session \in Ids /\ session <= added
    <3>1. registry \in 0..Len(engines) /\ Len(engines) <= MaxEngines /\ Len(engines) \in Nat
          /\ added \in 0..MaxEngines /\ session \in 0..added
      BY DEF LInv, Typed, Ids
    <3> QED  BY <3>1, LifecycleAssumption DEF Ids
  <2> QED  BY <2>2, <2>3, <2>4, <2>5 DEF LInv, Typed, TypeOK, Sweeps
<1> QED  BY <1>1, LifecycleInvariant, PTL

(* lib.rs, on_stream_start and on_stream_end: active_streams counts the      *)
(* requests that counted themselves and did not end, active_file_streams     *)
(* never more than those of its file, and in native mode exactly those.      *)
THEOREM CountersBalance == Spec => []CountsBalance
<1>1. LInv => CountsBalance
  <2> SUFFICES ASSUME LInv PROVE CountsBalance  OBVIOUS
  <2>1. StreamSet(actor) = {a \in Actors : actor[a].counted >= 1 /\ ~At(a, "endFile")}
    BY DEF StreamSet, InStreams, At
  <2>2. ASSUME NEW f \in Files
        PROVE  FileSet(actor, f) = {a \in Counted(1, f) : actor[a].counted = 2 \/ At(a, "endFile")}
    BY DEF FileSet, InFile, Counted, At
  <2> QED  BY <2>1, <2>2 DEF LInv, Balance, CountsBalance
<1> QED  BY <1>1, LifecycleInvariant, PTL

(* lib.rs, MetadataResolutionGuard and the readers: an engine counts the     *)
(* requests that resolve or read a file of that engine, also when another    *)
(* one took its place in the registry.                                       *)
THEOREM ReaderCountsBalance == Spec => []ReadersBalance
<1>1. LInv => ReadersBalance
  <2> SUFFICES ASSUME LInv PROVE ReadersBalance  OBVIOUS
  <2>1. DOMAIN engines = 1..Len(engines)  BY DEF LInv, Typed
  <2>2. ASSUME NEW e
        PROVE  ReaderSet(actor, e) =
                 {a \in Actors : /\ actor[a].engine = e /\ Streaming(a)
                                 /\ actor[a].pc \notin {"ending", "endFile", "endTouch", "dropped", "done"}}
    BY DEF ReaderSet, InReaders, Streams, Streaming
  <2> QED  BY <2>1, <2>2 DEF LInv, Balance, ReadersBalance
<1> QED  BY <1>1, LifecycleInvariant, PTL

(* lib.rs, remove_inactive: the sweeper chooses an engine only when no       *)
(* response body is open and no lease is live.                               *)
THEOREM SweeperSparesPlayback == Spec => SweepSparesPlayback
<1>1. LInv /\ [Next]_vars =>
        [(sweep.pc = "scan" /\ sweep'.pc = "unregister")
           => /\ \A a \in Actors : ~Reading(a)
              /\ \A f \in Files : lease[f] # "live"]_vars
  <2> SUFFICES ASSUME LInv, Next, sweep.pc = "scan", sweep'.pc = "unregister"
               PROVE  Inactive /\ \A a \in Actors : ~Reading(a)
    BY DEF Inactive
  <2>1. Inactive
    <3>1. ASSUME NEW a \in Actors,
                 \/ FindEngine(a) \/ Handle(a) \/ RequestDropped(a) \/ OpenReader(a)
                 \/ StreamEnds(a) \/ StreamEndTask(a) \/ Poll(a) \/ EndHls(a)
          PROVE  sweep' = sweep
      <4>1. CASE FindEngine(a)  BY <4>1 DEF FindEngine, LookupFound, LookupMissing, AddFails
      <4>2. CASE Handle(a)
        BY <4>2
        DEF Handle, RegisterFound, Register, Refused, StreamStarts, CountStream, CountFile,
          RefreshLease, Reselect, TakeGeneration, InsertSelection, RetainFile
      <4>3. CASE RequestDropped(a) \/ OpenReader(a) \/ StreamEnds(a) \/ StreamEndTask(a)
        BY <4>3
        DEF RequestDropped, OpenReader, StreamEnds, StreamEndTask, UncountStream, UncountFile, EndTouch
      <4>4. CASE Poll(a) \/ EndHls(a)  BY <4>4 DEF Poll, EndHls
      <4> QED  BY <3>1, <4>1, <4>2, <4>3, <4>4
    <3>2. ASSUME NEW c, CleanupTask(c) PROVE sweep' = sweep
      BY <3>2 DEF CleanupTask, CheckCleanup, ClearSelection
    <3>3. ASSUME Ages \/ (\E f \in Files : LeaseExpires(f)) \/ OtherTorrentStreams \/ EngineRemoved
          PROVE  sweep' = sweep
      BY <3>3 DEF Ages, LeaseExpires, OtherTorrentStreams, EngineRemoved
    <3>4. sweep' # sweep  OBVIOUS
    <3>5. Sweep  BY <3>1, <3>2, <3>3, <3>4 DEF Next
    <3>6. SweepScan
      BY <3>5 DEF Sweep, SweepWakes, SweepLease, SweepLeasesDone, SweepUnregister, SweepRemovesTorrent
    <3>7. sweep'.pc = IF Inactive THEN "unregister" ELSE "sleeping"
      BY <3>6 DEF SweepScan, LInv, Typed, Sweeps
    <3> QED  BY <3>7
  <2>2. ASSUME NEW a \in Actors, Reading(a) PROVE FALSE
    <3>1. InStreams(actor[a])  BY <2>2 DEF Reading, LInv, Sound, InStreams
    <3> QED  BY <2>1, <3>1, CountedOnce DEF Inactive
  <2> QED  BY <2>1, <2>2
<1> QED  BY <1>1, LifecycleInvariant, PTL DEF Spec, SweepSparesPlayback
================================================================================
