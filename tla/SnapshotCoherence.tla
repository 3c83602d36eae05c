-------------------------- MODULE SnapshotCoherence --------------------------
(***************************************************************************)
(* The incremental world snapshot (src/src/snapshot.rs,                    *)
(* src/src/bot/snapshot_updater.rs and the marking handlers of             *)
(* src/src/bot/events.rs).                                                 *)
(*                                                                         *)
(* The server loads chunks around the player and changes blocks; azalea    *)
(* applies each packet to the client's world and queues an event for       *)
(* handle_event; the handlers mark chunks and blocks dirty; a build re-    *)
(* reads what is dirty and copies the rest from the previous snapshot.     *)
(* The events of a session are handled in any order.  A build runs without *)
(* an await, so it is one step.                                            *)
(*                                                                         *)
(* Blocks are <<chunk, slot>>; Air stands for "no entry" in the snapshot.  *)
(***************************************************************************)
EXTENDS Integers, FiniteSets

CONSTANTS Chunks,      \* chunk coordinates <<x, z>> of the world
          Slots,       \* block positions in a chunk
          Contents, Air, \* block types
          View,        \* how far (in chunks) the server loads around the player
          Scan,        \* chunk_scan_radius
          Floor,       \* RETENTION_CHUNK_FLOOR
          Cap,         \* MAX_DIRTY_CHUNKS_PER_BUILD
          MaxChanges, MaxMoves, MaxSessions \* bounds

ASSUME SnapshotAssumption ==
  /\ Chunks \subseteq Int \X Int
  /\ Air \in Contents
  /\ View \in Nat /\ Scan \in Nat /\ Floor \in Nat /\ Cap \in Nat \ {0}
  /\ MaxChanges \in Nat /\ MaxMoves \in Nat /\ MaxSessions \in Nat

Blocks == Chunks \X Slots
ChunkOf(b) == b[1]

VARIABLES world,       \* [Blocks -> Contents], the server's
          player,      \* chunk the player stands in
          loaded,      \* chunks the client holds; it sees world there
          chunkEvents, \* chunks with a ReceiveChunk event to handle
          blockEvents, \* blocks with a block-update packet event to handle
          dirtyChunks, dirtyBlocks, \* DirtyTracker
          snapshot,    \* [Blocks -> Contents], the block index
          seen,        \* self_player's chunk in the snapshot
          changes, moves, sessions

events == <<chunkEvents, blockEvents>>
tracker == <<dirtyChunks, dirtyBlocks>>
counters == <<changes, moves, sessions>>
vars == <<world, player, loaded, events, tracker, snapshot, seen, counters>>

Abs(n) == IF n < 0 THEN -n ELSE n

\* block_within_chunk_radius: the Chebyshev distance of two chunks.
Within(c, d, radius) == Abs(c[1] - d[1]) <= radius /\ Abs(c[2] - d[2]) <= radius

Retention == IF Scan > Floor THEN Scan ELSE Floor

Window(center) == {c \in Chunks : Within(c, center, View)}

Init ==
  /\ world \in [Blocks -> Contents]
  /\ player \in Chunks
  /\ loaded = {}
  /\ chunkEvents = {} /\ blockEvents = {}
  /\ dirtyChunks = {} /\ dirtyBlocks = {}
  /\ snapshot = [b \in Blocks |-> Air]
  /\ seen = player
  /\ changes = 0 /\ moves = 0 /\ sessions = 0

-----------------------------------------------------------------------------
(* The server. *)

\* A session begins: a fresh BotState (tracker, queue) and the chunks around
\* the player; the snapshot of the previous session stays.
Join(c) ==
  /\ sessions < MaxSessions
  /\ sessions' = sessions + 1
  /\ player' = c
  /\ loaded' = Window(c)
  /\ chunkEvents' = Window(c) /\ blockEvents' = {}
  /\ dirtyChunks' = {} /\ dirtyBlocks' = {}
  /\ UNCHANGED <<world, snapshot, seen, changes, moves>>

\* The player crosses a chunk border, or teleports.
Move(c) ==
  /\ loaded # {} /\ c # player
  /\ moves < MaxMoves
  /\ moves' = moves + 1
  /\ player' = c
  /\ loaded' = Window(c)
  /\ chunkEvents' = chunkEvents \cup (Window(c) \ loaded)
  /\ UNCHANGED <<world, blockEvents, tracker, snapshot, seen, changes, sessions>>

\* A block changes; the client is told if it has the chunk.
Change(b, to) ==
  /\ changes < MaxChanges /\ to # world[b]
  /\ changes' = changes + 1
  /\ world' = [world EXCEPT ![b] = to]
  /\ blockEvents' = IF ChunkOf(b) \in loaded THEN blockEvents \cup {b} ELSE blockEvents
  /\ UNCHANGED <<player, loaded, chunkEvents, tracker, snapshot, seen, moves, sessions>>

-----------------------------------------------------------------------------
(* events.rs and DirtyTracker. *)

\* handle_receive_chunk
HandleChunk(c) ==
  /\ c \in chunkEvents
  /\ chunkEvents' = chunkEvents \ {c}
  /\ dirtyChunks' = dirtyChunks \cup {c}
  /\ UNCHANGED <<world, player, loaded, blockEvents, dirtyBlocks, snapshot, seen, counters>>

\* Variant: the position is taken in the next chunk.
HandleBlockAstray(b) ==
  /\ b \in blockEvents
  /\ blockEvents' = blockEvents \ {b}
  /\ dirtyBlocks' = dirtyBlocks \cup {<<<<b[1][1] + 1, b[1][2]>>, b[2]>>}
  /\ UNCHANGED <<world, player, loaded, chunkEvents, dirtyChunks, snapshot, seen, counters>>

\* handle_packet_block_updates
HandleBlock(b) ==
  /\ b \in blockEvents
  /\ blockEvents' = blockEvents \ {b}
  /\ dirtyBlocks' = dirtyBlocks \cup {b}
  /\ UNCHANGED <<world, player, loaded, chunkEvents, dirtyChunks, snapshot, seen, counters>>

-----------------------------------------------------------------------------
(* snapshot_updater.rs and SnapshotBuilder. *)

\* Nearest first, ties by coordinates.
Distance(c) == LET dx == Abs(c[1] - player[1])
                   dz == Abs(c[2] - player[2])
               IN  IF dx > dz THEN dx ELSE dz

Before(c, d) ==
  \/ Distance(c) < Distance(d)
  \/ Distance(c) = Distance(d) /\ (c[1] < d[1] \/ (c[1] = d[1] /\ c[2] < d[2]))

\* plan_dirty_chunk_scan: dirty chunks in the radius, at most Cap of them.
InRadius == {c \in dirtyChunks : Within(c, player, Scan)}
ToScan == {c \in InRadius : Cardinality({d \in InRadius : Before(d, c)}) < Cap}

Overflow == InRadius \ ToScan

\* get_block_state on the client's world.
Read(b) == IF ChunkOf(b) \in loaded THEN world[b] ELSE Air

\* Variant: the radius of single reads is one short.
ReadSinglyShort(b) ==
  /\ b \in dirtyBlocks
  /\ Within(ChunkOf(b), player, Retention - 1)
  /\ ChunkOf(b) \notin InRadius

\* A dirty block is read unless the scan of its chunk covers it.
ReadSingly(b) ==
  /\ b \in dirtyBlocks
  /\ Within(ChunkOf(b), player, Retention)
  /\ ChunkOf(b) \notin InRadius

\* Variant: nothing is pruned.
RebuiltUnpruned(b) ==
  IF ChunkOf(b) \in ToScan \/ ReadSingly(b) THEN Read(b)
  ELSE IF b \in dirtyBlocks /\ ChunkOf(b) \notin Overflow THEN Air
  ELSE snapshot[b]

\* Variant: dirty blocks of chunks over the cap are dropped unread (F-26).
RebuiltVanishing(b) ==
  IF ChunkOf(b) \in ToScan \/ ReadSingly(b) THEN Read(b)
  ELSE IF b \in dirtyBlocks THEN Air
  ELSE IF Within(ChunkOf(b), player, Retention) THEN snapshot[b]
  ELSE Air

\* The entry of b in the new snapshot.
Rebuilt(b) ==
  IF ChunkOf(b) \in ToScan \/ ReadSingly(b) THEN Read(b)
  ELSE IF b \in dirtyBlocks /\ ChunkOf(b) \notin Overflow THEN Air
  ELSE IF Within(ChunkOf(b), player, Retention) THEN snapshot[b]
  ELSE Air

\* Variant: the tracker is cleared whole after a build.
BuildClearing ==
  /\ loaded # {}
  /\ snapshot' = [b \in Blocks |-> Rebuilt(b)]
  /\ seen' = player
  /\ dirtyChunks' = {}
  /\ dirtyBlocks' = {}
  /\ UNCHANGED <<world, player, loaded, events, counters>>

\* build_and_store
Build ==
  /\ loaded # {}
  /\ snapshot' = [b \in Blocks |-> Rebuilt(b)]
  /\ seen' = player
  /\ dirtyChunks' = Overflow
  /\ dirtyBlocks' = {}
  /\ UNCHANGED <<world, player, loaded, events, counters>>

-----------------------------------------------------------------------------

Handle == (\E c \in Chunks : HandleChunk(c)) \/ (\E b \in Blocks : HandleBlock(b))

Server ==
  \/ \E c \in Chunks : Join(c) \/ Move(c)
  \/ \E b \in Blocks, to \in Contents : Change(b, to)

Next == Server \/ Handle \/ Build

Spec == Init /\ [][Next]_vars

\* Events are handled and ticks build while a session lasts; the server owes
\* nothing.
FairSpec == Spec /\ WF_vars(Handle) /\ WF_vars(Build)

-----------------------------------------------------------------------------
(* Properties. *)

TypeOK ==
  /\ world \in [Blocks -> Contents] /\ snapshot \in [Blocks -> Contents]
  /\ player \in Chunks /\ seen \in Chunks
  /\ loaded \subseteq Chunks /\ chunkEvents \subseteq Chunks /\ dirtyChunks \subseteq Chunks
  /\ blockEvents \subseteq Blocks /\ dirtyBlocks \subseteq Blocks
  /\ changes \in 0..MaxChanges /\ moves \in 0..MaxMoves /\ sessions \in 0..MaxSessions

\* Some event or mark will still make a build re-read b.
Pending(b) ==
  \/ b \in blockEvents \/ b \in dirtyBlocks
  \/ ChunkOf(b) \in chunkEvents \/ ChunkOf(b) \in dirtyChunks

\* A loaded block whose entry differs from the world is still to be re-read:
\* no change is ever forgotten by the caps, filters and prunings of a build.
Coherent ==
  \A b \in Blocks : ChunkOf(b) \in loaded /\ snapshot[b] # world[b] => Pending(b)

\* What a build writes of a loaded block is the old entry or the truth: the
\* block of a chunk over the cap does not "disappear for one build" (F-26), and
\* no right entry is made wrong.
OldOrTrue ==
  [][\A b \in Blocks : ChunkOf(b) \in loaded => snapshot'[b] \in {snapshot[b], world[b]}]_snapshot

\* The snapshot keeps nothing beyond the retention radius of its player.
Bounded ==
  \A b \in Blocks : snapshot[b] # Air => Within(ChunkOf(b), seen, Retention)

\* handle_break_block answers BlockNotFound for an entry absent within the
\* retention radius: then, nothing pending, there is no such block.
AbsentMeansGone ==
  \A b \in Blocks :
    /\ snapshot[b] = Air /\ Within(ChunkOf(b), seen, Retention)
    /\ ChunkOf(b) \in loaded /\ ~Pending(b)
    => world[b] = Air

\* Once the server leaves the world alone, the snapshot comes to show it.
Converges == <>[](\A b \in Blocks : ChunkOf(b) \in loaded => snapshot[b] = world[b])
=============================================================================
