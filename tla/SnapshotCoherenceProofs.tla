----------------------- MODULE SnapshotCoherenceProofs -----------------------
(* SnapshotCoherence for every world, radius and cap. *)
EXTENDS SnapshotCoherence, TLAPS

LEMMA TypeInit == Init => TypeOK
  BY SnapshotAssumption DEF Init, TypeOK

\* What a build takes over is again a function from blocks to block types.
LEMMA RebuiltType == ASSUME TypeOK, NEW b \in Blocks PROVE Rebuilt(b) \in Contents
  BY SnapshotAssumption DEF TypeOK, Rebuilt, Read

LEMMA TypeStep == ASSUME TypeOK, [Next]_vars PROVE TypeOK'
<1> USE SnapshotAssumption DEF TypeOK, events, tracker, counters
<1>1. ASSUME NEW c \in Chunks, Join(c) PROVE TypeOK'
  BY <1>1 DEF Join, Window
<1>2. ASSUME NEW c \in Chunks, Move(c) PROVE TypeOK'
  BY <1>2 DEF Move, Window
<1>3. ASSUME NEW b \in Blocks, NEW to \in Contents, Change(b, to) PROVE TypeOK'
  BY <1>3 DEF Change
<1>4. ASSUME NEW c \in Chunks, HandleChunk(c) PROVE TypeOK'
  BY <1>4 DEF HandleChunk
<1>5. ASSUME NEW b \in Blocks, HandleBlock(b) PROVE TypeOK'
  BY <1>5 DEF HandleBlock
<1>6. CASE Build
  <2>1. snapshot' \in [Blocks -> Contents]
    BY <1>6, RebuiltType DEF Build
  <2>2. dirtyChunks' \subseteq Chunks
    BY <1>6 DEF Build, Overflow, InRadius
  <2> QED BY <1>6, <2>1, <2>2 DEF Build
<1>7. CASE UNCHANGED vars
  BY <1>7 DEF vars
<1> QED BY <1>1, <1>2, <1>3, <1>4, <1>5, <1>6, <1>7 DEF Next, Server, Handle

\* Every state of every behaviour is well-typed.
THEOREM TypeCorrect == Spec => []TypeOK
<1> QED BY TypeInit, TypeStep, PTL DEF Spec

-----------------------------------------------------------------------------
(* Coherence, while the scan reaches as far as the server loads. *)

\* The client holds just the chunks in view.
Windowed == \A c \in loaded : Within(c, player, View)

\* A smaller radius reaches less.
LEMMA WithinMono ==
  ASSUME NEW c \in Int \X Int, NEW d \in Int \X Int, NEW m \in Nat, NEW n \in Nat,
         m <= n, Within(c, d, m)
  PROVE  Within(c, d, n)
  BY DEF Within, Abs

LEMMA RetentionReaches == Retention \in Nat /\ Scan <= Retention
  BY SnapshotAssumption DEF Retention

LEMMA WindowedStep == ASSUME TypeOK, Windowed, [Next]_vars PROVE Windowed'
<1> USE DEF Windowed, Window
<1>1. ASSUME NEW c \in Chunks, Join(c) PROVE Windowed'
  BY <1>1 DEF Join
<1>2. ASSUME NEW c \in Chunks, Move(c) PROVE Windowed'
  BY <1>2 DEF Move
<1>3. ASSUME UNCHANGED <<loaded, player>> PROVE Windowed'
  BY <1>3
<1> QED BY <1>1, <1>2, <1>3
  DEF Next, Server, Handle, Change, HandleChunk, HandleBlock, Build, vars

\* What the client holds is within the reach of scans, single reads and the
\* retention.
LEMMA LoadedInReach ==
  ASSUME View <= Scan, TypeOK, Windowed, NEW b \in Blocks, ChunkOf(b) \in loaded
  PROVE  Within(ChunkOf(b), player, Scan) /\ Within(ChunkOf(b), player, Retention)
<1> DEFINE c == ChunkOf(b)
<1>1. c \in Int \X Int /\ player \in Int \X Int
  BY SnapshotAssumption DEF TypeOK, Blocks, ChunkOf
<1>2. Within(c, player, View)
  BY DEF Windowed
<1>3. Within(c, player, Scan)
  BY <1>1, <1>2, WithinMono, SnapshotAssumption
<1> QED BY <1>1, <1>3, WithinMono, RetentionReaches, SnapshotAssumption

\* The entry a build writes of a loaded block is the old one or the truth.
LEMMA RebuiltOldOrTrue ==
  ASSUME View <= Scan, TypeOK, Windowed, NEW b \in Blocks, ChunkOf(b) \in loaded
  PROVE  Rebuilt(b) \in {snapshot[b], world[b]}
<1> DEFINE c == ChunkOf(b)
<1>1. Within(c, player, Scan) /\ Within(c, player, Retention)
  BY LoadedInReach
<1>2. CASE c \in ToScan \/ ReadSingly(b)
  BY <1>2 DEF Rebuilt, Read
<1>3. CASE c \notin ToScan /\ ~ReadSingly(b)
  <2>1. b \in dirtyBlocks => c \in Overflow
    BY <1>1, <1>3 DEF ReadSingly, Overflow
  <2> QED BY <1>1, <1>3, <2>1 DEF Rebuilt
<1> QED BY <1>2, <1>3

\* A build leaves each loaded block right, or marked for the next build.
LEMMA BuildCoherent ==
  ASSUME View <= Scan, TypeOK, Windowed, Coherent, Build PROVE Coherent'
<1> SUFFICES ASSUME NEW b \in Blocks, ChunkOf(b) \in loaded, Rebuilt(b) # world[b]
             PROVE  Pending(b)'
  BY DEF Coherent, Build
<1> DEFINE c == ChunkOf(b)
<1>2. Within(c, player, Scan) /\ Within(c, player, Retention)
  BY LoadedInReach
<1>3. c \notin ToScan
  BY DEF Rebuilt, Read
<1>4. CASE c \in dirtyChunks
  <2>1. c \in Overflow
    BY <1>2, <1>3, <1>4 DEF Overflow, InRadius
  <2> QED BY <2>1 DEF Build, Pending
<1>5. CASE c \notin dirtyChunks
  <2>1. c \notin InRadius /\ c \notin Overflow
    BY <1>5 DEF InRadius, Overflow
  <2>2. b \notin dirtyBlocks
    BY <1>2, <2>1 DEF Rebuilt, ReadSingly, Read
  <2>3. Rebuilt(b) = snapshot[b]
    BY <1>2, <1>3, <2>2 DEF Rebuilt, ReadSingly
  <2>4. b \in blockEvents \/ c \in chunkEvents
    BY <1>5, <2>2, <2>3 DEF Coherent, Pending
  <2> QED BY <2>4 DEF Build, Pending, events
<1> QED BY <1>4, <1>5

LEMMA CoherentStep ==
  ASSUME View <= Scan, TypeOK, Windowed, Coherent, [Next]_vars PROVE Coherent'
<1> USE DEF Coherent, Pending, events, tracker, counters
<1>1. ASSUME NEW c \in Chunks, Join(c) PROVE Coherent'
  BY <1>1 DEF Join
<1>2. ASSUME NEW c \in Chunks, Move(c) PROVE Coherent'
  BY <1>2 DEF Move
<1>3. ASSUME NEW b \in Blocks, NEW to \in Contents, Change(b, to) PROVE Coherent'
  BY <1>3 DEF Change, TypeOK
<1>4. ASSUME NEW c \in Chunks, HandleChunk(c) PROVE Coherent'
  BY <1>4 DEF HandleChunk
<1>5. ASSUME NEW b \in Blocks, HandleBlock(b) PROVE Coherent'
  BY <1>5 DEF HandleBlock
<1>6. CASE Build
  BY <1>6, BuildCoherent
<1>7. CASE UNCHANGED vars
  BY <1>7 DEF vars
<1> QED BY <1>1, <1>2, <1>3, <1>4, <1>5, <1>6, <1>7 DEF Next, Server, Handle

\* No change to a loaded block is ever forgotten, whatever the cap.
THEOREM AlwaysCoherent == View <= Scan => (Spec => []Coherent)
<1> SUFFICES ASSUME View <= Scan PROVE Spec => []Coherent
  OBVIOUS
<1>1. Init => Windowed /\ Coherent
  BY DEF Init, Windowed, Coherent
<1>2. TypeOK /\ Windowed /\ Coherent /\ [Next]_vars => Windowed' /\ Coherent'
  BY WindowedStep, CoherentStep
<1> QED BY TypeCorrect, <1>1, <1>2, PTL DEF Spec

\* No build makes a loaded block disappear that is still there (F-26), or a
\* right entry wrong, whatever is over the cap.
THEOREM BuildsKeepOrCorrect == View <= Scan => (Spec => OldOrTrue)
<1> SUFFICES ASSUME View <= Scan PROVE Spec => OldOrTrue
  OBVIOUS
<1>1. Init => Windowed
  BY DEF Init, Windowed
<1>2. TypeOK /\ Windowed /\ [Next]_vars => Windowed'
  BY WindowedStep
<1>3. TypeOK /\ Windowed /\ [Next]_vars =>
        [\A b \in Blocks : ChunkOf(b) \in loaded =>
           snapshot'[b] \in {snapshot[b], world[b]}]_snapshot
  <2> SUFFICES ASSUME TypeOK, Windowed, [Next]_vars, snapshot' # snapshot,
                      NEW b \in Blocks, ChunkOf(b) \in loaded
               PROVE  snapshot'[b] \in {snapshot[b], world[b]}
    OBVIOUS
  <2>1. Build
    BY DEF Next, Server, Handle, Join, Move, Change, HandleChunk, HandleBlock, vars
  <2> QED BY <2>1, RebuiltOldOrTrue DEF Build
<1> QED BY TypeCorrect, <1>1, <1>2, <1>3, PTL DEF Spec, OldOrTrue

\* So an absent entry in the retention radius means what break_block says.
THEOREM AbsenceMeansGone == View <= Scan => (Spec => []AbsentMeansGone)
<1> SUFFICES ASSUME View <= Scan PROVE Spec => []AbsentMeansGone
  OBVIOUS
<1>1. Coherent => AbsentMeansGone
  BY DEF Coherent, AbsentMeansGone
<1> QED BY AlwaysCoherent, <1>1, PTL

-----------------------------------------------------------------------------
(* Boundedness, for any radii. *)

LEMMA BoundedStep == ASSUME TypeOK, Bounded, [Next]_vars PROVE Bounded'
<1>1. CASE Build
  <2> SUFFICES ASSUME NEW b \in Blocks, Rebuilt(b) # Air
               PROVE  Within(ChunkOf(b), player, Retention)
    BY <1>1 DEF Build, Bounded, Retention, Within
  <2>1. CASE ChunkOf(b) \in ToScan
    <3>1. Within(ChunkOf(b), player, Scan) /\ ChunkOf(b) \in Int \X Int
      BY <2>1, SnapshotAssumption DEF ToScan, InRadius, TypeOK
    <3>2. player \in Int \X Int
      BY SnapshotAssumption DEF TypeOK
    <3> QED BY <3>1, <3>2, WithinMono, RetentionReaches, SnapshotAssumption
  <2>2. CASE ChunkOf(b) \notin ToScan
    BY <2>2 DEF Rebuilt, ReadSingly
  <2> QED BY <2>1, <2>2
<1>2. ASSUME UNCHANGED <<snapshot, seen>> PROVE Bounded'
  BY <1>2 DEF Bounded
<1> QED BY <1>1, <1>2
  DEF Next, Server, Handle, Join, Move, Change, HandleChunk, HandleBlock, vars

\* The snapshot never outgrows the retention radius of its player.
THEOREM AlwaysBounded == Spec => []Bounded
<1>1. Init => Bounded
  BY DEF Init, Bounded
<1>2. TypeOK /\ Bounded /\ [Next]_vars => Bounded'
  BY BoundedStep
<1> QED BY TypeCorrect, <1>1, <1>2, PTL DEF Spec
=============================================================================
