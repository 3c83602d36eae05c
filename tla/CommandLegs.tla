----------------------------- MODULE CommandLegs -----------------------------
(***************************************************************************)
(* The command handlers that wait (src/src/bot/commands.rs), as the legs   *)
(* they are made of: walks under a window cut from the command timeout,    *)
(* pauses, feedback windows and the wait for a snapshot that shows the     *)
(* effect.  The caller of the command reads its envelope once, when it     *)
(* sends (timeout_for in channel.rs), and stops listening when that is     *)
(* over; update_settings may change the settings the handler reads.        *)
(*                                                                         *)
(* The life of one command that finds the executor idle; the queue before  *)
(* it is in CommandChannel, Act(Mine) in MineBlock.  The clock counts game *)
(* ticks of 50 ms, of which every delay here is a multiple.                *)
(***************************************************************************)
EXTENDS Integers

CONSTANTS Settings,   \* [command, fly : seconds, interval : ticks]
          MaxTargets  \* bound: item drops a CollectItems finds

Second == 20
Margin == 20              \* MOVEMENT_REPLY_MARGIN
MinTargetBudget == 40     \* MIN_COLLECT_TARGET_BUDGET
RetryDelay == 6           \* SMART_MOVE_RETRY_DELAY
FeedbackWait == 8         \* COMMAND_FEEDBACK_WAIT_MS
PickupPause == 4
DropSettle == 5
OpenTimeout == 100        \* of open_container_at
Window == 60              \* ACTIVITY_WINDOW
IdleInterval == 100       \* IDLE_SNAPSHOT_INTERVAL_MS

ASSUME LegsAssumption ==
  /\ Settings \subseteq [command : Nat \ {0}, fly : Nat \ {0}, interval : Nat \ {0}]
  /\ MaxTargets \in Nat

\* "walk" is WalkDirection and MoveTo, "place" also UseItemOnBlock with a
\* placement item, "execute" also Teleport.
ActKinds == {"walk", "smart", "fly", "collect", "attack"}
Commands == [kind : ActKinds \cup {"place", "drop", "execute", "open"}, act : {FALSE}]
              \cup [kind : ActKinds, act : {TRUE}]

VARIABLES
  command,    \* the command, and whether it came as Act(..)
  settings,   \* the part of AppConfig the handlers read
  changed,    \* the settings changed since the command was sent
  envelope,   \* how long the caller listens
  longest,    \* longest envelope of the settings there were since (history)
  pc,         \* the wait of the handler
  clock,      \* since the command was sent
  until,      \* clock at which the wait ends
  retried,    \* smart_move used its retry
  share,      \* window of the next walk (smart retry, collect target)
  budget,     \* remaining_budget of a collect
  left,       \* remaining_targets of a collect
  verify,     \* budget of the verification, 0 before it
  fact,       \* the effect is there: block placed, entity in reach
  since,      \* clock at which it came to be
  seen,       \* the snapshot shows it
  stamp,      \* clock at last_command_at
  sinceBuild, \* last_update.elapsed()
  reply

planVars == <<retried, share, budget, left>>
worldVars == <<fact, since, seen, sinceBuild>>
cfgVars == <<command, settings, changed, envelope, longest>>
vars == <<cfgVars, pc, clock, until, planVars, verify, worldVars, stamp, reply>>

Larger(a, b) == IF a >= b THEN a ELSE b

\* timeout_for
Envelope(c, s) ==
  Second * (IF c.kind = "fly" \/ (c.act /\ c.kind = "collect")
            THEN Larger(s.command, s.fly) ELSE s.command)

\* The snapshot was just built, or the bot idled until the next is due.
Init ==
  /\ command \in Commands /\ settings \in Settings
  /\ changed = FALSE
  /\ envelope = Envelope(command, settings) /\ longest = envelope
  /\ pc = "sent" /\ clock = 0 /\ until = 0
  /\ retried = FALSE /\ share = 0 /\ budget = 0 /\ left = 0
  /\ verify = 0
  /\ fact \in BOOLEAN /\ since = 0 /\ seen = fact
  /\ stamp = 0 /\ sinceBuild \in {0, IdleInterval - 1}
  /\ reply = "none"

Kind == command.kind
Replies(what) == pc' = "replied" /\ reply' = what /\ UNCHANGED until
WaitsFor(point, ticks) == pc' = point /\ until' = clock + ticks /\ UNCHANGED reply

\* Variant: the walk takes the whole timeout.
WalksWithoutMargin(ticks) == WaitsFor("walk", ticks)

\* goto_with_margin_with_timeout, after the seconds of the timeout.
Walks(ticks) == WaitsFor("walk", Larger(ticks - Margin, 0))

\* as_secs, of a duration in ticks.
WholeSeconds(ticks) == Second * (ticks \div Second)

-----------------------------------------------------------------------------
(* Dispatch. *)

\* A refusal: validation, permission, unloaded chunk, unknown entity, occupied
\* cell, empty radius, count zero, open window.
Refuse ==
  /\ pc = "sent"
  /\ Replies("refused")
  /\ UNCHANGED <<cfgVars, clock, planVars, verify, worldVars, stamp>>

BeginWalk ==
  /\ pc = "sent" /\ Kind \in {"walk", "smart", "fly"}
  /\ Walks(Second * (IF Kind = "fly" THEN settings.fly ELSE settings.command))
  /\ UNCHANGED <<cfgVars, clock, planVars, verify, worldVars, stamp>>

\* Waits of a fixed length: chat feedback, the drop to settle, the window of a
\* container to open.
BeginWait ==
  /\ pc = "sent"
  /\ \/ Kind = "execute" /\ WaitsFor("feedback", FeedbackWait)
     \/ Kind = "drop" /\ WaitsFor("settle", DropSettle)
     \/ Kind = "open" /\ WaitsFor("open", OpenTimeout)
  /\ UNCHANGED <<cfgVars, clock, planVars, verify, worldVars, stamp>>

BeginCollect ==
  /\ pc = "sent" /\ Kind = "collect"
  /\ left' \in 1..MaxTargets
  /\ budget' = Larger(Second * settings.command - Margin, 0)
  /\ pc' = "next"
  /\ UNCHANGED <<cfgVars, clock, until, retried, share, verify, worldVars, stamp, reply>>

\* The reach check, on the snapshot.
Decide == Replies(IF seen THEN "attacked" ELSE "too_far")

BeginAttack ==
  /\ pc = "sent" /\ Kind = "attack"
  /\ IF seen THEN Decide ELSE Walks(Second * settings.command)
  /\ UNCHANGED <<cfgVars, clock, planVars, verify, worldVars, stamp>>

\* Variant: only a cadence that is idle already is stamped anew.
RestampsOnceIdle(ticks) == clock - stamp > Window

\* verification_needs_activity_restamp
Restamps(ticks) == clock - stamp + ticks >= Window

\* block_interact, which the server may reject, and the begin of
\* wait_for_block_present.
Click ==
  /\ fact' \in BOOLEAN /\ since' = clock
  /\ verify' = settings.interval + 5
  /\ stamp' = IF Restamps(verify') THEN clock ELSE stamp
  /\ WaitsFor("verify", verify')
  /\ UNCHANGED <<seen, sinceBuild>>

BeginPlace ==
  /\ pc = "sent" /\ Kind = "place" /\ ~seen
  /\ \/ Click
     \/ Walks(Second * settings.command) /\ UNCHANGED <<verify, worldVars, stamp>>
  /\ UNCHANGED <<cfgVars, clock, planVars>>

-----------------------------------------------------------------------------
(* The legs. *)

\* collect_target_budget, or the end of the loop.
NextTarget ==
  /\ pc = "next"
  /\ IF left = 0 THEN Replies("collected") /\ UNCHANGED share
     ELSE IF budget \div left < MinTargetBudget THEN Replies("timed_out") /\ UNCHANGED share
     ELSE /\ share' = budget \div left
          /\ Walks(WholeSeconds(share'))
  /\ UNCHANGED <<cfgVars, clock, retried, budget, left, verify, worldVars, stamp>>

\* A visited or failed target takes its share with it.
TargetDone ==
  /\ pc' = "next"
  /\ budget' = Larger(budget - share, 0) /\ left' = left - 1
  /\ UNCHANGED <<until, retried, share, reply>>

\* What smart_move has left for its retry.
RetryWindow ==
  Larger(Larger(Second * settings.command - Margin, 0) - clock - RetryDelay, 0)

\* Variant: a retry may get any window.
WorthRetryAny == RetryWindow > 0
WorthRetry == RetryWindow >= 2 * Margin

\* The pathfinder stops short of the target, once.
Short ==
  IF ~retried /\ WorthRetry
  THEN /\ retried' = TRUE /\ share' = RetryWindow
       /\ WaitsFor("pause", RetryDelay) /\ UNCHANGED <<budget, left>>
  ELSE Replies("obstacle") /\ UNCHANGED planVars

Retry ==
  /\ pc = "pause" /\ clock = until
  /\ Walks(WholeSeconds(share))
  /\ UNCHANGED <<cfgVars, clock, planVars, verify, worldVars, stamp>>

\* goto completes, with success or with an error.
WalkEnds ==
  /\ pc = "walk"
  /\ CASE Kind = "walk" -> Replies("walked") /\ UNCHANGED <<planVars, verify, worldVars, stamp>>
       [] Kind = "smart" ->
            /\ \/ Replies("reached") /\ UNCHANGED planVars
               \/ Short
            /\ UNCHANGED <<verify, worldVars, stamp>>
       [] Kind = "fly" ->
            /\ \/ Replies("blocked") \/ WaitsFor("feedback", FeedbackWait)
            /\ UNCHANGED <<planVars, verify, worldVars, stamp>>
       [] Kind = "collect" ->
            /\ \/ WaitsFor("pickup", PickupPause) /\ UNCHANGED planVars
               \/ TargetDone
            /\ UNCHANGED <<verify, worldVars, stamp>>
       [] Kind = "attack" -> Decide /\ UNCHANGED <<planVars, verify, worldVars, stamp>>
       [] Kind = "place" -> Click /\ UNCHANGED planVars
  /\ UNCHANGED <<cfgVars, clock>>

\* The window closes: a partial result, or an approach that is only tried.
WalkTimesOut ==
  /\ pc = "walk" /\ clock = until
  /\ CASE Kind \in {"walk", "smart", "fly", "collect"} ->
            Replies("timed_out") /\ UNCHANGED <<verify, worldVars, stamp>>
       [] Kind = "attack" -> Decide /\ UNCHANGED <<verify, worldVars, stamp>>
       [] Kind = "place" -> Click
  /\ UNCHANGED <<cfgVars, clock, planVars>>

PickedUp ==
  /\ pc = "pickup" /\ clock = until
  /\ TargetDone
  /\ UNCHANGED <<cfgVars, clock, verify, worldVars, stamp>>

\* The window of the container may open before its timeout.
WaitEnds ==
  /\ pc \in {"feedback", "settle", "open"}
  /\ pc # "open" => clock = until
  /\ Replies("answered")
  /\ UNCHANGED <<cfgVars, clock, planVars, verify, worldVars, stamp>>

\* wait_for_block_present
Verified ==
  /\ pc = "verify" /\ (seen \/ clock = until)
  /\ Replies(IF seen THEN "placed" ELSE "not_seen")
  /\ UNCHANGED <<cfgVars, clock, planVars, verify, worldVars, stamp>>

-----------------------------------------------------------------------------
(* What goes on beside the handler. *)

\* effective_snapshot_interval_ms
Cadence(age) ==
  IF age <= Window THEN settings.interval ELSE Larger(settings.interval, IdleInterval)

\* Variant: the dispatch of the command did not count as activity.
DueIdle == sinceBuild + 1 >= Larger(settings.interval, IdleInterval)

\* check_and_update_timer
Due == sinceBuild + 1 >= Cadence(clock + 1 - stamp)

\* A game tick, and the build when it is due.
Tick ==
  /\ clock < until /\ pc \notin {"next", "replied"}
  /\ clock' = clock + 1
  /\ IF Due
     THEN sinceBuild' = 0 /\ seen' = fact
     ELSE sinceBuild' = sinceBuild + 1 /\ UNCHANGED seen
  /\ UNCHANGED <<cfgVars, pc, until, planVars, verify, fact, since, stamp, reply>>

\* The bot comes within reach of the entity it walks to.
InReach ==
  /\ pc = "walk" /\ Kind = "attack" /\ ~fact
  /\ fact' = TRUE /\ since' = clock
  /\ UNCHANGED <<cfgVars, pc, clock, until, planVars, verify, seen, sinceBuild, stamp, reply>>

\* update_settings, once (bound).
UpdateSettings ==
  /\ pc # "replied" /\ ~changed
  /\ settings' \in Settings \ {settings}
  /\ changed' = TRUE
  /\ longest' = Larger(longest, Envelope(command, settings'))
  /\ UNCHANGED <<command, envelope, pc, clock, until, planVars, verify, worldVars, stamp, reply>>

Begin == Refuse \/ BeginWalk \/ BeginWait \/ BeginCollect \/ BeginAttack \/ BeginPlace
Leg == NextTarget \/ Retry \/ WalkEnds \/ WalkTimesOut \/ PickedUp \/ WaitEnds \/ Verified
Next == Begin \/ Leg \/ Tick \/ InReach \/ UpdateSettings

Spec == Init /\ [][Next]_vars

-----------------------------------------------------------------------------
(* Properties. *)

TypeOK ==
  /\ command \in Commands /\ settings \in Settings /\ changed \in BOOLEAN
  /\ envelope \in Nat /\ longest \in Nat /\ clock \in Nat /\ until \in Nat /\ stamp \in 0..clock
  /\ pc \in {"sent", "walk", "next", "pause", "pickup", "feedback", "settle", "open",
             "verify", "replied"}
  /\ retried \in BOOLEAN /\ share \in Nat /\ budget \in Nat /\ left \in 0..MaxTargets
  /\ verify \in Nat
  /\ fact \in BOOLEAN /\ since \in 0..clock /\ seen \in BOOLEAN /\ sinceBuild \in Nat
  /\ reply \in {"none", "refused", "walked", "reached", "obstacle", "blocked", "collected",
                "timed_out", "attacked", "too_far", "answered", "placed", "not_seen"}

\* The latest reply to a caller that listens for e: a verification comes late
\* by what it takes beyond the margin, a container by its own timeout.
Latest(e) ==
  IF Kind = "open" THEN Larger(e, OpenTimeout) ELSE e + Larger(verify - Margin, 0)

\* A handler replies while its caller listens, and is late by no more than the
\* two named excesses, unless the timeouts were raised under it: every leg
\* reads them anew, the caller does not (RepliesBeforeEnvelope).
RepliesInTime == longest = envelope => clock <= Latest(envelope)

\* Every walk of a collect and the retry of a smart_move get a second or more
\* of window.
WalksMeaningful ==
  [][pc # "walk" /\ pc' = "walk" /\ (retried \/ Kind = "collect")
       => until' - clock' >= Second]_vars

\* A block the server put at the click is not reported as absent, however long
\* the walk before the click was.  (Under an interval longer than the activity
\* window one stamp does not last for the verification, and it may be.)
PlacedIsSeen ==
  reply = "not_seen" /\ ~changed /\ settings.interval <= Window => ~fact

InReachFor(ticks) == fact /\ clock - since > ticks

\* An attack is refused as too far only when the bot was in reach for no
\* longer than a snapshot may be old.
TooFarIsRecent ==
  reply = "too_far" /\ ~changed => ~InReachFor(Cadence(clock - stamp))

\* commands.rs: after the approach "attack only when the target is within reach
\* now", "if it moved on (or despawned) ... the caller gets the honest TooFar";
\* an entity the bot is in reach of for a second is not too far.
TooFarIsHonest == reply = "too_far" /\ ~changed => ~InReachFor(Second)

\* channel.rs, of a flight: "the executor always replies before this envelope
\* fires"; commands.rs, of a smart move: "the total never exceeds the command
\* envelope".
RepliesBeforeEnvelope == Kind \in {"fly", "smart"} => clock <= envelope
=============================================================================
