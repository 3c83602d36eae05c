-------------------------- MODULE CommandLegsProofs --------------------------
(* CommandLegs for any settings and any number of collect targets. *)
EXTENDS CommandLegs, TLAPS

-----------------------------------------------------------------------------
(* The arithmetic of the windows. *)

\* collect_target_budget gives no more than is left.
LEMMA ShareBound ==
  ASSUME NEW b \in Nat, NEW n \in Nat \ {0}
  PROVE  b \div n \in Nat /\ b \div n <= b
  BY SMT

\* as_secs rounds down, by less than a second.
LEMMA WholeBound ==
  ASSUME NEW t \in Nat
  PROVE  /\ WholeSeconds(t) \in Nat /\ WholeSeconds(t) <= t
         /\ t >= 2 * Second => WholeSeconds(t) >= 2 * Second
  BY SMT DEF WholeSeconds, Second

\* A timeout of seconds is a number of ticks, one second at least, and within
\* the envelope of the command it is used for.
LEMMA EnvelopeBound ==
  ASSUME NEW c \in Commands, NEW s \in Settings
  PROVE  /\ s.command \in Nat \ {0} /\ s.fly \in Nat \ {0} /\ s.interval \in Nat \ {0}
         /\ Envelope(c, s) \in Nat
         /\ Second * s.command <= Envelope(c, s)
         /\ c.kind = "fly" => Second * s.fly <= Envelope(c, s)
<1>1. s.command \in Nat \ {0} /\ s.fly \in Nat \ {0} /\ s.interval \in Nat \ {0}
  BY LegsAssumption
<1> QED BY <1>1 DEF Envelope, Second, Larger

-----------------------------------------------------------------------------
(* Types. *)

\* What the numbers have besides their types.
NumbersOK ==
  /\ pc \in {"sent", "walk", "pause", "pickup", "feedback", "settle", "open", "verify"}
       => clock <= until
  /\ pc = "sent" => clock = 0 /\ until = 0 /\ ~retried
  /\ pc \in {"walk", "pickup"} /\ Kind = "collect" => left >= 1
  /\ pc \in {"next", "pickup"} => Kind = "collect"
  /\ pc = "walk" => Kind \in {"walk", "smart", "fly", "collect", "attack", "place"}
  /\ pc = "pause" => Kind = "smart"

\* The initial state has its types.
LEMMA TypeInit == Init => TypeOK /\ NumbersOK
<1> SUFFICES ASSUME Init PROVE TypeOK /\ NumbersOK
  OBVIOUS
<1>1. envelope \in Nat /\ longest \in Nat
  BY EnvelopeBound DEF Init
<1>2. left \in 0..MaxTargets
  BY LegsAssumption DEF Init
<1>3. fact \in BOOLEAN /\ seen \in BOOLEAN
  BY DEF Init
<1>n. /\ clock = 0 /\ until = 0 /\ stamp \in 0..clock /\ since \in 0..clock
      /\ share = 0 /\ budget = 0 /\ verify = 0 /\ sinceBuild \in Nat
  BY DEF Init, IdleInterval
<1>b. /\ command \in Commands /\ settings \in Settings
      /\ changed = FALSE /\ retried = FALSE /\ pc = "sent" /\ reply = "none"
  BY DEF Init
<1>4. TypeOK
  BY <1>1, <1>2, <1>3, <1>n, <1>b DEF TypeOK
<1> QED BY <1>4 DEF Init, NumbersOK

\* A click has its types, and waits.
LEMMA ClickType ==
  ASSUME TypeOK, UNCHANGED <<command, settings, changed, envelope, longest, clock, retried, share, budget, left>>,
         Click, pc \in {"sent", "walk"}, Kind = "place"
  PROVE  TypeOK' /\ NumbersOK'
<1>1. settings.interval \in Nat
  BY EnvelopeBound DEF TypeOK
<1> QED BY <1>1 DEF TypeOK, NumbersOK, Click, WaitsFor, Kind

\* Every step keeps the types.
LEMMA TypeStep == ASSUME TypeOK, NumbersOK, [Next]_vars PROVE TypeOK' /\ NumbersOK'
<1> USE DEF Kind, planVars, worldVars, cfgVars
<1>s. /\ settings.command \in Nat \ {0} /\ settings.fly \in Nat \ {0}
      /\ settings.interval \in Nat \ {0}
  BY EnvelopeBound DEF TypeOK
<1>t. /\ \A t \in Int : Larger(t - Margin, 0) \in Nat
      /\ Second * settings.command \in Nat /\ Second * settings.fly \in Nat
  BY <1>s DEF Larger, Margin, Second
<1>1. CASE Refuse
  BY <1>1 DEF Refuse, Replies, TypeOK, NumbersOK
<1>2. CASE BeginWalk
  BY <1>2, <1>s, <1>t DEF BeginWalk, Walks, WaitsFor, TypeOK, NumbersOK
<1>3. CASE BeginWait
  BY <1>3 DEF BeginWait, WaitsFor, TypeOK, NumbersOK, FeedbackWait, DropSettle, OpenTimeout
<1>4. CASE BeginCollect
  BY <1>4, <1>s, <1>t, LegsAssumption DEF BeginCollect, TypeOK, NumbersOK
<1>5. CASE BeginAttack
  BY <1>5, <1>s, <1>t DEF BeginAttack, Decide, Replies, Walks, WaitsFor, TypeOK, NumbersOK
<1>6. CASE BeginPlace
  <2>1. CASE Click
    BY <1>6, <2>1, ClickType DEF BeginPlace
  <2>2. CASE ~Click
    BY <1>6, <2>2, <1>s, <1>t DEF BeginPlace, Walks, WaitsFor, TypeOK, NumbersOK
  <2> QED BY <2>1, <2>2
<1>7. CASE NextTarget
  <2>1. CASE left = 0 \/ budget \div left < MinTargetBudget
    BY <1>7, <2>1 DEF NextTarget, Replies, TypeOK, NumbersOK
  <2>2. CASE left # 0 /\ ~(budget \div left < MinTargetBudget)
    <3>1. share' \in Nat
      BY <1>7, <2>2, ShareBound, LegsAssumption DEF NextTarget, TypeOK
    <3>2. WholeSeconds(share') \in Nat
      BY <3>1, WholeBound
    <3> QED BY <1>7, <2>2, <3>1, <3>2, <1>t, LegsAssumption
            DEF NextTarget, Walks, WaitsFor, TypeOK, NumbersOK
  <2> QED BY <2>1, <2>2
<1>8. CASE Retry
  <2>1. WholeSeconds(share) \in Nat
    BY WholeBound DEF TypeOK
  <2> QED BY <1>8, <2>1, <1>t DEF Retry, Walks, WaitsFor, TypeOK, NumbersOK
<1>d. ASSUME TargetDone, pc \in {"walk", "pickup"}, Kind = "collect",
             UNCHANGED <<cfgVars, clock, verify, worldVars, stamp>>
      PROVE  TypeOK' /\ NumbersOK'
  BY <1>d, LegsAssumption DEF TargetDone, TypeOK, NumbersOK, Larger
<1>9. CASE WalkEnds
  <2>1. CASE Kind = "walk"
    BY <1>9, <2>1 DEF WalkEnds, Replies, TypeOK, NumbersOK
  <2>2. CASE Kind = "smart"
    <3>1. RetryWindow \in Nat
      BY <1>s, <1>t DEF RetryWindow, TypeOK, Larger, RetryDelay, Margin
    <3>2. CASE Short /\ ~retried /\ WorthRetry
      <4>1. retried' = TRUE /\ share' = RetryWindow /\ pc' = "pause" /\ until' = clock + RetryDelay
        BY <3>2 DEF Short, WaitsFor
      <4> QED BY <1>9, <2>2, <3>1, <3>2, <4>1
              DEF WalkEnds, Short, WaitsFor, RetryDelay, TypeOK, NumbersOK
    <3>3. CASE ~(Short /\ ~retried /\ WorthRetry)
      BY <1>9, <2>2, <3>3 DEF WalkEnds, Short, Replies, TypeOK, NumbersOK
    <3> QED BY <3>2, <3>3
  <2>3. CASE Kind = "fly"
    BY <1>9, <2>3 DEF WalkEnds, Replies, WaitsFor, FeedbackWait, TypeOK, NumbersOK
  <2>4. CASE Kind = "collect"
    <3>1. CASE TargetDone
      BY <1>9, <2>4, <3>1, <1>d DEF WalkEnds
    <3>2. CASE ~TargetDone
      BY <1>9, <2>4, <3>2 DEF WalkEnds, WaitsFor, PickupPause, TypeOK, NumbersOK
    <3> QED BY <3>1, <3>2
  <2>5. CASE Kind = "attack"
    BY <1>9, <2>5 DEF WalkEnds, Decide, Replies, TypeOK, NumbersOK
  <2>6. CASE Kind = "place"
    BY <1>9, <2>6, ClickType DEF WalkEnds
  <2>7. CASE Kind \in {"drop", "execute", "open"}
    BY <1>9, <2>7 DEF WalkEnds, TypeOK, NumbersOK
  <2> QED BY <2>1, <2>2, <2>3, <2>4, <2>5, <2>6, <2>7 DEF TypeOK, Commands, ActKinds
<1>10. CASE WalkTimesOut
  <2>1. CASE Kind = "place"
    BY <1>10, <2>1, ClickType DEF WalkTimesOut
  <2>2. CASE Kind # "place"
    BY <1>10, <2>2 DEF WalkTimesOut, Decide, Replies, TypeOK, NumbersOK, Commands, ActKinds
  <2> QED BY <2>1, <2>2
<1>11. CASE PickedUp
  BY <1>11, <1>d DEF PickedUp, NumbersOK
<1>12. CASE WaitEnds
  BY <1>12 DEF WaitEnds, Replies, TypeOK, NumbersOK
<1>13. CASE Verified
  BY <1>13 DEF Verified, Replies, TypeOK, NumbersOK
<1>14. CASE Tick
  BY <1>14 DEF Tick, TypeOK, NumbersOK
<1>15. CASE InReach
  BY <1>15 DEF InReach, TypeOK, NumbersOK
<1>16. CASE UpdateSettings
  <2>1. settings' \in Settings /\ Envelope(command, settings') \in Nat
    BY <1>16, EnvelopeBound DEF UpdateSettings, TypeOK
  <2> QED BY <1>16, <2>1 DEF UpdateSettings, TypeOK, NumbersOK, Larger
<1>17. CASE UNCHANGED vars
  BY <1>17 DEF vars, TypeOK, NumbersOK
<1> QED BY <1>1, <1>2, <1>3, <1>4, <1>5, <1>6, <1>7, <1>8, <1>9, <1>10, <1>11, <1>12,
           <1>13, <1>14, <1>15, <1>16, <1>17 DEF Next, Begin, Leg

\* Every state of every behaviour is well-typed.
THEOREM TypeCorrect == Spec => []TypeOK
<1> QED BY TypeInit, TypeStep, PTL DEF Spec

-----------------------------------------------------------------------------
(* Replies in time. *)

\* The longest envelope holds for the settings there are.
Listens == Envelope(command, settings) <= longest /\ Second <= longest

\* Only the verification of a placement has a budget.
VerifyLast == verify # 0 => pc \in {"verify", "replied"} /\ Kind = "place"

\* Every wait ends early enough for what follows it: a collect keeps the
\* shares it has not given out, a retry the window it was promised.
WaitsFit ==
  /\ pc = "walk" => until + Margin <= longest
  /\ pc = "walk" /\ Kind = "collect" =>
       share <= budget /\ until + (budget - share) + 2 * Margin <= longest
  /\ pc = "next" => clock + budget + Margin <= longest
  /\ pc = "pickup" => share <= budget /\ until + (budget - share) + Margin <= longest
  /\ pc = "pause" => share >= 2 * Margin /\ until + share + Margin <= longest
  /\ pc \in {"feedback", "settle"} => until <= longest
  /\ pc = "open" => Kind = "open" /\ until <= OpenTimeout
  /\ pc = "verify" => until + Margin <= longest + verify

\* The clock against the longest envelope since the command was sent.
NotLate ==
  \/ clock <= longest
  \/ clock + Margin <= longest + verify
  \/ Kind = "open" /\ clock <= OpenTimeout

InTimeInv == Listens /\ VerifyLast /\ WaitsFit /\ NotLate

\* Nothing is late before it has begun.
LEMMA InTimeInit == Init => InTimeInv
<1> SUFFICES ASSUME Init PROVE InTimeInv
  OBVIOUS
<1>1. Second * settings.command <= longest /\ settings.command \in Nat \ {0} /\ longest \in Nat
  BY EnvelopeBound DEF Init
<1>2. Listens
  BY <1>1, EnvelopeBound DEF Init, Listens, Second
<1>3. VerifyLast /\ WaitsFit
  BY DEF Init, VerifyLast, WaitsFit
<1>4. NotLate
  BY <1>1 DEF Init, NotLate
<1> QED BY <1>2, <1>3, <1>4 DEF InTimeInv

\* In a well-typed state that fits, the clock itself is in time.
LEMMA ClockInTime ==
  ASSUME TypeOK, NumbersOK, Listens, VerifyLast, WaitsFit, NotLate
  PROVE  /\ pc # "replied" /\ pc # "verify" /\ pc # "open" => clock <= longest
         /\ pc = "verify" => clock + Margin <= longest + verify
  BY DEF TypeOK, NumbersOK, Listens, VerifyLast, WaitsFit, NotLate, Margin, Kind, Second,
         OpenTimeout

\* What is added to a clock is added to its bound.
LEMMA SlackKept ==
  ASSUME NEW a \in Nat, NEW b \in Nat, NEW v \in Nat, a + Margin <= b
  PROVE  (a + v) + Margin <= b + v
  BY DEF Margin

\* A click begins a verification that ends within the margin, or has a budget
\* beyond it.
LEMMA ClickInTime ==
  ASSUME TypeOK, NumbersOK, InTimeInv, Click, Kind = "place", pc \in {"sent", "walk"},
         UNCHANGED <<command, settings, changed, envelope, longest, clock, retried, share, budget, left>>
  PROVE  InTimeInv'
<1>1. clock + Margin <= longest
  BY DEF TypeOK, NumbersOK, InTimeInv, WaitsFit, Listens, Margin, Second
<1>2. pc' = "verify" /\ until' = clock + verify' /\ verify' \in Nat
  BY EnvelopeBound DEF Click, WaitsFor, TypeOK
<1>3. Listens'
  BY DEF InTimeInv, Listens
<1>4. UNCHANGED <<clock, longest>> /\ clock \in Nat /\ longest \in Nat
  BY DEF TypeOK
<1>5. VerifyLast'
  BY <1>2 DEF VerifyLast, Kind
<1>6. WaitsFit'
  <2>1. until' + Margin <= longest' + verify'
    BY <1>1, <1>2, <1>4, SlackKept
  <2> QED BY <1>2, <2>1 DEF WaitsFit
<1>7. NotLate'
  BY <1>1, <1>4 DEF NotLate, Margin
<1> QED BY <1>3, <1>5, <1>6, <1>7 DEF InTimeInv

\* Every step keeps the replies in time.
LEMMA InTimeStep ==
  ASSUME TypeOK, NumbersOK, InTimeInv, [Next]_vars PROVE InTimeInv'
<1> USE DEF Kind, planVars, worldVars, cfgVars
<1>s. /\ settings.command \in Nat \ {0} /\ settings.fly \in Nat \ {0}
      /\ Second * settings.command <= longest
      /\ Kind = "fly" => Second * settings.fly <= longest
  BY EnvelopeBound DEF TypeOK, InTimeInv, Listens, Second
<1>c. /\ pc # "replied" /\ pc # "verify" /\ pc # "open" => clock <= longest
      /\ pc = "verify" => clock + Margin <= longest + verify
  BY ClockInTime DEF InTimeInv
<1>l. UNCHANGED <<command, settings, longest>> => Listens'
  BY DEF InTimeInv, Listens
<1>r. ASSUME pc' = "replied", UNCHANGED <<cfgVars, clock, verify>> PROVE InTimeInv'
  BY <1>r, <1>c, <1>l DEF InTimeInv, VerifyLast, WaitsFit, NotLate, TypeOK, NumbersOK, Margin,
                          OpenTimeout
<1>1. CASE Refuse
  BY <1>1, <1>r DEF Refuse, Replies
<1>2. CASE BeginWalk
  <2>1. until' + Margin <= longest /\ until' \in Nat
    BY <1>2, <1>s DEF BeginWalk, Walks, WaitsFor, NumbersOK, TypeOK, Larger, Margin, Second
  <2> QED BY <1>2, <2>1, <1>c, <1>l DEF BeginWalk, Walks, WaitsFor, NumbersOK, TypeOK,
             InTimeInv, VerifyLast, WaitsFit, NotLate, Margin
<1>3. CASE BeginWait
  BY <1>3, <1>c, <1>l DEF BeginWait, WaitsFor, FeedbackWait, DropSettle, OpenTimeout, NumbersOK,
     TypeOK, InTimeInv, Listens, VerifyLast, WaitsFit, NotLate, Margin, Second
<1>4. CASE BeginCollect
  <2>1. budget' + Margin <= longest /\ budget' \in Nat
    BY <1>4, <1>s DEF BeginCollect, TypeOK, Larger, Margin, Second
  <2> QED BY <1>4, <2>1, <1>c, <1>l DEF BeginCollect, NumbersOK, TypeOK,
             InTimeInv, VerifyLast, WaitsFit, NotLate, Margin
<1>5. CASE BeginAttack
  <2>1. CASE pc' = "replied"
    BY <1>5, <2>1, <1>r DEF BeginAttack
  <2>2. CASE pc' # "replied"
    <3>1. pc' = "walk" /\ until' + Margin <= longest /\ until' \in Nat
      BY <1>5, <2>2, <1>s
         DEF BeginAttack, Decide, Replies, Walks, WaitsFor, NumbersOK, TypeOK, Larger, Margin, Second
    <3> QED BY <1>5, <3>1, <1>c, <1>l DEF BeginAttack, NumbersOK, TypeOK,
               InTimeInv, VerifyLast, WaitsFit, NotLate, Margin
  <2> QED BY <2>1, <2>2
<1>6. CASE BeginPlace
  <2>1. CASE Click
    BY <1>6, <2>1, ClickInTime DEF BeginPlace
  <2>2. CASE ~Click
    <3>1. pc' = "walk" /\ until' + Margin <= longest /\ until' \in Nat
      BY <1>6, <2>2, <1>s DEF BeginPlace, Walks, WaitsFor, NumbersOK, TypeOK, Larger, Margin, Second
    <3> QED BY <1>6, <2>2, <3>1, <1>c, <1>l DEF BeginPlace, NumbersOK, TypeOK,
               InTimeInv, VerifyLast, WaitsFit, NotLate, Margin
  <2> QED BY <2>1, <2>2
<1>7. CASE NextTarget
  <2>1. CASE pc' = "replied"
    BY <1>7, <2>1, <1>r DEF NextTarget
  <2>2. CASE pc' # "replied"
    <3>1. share' = budget \div left /\ share' >= MinTargetBudget /\ left \in Nat \ {0}
      BY <1>7, <2>2, LegsAssumption DEF NextTarget, Replies, TypeOK, MinTargetBudget
    <3>2. share' \in Nat /\ share' <= budget
      BY <3>1, ShareBound DEF TypeOK
    <3>3. WholeSeconds(share') \in Nat /\ WholeSeconds(share') <= share' /\ WholeSeconds(share') >= 40
      BY <3>1, <3>2, WholeBound DEF MinTargetBudget, Second
    <3>4. pc' = "walk" /\ until' = clock + (WholeSeconds(share') - Margin)
      BY <1>7, <2>2, <3>3 DEF NextTarget, Replies, Walks, WaitsFor, Larger, Margin
    <3>5. clock + budget + Margin <= longest
      BY <1>7 DEF NextTarget, InTimeInv, WaitsFit
    <3> QED BY <1>7, <3>2, <3>3, <3>4, <3>5, <1>c, <1>l DEF NextTarget, NumbersOK, TypeOK,
               InTimeInv, VerifyLast, WaitsFit, NotLate, Margin
  <2> QED BY <2>1, <2>2
<1>8. CASE Retry
  <2>1. share >= 2 * Margin /\ clock + share + Margin <= longest
    BY <1>8 DEF Retry, InTimeInv, WaitsFit
  <2>2. WholeSeconds(share) \in Nat /\ WholeSeconds(share) <= share /\ WholeSeconds(share) >= 40
    BY <2>1, WholeBound DEF TypeOK, Margin, Second
  <2>3. pc' = "walk" /\ until' = clock + (WholeSeconds(share) - Margin)
    BY <1>8, <2>2 DEF Retry, Walks, WaitsFor, Larger, Margin
  <2> QED BY <1>8, <2>1, <2>2, <2>3, <1>c, <1>l DEF Retry, NumbersOK, TypeOK,
             InTimeInv, VerifyLast, WaitsFit, NotLate, Margin
<1>d. ASSUME TargetDone, pc \in {"walk", "pickup"}, Kind = "collect",
             UNCHANGED <<cfgVars, clock, verify, worldVars, stamp>>
      PROVE  InTimeInv'
  BY <1>d, <1>c, <1>l DEF TargetDone, NumbersOK, TypeOK, Larger,
     InTimeInv, VerifyLast, WaitsFit, NotLate, Margin
<1>9. CASE WalkEnds
  <2>w. clock + Margin <= longest /\ clock <= until
    BY <1>9 DEF WalkEnds, NumbersOK, TypeOK, InTimeInv, WaitsFit, Margin
  <2>1. CASE pc' = "replied"
    <3>1. UNCHANGED verify
      BY <1>9, <2>1 DEF WalkEnds, Click, WaitsFor, NumbersOK
    <3> QED BY <1>9, <2>1, <3>1, <1>r DEF WalkEnds
  <2>2. CASE Kind = "smart" /\ pc' # "replied"
    <3>1. WorthRetry /\ pc' = "pause" /\ until' = clock + RetryDelay /\ share' = RetryWindow
      BY <1>9, <2>2 DEF WalkEnds, Short, Replies, WaitsFor
    <3>2. share' >= 2 * Margin /\ until' + share' + Margin <= longest /\ share' \in Nat
      BY <3>1, <1>s, <2>w DEF WorthRetry, RetryWindow, RetryDelay, Larger, Margin, Second, TypeOK
    <3> QED BY <1>9, <2>2, <3>1, <3>2, <1>c, <1>l DEF WalkEnds, NumbersOK, TypeOK,
               InTimeInv, VerifyLast, WaitsFit, NotLate
  <2>3. CASE Kind = "fly" /\ pc' # "replied"
    BY <1>9, <2>3, <2>w, <1>c, <1>l DEF WalkEnds, Replies, WaitsFor, FeedbackWait, TypeOK, NumbersOK,
       InTimeInv, VerifyLast, WaitsFit, NotLate, Margin
  <2>4. CASE Kind = "collect" /\ TargetDone
    BY <1>9, <2>4, <1>d DEF WalkEnds
  <2>5. CASE Kind = "collect" /\ ~TargetDone
    <3>1. pc' = "pickup" /\ until' = clock + PickupPause
      BY <1>9, <2>5 DEF WalkEnds, WaitsFor
    <3> QED BY <1>9, <2>5, <2>w, <3>1, <1>c, <1>l DEF WalkEnds, PickupPause, TypeOK, NumbersOK,
               InTimeInv, VerifyLast, WaitsFit, NotLate, Margin
  <2>6. CASE Kind = "place"
    BY <1>9, <2>6, ClickInTime DEF WalkEnds
  <2>7. CASE Kind \in {"walk", "attack"} /\ pc' # "replied"
    BY <1>9, <2>7 DEF WalkEnds, Replies, Decide
  <2> QED BY <1>9, <2>1, <2>2, <2>3, <2>4, <2>5, <2>6, <2>7 DEF WalkEnds, NumbersOK
<1>10. CASE WalkTimesOut
  <2>1. CASE Kind = "place"
    BY <1>10, <2>1, ClickInTime DEF WalkTimesOut
  <2>2. CASE Kind # "place"
    BY <1>10, <2>2, <1>r DEF WalkTimesOut, Decide, Replies, NumbersOK
  <2> QED BY <2>1, <2>2
<1>11. CASE PickedUp
  BY <1>11, <1>d DEF PickedUp, NumbersOK
<1>12. CASE WaitEnds
  BY <1>12, <1>r DEF WaitEnds, Replies
<1>13. CASE Verified
  BY <1>13, <1>r DEF Verified, Replies
<1>14. CASE Tick
  BY <1>14, <1>l DEF Tick, TypeOK, NumbersOK, InTimeInv, VerifyLast, WaitsFit, NotLate, Margin,
     OpenTimeout
<1>15. CASE InReach
  BY <1>15, <1>l DEF InReach, InTimeInv, VerifyLast, WaitsFit, NotLate
<1>16. CASE UpdateSettings
  <2>1. longest' >= longest /\ longest' \in Nat /\ Envelope(command, settings') <= longest'
    BY <1>16, EnvelopeBound DEF UpdateSettings, TypeOK, Larger
  <2>2. Listens'
    BY <1>16, <2>1 DEF UpdateSettings, InTimeInv, Listens, Second, TypeOK
  <2> QED BY <1>16, <2>1, <2>2, <1>c
          DEF UpdateSettings, TypeOK, InTimeInv, VerifyLast, WaitsFit, NotLate, Margin, NumbersOK,
              OpenTimeout
<1>17. CASE UNCHANGED vars
  BY <1>17, <1>l DEF vars, InTimeInv, VerifyLast, WaitsFit, NotLate
<1> QED BY <1>1, <1>2, <1>3, <1>4, <1>5, <1>6, <1>7, <1>8, <1>9, <1>10, <1>11, <1>12,
           <1>13, <1>14, <1>15, <1>16, <1>17 DEF Next, Begin, Leg

\* A timeout that update_settings raises under a handler makes it no later than
\* the longest envelope there was, up to the excesses Latest names.
THEOREM LateByTheRaiseOnly == Spec => [](clock <= Latest(longest))
<1>1. Init => TypeOK /\ NumbersOK /\ InTimeInv
  BY TypeInit, InTimeInit
<1>2. TypeOK /\ NumbersOK /\ InTimeInv /\ [Next]_vars => (TypeOK /\ NumbersOK /\ InTimeInv)'
  BY TypeStep, InTimeStep
<1>3. TypeOK /\ InTimeInv => clock <= Latest(longest)
  <2> SUFFICES ASSUME TypeOK, InTimeInv
               PROVE  clock <= Latest(longest)
    OBVIOUS
  <2>1. Kind = "open" => verify = 0
    BY DEF InTimeInv, VerifyLast
  <2>2. CASE Kind = "open"
    BY <2>1, <2>2 DEF InTimeInv, TypeOK, NotLate, Latest, Larger, Margin, OpenTimeout
  <2>3. CASE Kind # "open"
    BY <2>3 DEF InTimeInv, TypeOK, NotLate, Latest, Larger, Margin
  <2> QED BY <2>2, <2>3
<1> QED BY <1>1, <1>2, <1>3, PTL DEF Spec

\* A handler whose caller was given the longest envelope there was replies while
\* that caller listens, whatever the settings are and become.
THEOREM InTime == Spec => []RepliesInTime
<1>1. clock <= Latest(longest) => RepliesInTime
  BY DEF RepliesInTime
<1> QED BY <1>1, LateByTheRaiseOnly, PTL

-----------------------------------------------------------------------------
(* Meaningful windows. *)

\* However small the budget becomes, no later walk begins without a second.
THEOREM Meaningful == Spec => WalksMeaningful
<1> USE DEF Kind
<1>1. ASSUME TypeOK, NumbersOK, InTimeInv, [Next]_vars,
             pc # "walk", pc' = "walk", retried \/ Kind = "collect"
      PROVE  until' - clock' >= Second
  <2>1. NextTarget \/ Retry
    BY <1>1 DEF Next, Begin, Leg, vars, Refuse, BeginWalk, BeginWait, BeginCollect, BeginAttack,
       BeginPlace, Click, Decide, Replies, WaitsFor, WalkEnds, WalkTimesOut, PickedUp, TargetDone,
       WaitEnds, Verified, Tick, InReach, UpdateSettings, NumbersOK
  <2>2. CASE NextTarget
    <3>1. share' = budget \div left /\ share' >= MinTargetBudget /\ left \in Nat \ {0}
      BY <1>1, <2>2, LegsAssumption DEF NextTarget, Replies, TypeOK, MinTargetBudget
    <3>2. share' \in Nat
      BY <1>1, <3>1, ShareBound DEF TypeOK
    <3>3. WholeSeconds(share') \in Nat /\ WholeSeconds(share') >= 40
      BY <3>1, <3>2, WholeBound DEF MinTargetBudget, Second
    <3>4. until' = clock + (WholeSeconds(share') - Margin) /\ clock' = clock
      BY <1>1, <2>2, <3>3 DEF NextTarget, Replies, Walks, WaitsFor, Larger, Margin
    <3> QED BY <1>1, <3>3, <3>4 DEF TypeOK, Margin, Second
  <2>3. CASE Retry
    <3>1. share >= 2 * Margin
      BY <1>1, <2>3 DEF Retry, InTimeInv, WaitsFit
    <3>2. WholeSeconds(share) \in Nat /\ WholeSeconds(share) >= 40
      BY <1>1, <3>1, WholeBound DEF TypeOK, Margin, Second
    <3>3. until' = clock + (WholeSeconds(share) - Margin) /\ clock' = clock
      BY <2>3, <3>2 DEF Retry, Walks, WaitsFor, Larger, Margin
    <3> QED BY <1>1, <3>2, <3>3 DEF TypeOK, Margin, Second
  <2> QED BY <2>1, <2>2, <2>3
<1>2. TypeOK /\ NumbersOK /\ InTimeInv /\ [Next]_vars =>
        [pc # "walk" /\ pc' = "walk" /\ (retried \/ Kind = "collect")
           => until' - clock' >= Second]_vars
  BY <1>1
<1>3. Init => TypeOK /\ NumbersOK /\ InTimeInv
  BY TypeInit, InTimeInit
<1>4. TypeOK /\ NumbersOK /\ InTimeInv /\ [Next]_vars => (TypeOK /\ NumbersOK /\ InTimeInv)'
  BY TypeStep, InTimeStep
<1> QED BY <1>2, <1>3, <1>4, PTL DEF Spec, WalksMeaningful

-----------------------------------------------------------------------------
(* What the snapshot shows. *)

\* While nobody changes the settings, a fact the snapshot does not show yet is
\* younger than the build the updater is waiting for.
Lag ==
  /\ fact /\ ~seen => clock - since <= sinceBuild
  /\ Kind = "attack" => stamp = 0
  /\ clock > 0 /\ Kind = "attack" => sinceBuild < Cadence(clock - stamp)

\* A verification watches the block from the click on, at a cadence that does
\* not relax before it ends.
Watched ==
  pc = "verify" =>
    /\ verify = settings.interval + 5 /\ until = since + verify
    /\ stamp = since \/ (stamp <= since /\ since - stamp + verify < Window)
    /\ fact /\ ~seen => clock - since < settings.interval

SeenInv == ~changed =>
  /\ Lag
  /\ settings.interval <= Window => Watched /\ (reply = "not_seen" => ~fact)
  /\ reply = "too_far" => Kind = "attack" /\ pc = "replied" /\ ~seen
  /\ reply = "not_seen" => pc = "replied"

\* The snapshot is up to date when the command is sent.
LEMMA SeenInit == Init => SeenInv
<1> SUFFICES ASSUME Init PROVE SeenInv
  OBVIOUS
<1>1. ~(fact /\ ~seen)
  BY DEF Init
<1>2. clock = 0 /\ stamp = 0 /\ pc = "sent" /\ reply = "none"
  BY DEF Init
<1> QED BY <1>1, <1>2 DEF SeenInv, Lag, Watched

\* A step beside the snapshot and the verification keeps what is known of them.
LEMMA QuietSeen ==
  ASSUME TypeOK, SeenInv, ~changed, pc # "replied", pc' # "verify",
         UNCHANGED <<command, settings, clock, verify, fact, since, seen, sinceBuild, stamp>>,
         reply' # "not_seen", reply' = "too_far" => Kind = "attack" /\ pc' = "replied" /\ ~seen
  PROVE  SeenInv'
  BY DEF SeenInv, Lag, Watched, Cadence, Larger, Kind

\* A click begins a verification that is watched from its first tick.
LEMMA ClickSeen ==
  ASSUME TypeOK, SeenInv, ~changed, Click, Kind = "place", pc \in {"sent", "walk"},
         UNCHANGED <<command, settings, clock>>
  PROVE  SeenInv'
<1>1. /\ since' = clock /\ verify' = settings.interval + 5 /\ until' = clock + verify'
      /\ pc' = "verify" /\ reply' = reply /\ sinceBuild' = sinceBuild
      /\ stamp' = clock \/ (stamp' = stamp /\ ~(clock - stamp + verify' >= Window))
  BY DEF Click, WaitsFor, Restamps
<1>2. /\ settings.interval \in Nat \ {0} /\ clock \in Nat /\ stamp \in 0..clock
      /\ sinceBuild \in Nat /\ reply # "not_seen" /\ reply # "too_far"
  BY EnvelopeBound DEF TypeOK, SeenInv
<1>3. clock' - since' = 0
  BY <1>1, <1>2
<1>4. Lag'
  BY <1>1, <1>2, <1>3 DEF Lag, Kind
<1>5. Watched'
  <2>1. /\ verify' = settings'.interval + 5 /\ until' = since' + verify'
        /\ clock' - since' < settings'.interval
    BY <1>1, <1>2, <1>3
  <2>2. stamp' = since' \/ (stamp' <= since' /\ since' - stamp' + verify' < Window)
    BY <1>1, <1>2 DEF Window
  <2> QED BY <2>1, <2>2 DEF Watched
<1> QED BY <1>1, <1>2, <1>4, <1>5 DEF SeenInv

\* A tick builds the snapshot in time.
LEMMA TickSeen ==
  ASSUME TypeOK, NumbersOK, SeenInv, ~changed, Tick, pc = "verify" => Kind = "place"
  PROVE  SeenInv'
<1> USE DEF Kind, planVars, worldVars, cfgVars
<1>1. /\ clock' = clock + 1 /\ clock < until /\ pc' = pc /\ pc # "replied"
      /\ UNCHANGED <<command, settings, until, verify, fact, since, stamp, reply>>
  BY DEF Tick
<1>2. /\ settings.interval \in Nat \ {0} /\ clock \in Nat /\ stamp \in 0..clock
      /\ since \in 0..clock /\ sinceBuild \in Nat
      /\ reply # "not_seen" /\ reply # "too_far"
  BY <1>1, EnvelopeBound DEF TypeOK, SeenInv
<1>3. \/ Due /\ sinceBuild' = 0 /\ seen' = fact
      \/ ~Due /\ sinceBuild' = sinceBuild + 1 /\ seen' = seen
  BY DEF Tick
<1>4. /\ Cadence(clock + 1 - stamp) \in Nat \ {0}
      /\ Cadence(clock - stamp)' = Cadence(clock + 1 - stamp)
  BY <1>1, <1>2 DEF Cadence, Larger, IdleInterval
<1>5. Lag'
  <2>1. CASE Due /\ sinceBuild' = 0 /\ seen' = fact
    <3>1. ~(fact' /\ ~seen')
      BY <1>1, <2>1
    <3> QED BY <1>1, <1>4, <2>1, <3>1 DEF Lag, SeenInv
  <2>2. CASE ~Due /\ sinceBuild' = sinceBuild + 1 /\ seen' = seen
    <3>1. sinceBuild' < Cadence(clock - stamp)'
      BY <1>2, <1>4, <2>2 DEF Due
    <3>2. fact' /\ ~seen' => clock' - since' <= sinceBuild'
      BY <1>1, <1>2, <2>2 DEF Lag, SeenInv
    <3> QED BY <1>1, <3>1, <3>2 DEF Lag, SeenInv
  <2> QED BY <1>3, <2>1, <2>2
<1>6. ASSUME settings.interval <= Window PROVE Watched'
  <2>1. CASE pc # "verify"
    BY <1>1, <2>1 DEF Watched
  <2>2. CASE pc = "verify"
    <3>1. /\ verify = settings.interval + 5 /\ until = since + verify
          /\ stamp = since \/ (stamp <= since /\ since - stamp + verify < Window)
          /\ fact /\ ~seen => clock - since < settings.interval /\ clock - since <= sinceBuild
      BY <1>6, <2>2 DEF SeenInv, Watched, Lag
    <3>2. ASSUME fact', ~seen' PROVE clock' - since' < settings.interval
      <4>0. fact' = fact /\ fact' /\ ~seen'
        BY <1>1, <3>2
      <4>a. ~(seen' = fact)
        BY <4>0
      <4>1. ~Due /\ fact /\ ~seen
        BY <1>3, <4>a, <4>0
      <4>2. ~(clock + 1 - since < settings.interval) => clock + 1 - stamp <= Window
        BY <1>2, <1>6, <3>1, <4>1 DEF Window
      <4>3. ~(clock + 1 - since < settings.interval) => sinceBuild + 1 >= Cadence(clock + 1 - stamp)
        BY <1>2, <3>1, <4>1, <4>2 DEF Cadence
      <4>4. clock + 1 - since < settings.interval
        BY <4>1, <4>3 DEF Due
      <4> QED BY <1>1, <1>2, <4>4
    <3> QED BY <1>1, <2>2, <3>1, <3>2 DEF Watched
  <2> QED BY <2>1, <2>2
<1> QED BY <1>1, <1>2, <1>5, <1>6 DEF SeenInv

\* Every step keeps what is known of the snapshot.
LEMMA SeenStep ==
  ASSUME TypeOK, NumbersOK, SeenInv, pc = "verify" => Kind = "place", [Next]_vars
  PROVE  SeenInv'
<1> SUFFICES ASSUME ~changed' PROVE SeenInv'
  BY DEF SeenInv
<1> USE DEF planVars, worldVars, cfgVars
<1>0. CASE UNCHANGED vars
  BY <1>0 DEF vars, SeenInv, Lag, Watched, Cadence, Kind
<1>1. CASE ~UNCHANGED vars
  <2>0. ~UpdateSettings
    BY DEF UpdateSettings
  <2>a. UNCHANGED <<command, settings, changed>>
    BY <1>1, <2>0 DEF Next, Begin, Leg, Refuse, BeginWalk, BeginWait, BeginCollect,
       BeginAttack, BeginPlace, NextTarget, Retry, WalkEnds, WalkTimesOut, PickedUp, WaitEnds,
       Verified, Tick, InReach
  <2>1. ~changed /\ UNCHANGED <<command, settings>> /\ ~UpdateSettings
    BY <2>0, <2>a
  <2>2. pc # "replied"
    BY <1>1, <2>1 DEF Next, Begin, Leg, Refuse, BeginWalk, BeginWait, BeginCollect,
       BeginAttack, BeginPlace, NextTarget, Retry, WalkEnds, WalkTimesOut, PickedUp, WaitEnds,
       Verified, Tick, InReach
  <2>3. reply # "not_seen" /\ reply # "too_far"
    BY <2>1, <2>2 DEF SeenInv
  <2>4. CASE Click /\ Kind = "place" /\ pc \in {"sent", "walk"} /\ clock' = clock
    BY <2>1, <2>4, ClickSeen
  <2>5. CASE Tick
    BY <2>1, <2>5, TickSeen
  <2>6. CASE InReach
    <3>1. since' = clock /\ pc = "walk" /\ Kind = "attack"
          /\ UNCHANGED <<clock, sinceBuild, seen, stamp, pc, reply>>
      BY <2>6 DEF InReach
    <3>2. clock \in Nat /\ sinceBuild \in Nat
      BY DEF TypeOK
    <3>3. clock' - since' = 0
      BY <3>1, <3>2
    <3>4. Lag'
      BY <2>1, <3>1, <3>2, <3>3 DEF SeenInv, Lag, Cadence, Kind
    <3> QED BY <2>3, <3>1, <3>4 DEF SeenInv, Watched
  <2>7. CASE Verified
    <3>1. /\ pc = "verify" /\ pc' = "replied" /\ (seen \/ clock = until)
          /\ reply' = (IF seen THEN "placed" ELSE "not_seen")
          /\ UNCHANGED <<clock, fact, since, seen, sinceBuild, stamp>>
      BY <2>7 DEF Verified, Replies
    <3>2. ASSUME settings.interval <= Window, ~seen PROVE ~fact
      <4>0. clock = until
        BY <3>1, <3>2
      <4>1. clock = since + (settings.interval + 5)
        BY <2>1, <3>1, <3>2, <4>0 DEF SeenInv, Watched
      <4>2. settings.interval \in Nat /\ since \in Nat /\ clock \in Nat
        BY EnvelopeBound DEF TypeOK
      <4>3. ~(clock - since < settings.interval)
        BY <4>1, <4>2
      <4>4. fact => clock - since < settings.interval
        BY <2>1, <3>1, <3>2 DEF SeenInv, Watched
      <4> QED BY <4>3, <4>4
    <3>3. Lag'
      BY <2>1, <3>1 DEF SeenInv, Lag, Cadence, Kind
    <3>4. settings'.interval <= Window' => Watched' /\ (reply' = "not_seen" => ~fact')
      BY <2>1, <3>1, <3>2 DEF Watched, Window
    <3>5. pc' = "replied" /\ reply' # "too_far"
      BY <3>1
    <3> QED BY <3>3, <3>4, <3>5 DEF SeenInv
  <2>8. CASE Refuse \/ BeginWalk \/ BeginWait \/ BeginCollect \/ BeginAttack \/ NextTarget \/ Retry
             \/ WaitEnds \/ PickedUp
    <3>1. /\ pc' # "verify" /\ reply' # "not_seen"
          /\ reply' = "too_far" => Kind = "attack" /\ pc' = "replied" /\ ~seen
          /\ UNCHANGED <<clock, verify, fact, since, seen, sinceBuild, stamp>>
      BY <2>3, <2>8 DEF Refuse, BeginWalk, BeginWait, BeginCollect, BeginAttack, NextTarget, Retry,
         WaitEnds, PickedUp, TargetDone, Decide, Replies, Walks, WaitsFor
    <3> QED BY <2>1, <2>2, <3>1, QuietSeen
  <2>9. CASE BeginPlace /\ ~Click
    <3>1. /\ pc' = "walk" /\ reply' = reply
          /\ UNCHANGED <<clock, verify, fact, since, seen, sinceBuild, stamp>>
      BY <2>9 DEF BeginPlace, Walks, WaitsFor
    <3> QED BY <2>1, <2>2, <2>3, <3>1, QuietSeen
  <2>10. CASE WalkEnds /\ Kind # "place"
    <3>1. /\ pc' # "verify" /\ reply' # "not_seen"
          /\ reply' = "too_far" => Kind = "attack" /\ pc' = "replied" /\ ~seen
          /\ UNCHANGED <<clock, verify, fact, since, seen, sinceBuild, stamp>>
      BY <2>3, <2>10 DEF WalkEnds, NumbersOK, TargetDone, Decide, Replies, Short, WaitsFor
    <3> QED BY <2>1, <2>2, <3>1, QuietSeen
  <2>11. CASE WalkTimesOut /\ Kind # "place"
    <3>1. /\ pc' # "verify" /\ reply' # "not_seen"
          /\ reply' = "too_far" => Kind = "attack" /\ pc' = "replied" /\ ~seen
          /\ UNCHANGED <<clock, verify, fact, since, seen, sinceBuild, stamp>>
      BY <2>3, <2>11 DEF WalkTimesOut, NumbersOK, Decide, Replies
    <3> QED BY <2>1, <2>2, <3>1, QuietSeen
  <2>12. BeginPlace /\ Click => Kind = "place" /\ pc \in {"sent", "walk"} /\ clock' = clock
    BY DEF BeginPlace
  <2>13. (WalkEnds \/ WalkTimesOut) /\ Kind = "place"
            => Click /\ pc \in {"sent", "walk"} /\ clock' = clock
    BY DEF WalkEnds, WalkTimesOut
  <2> QED BY <1>1, <2>1, <2>4, <2>5, <2>6, <2>7, <2>8, <2>9, <2>10, <2>11, <2>12, <2>13
          DEF Next, Begin, Leg
<1> QED BY <1>0, <1>1

\* Only placements verify.
LEMMA PlaceVerifies ==
  /\ Init => (pc = "verify" => Kind = "place")
  /\ TypeOK /\ NumbersOK /\ (pc = "verify" => Kind = "place") /\ [Next]_vars
       => (pc = "verify" => Kind = "place")'
<1>1. Init => (pc = "verify" => Kind = "place")
  BY DEF Init
<1>2. ASSUME NumbersOK, pc = "verify" => Kind = "place", [Next]_vars
      PROVE  (pc = "verify" => Kind = "place")'
  BY <1>2 DEF Next, Begin, Leg, vars, Refuse, BeginWalk, BeginWait, BeginCollect, BeginAttack,
     BeginPlace, Decide, Replies, Walks, WaitsFor, WalkEnds, WalkTimesOut, PickedUp, TargetDone,
     WaitEnds, Verified, Tick, InReach, UpdateSettings, NumbersOK, NextTarget, Retry, Short, Kind,
     cfgVars
<1> QED BY <1>1, <1>2

\* A reply of too_far or not_seen rests on a snapshot no older than its cadence
\* allows.
LEMMA SeenImplies == ASSUME TypeOK, SeenInv PROVE PlacedIsSeen /\ TooFarIsRecent
<1>1. PlacedIsSeen
  BY DEF SeenInv, PlacedIsSeen
<1>2. ASSUME reply = "too_far", ~changed, fact, clock - since > Cadence(clock - stamp) PROVE FALSE
  <2>1. /\ Kind = "attack" /\ clock - since <= sinceBuild
        /\ clock > 0 => sinceBuild < Cadence(clock - stamp)
    BY <1>2 DEF SeenInv, Lag
  <2>2. /\ Cadence(clock - stamp) \in Nat /\ clock \in Nat /\ since \in 0..clock
        /\ sinceBuild \in Nat
    BY EnvelopeBound DEF TypeOK, Cadence, Larger, IdleInterval
  <2> QED BY <1>2, <2>1, <2>2
<1> QED BY <1>1, <1>2 DEF TooFarIsRecent, InReachFor

\* A placed block is not reported as absent, under any settings whose snapshot
\* interval lies within the activity window.
THEOREM Placed == Spec => []PlacedIsSeen
<1>1. Init => TypeOK /\ NumbersOK /\ SeenInv /\ (pc = "verify" => Kind = "place")
  BY TypeInit, SeenInit, PlaceVerifies
<1>2. TypeOK /\ NumbersOK /\ SeenInv /\ (pc = "verify" => Kind = "place") /\ [Next]_vars
        => (TypeOK /\ NumbersOK /\ SeenInv /\ (pc = "verify" => Kind = "place"))'
  BY TypeStep, SeenStep, PlaceVerifies
<1> QED BY <1>1, <1>2, SeenImplies, PTL DEF Spec

\* An attack refused as too far was in reach for one cadence at most.
THEOREM TooFar == Spec => []TooFarIsRecent
<1>1. Init => TypeOK /\ NumbersOK /\ SeenInv /\ (pc = "verify" => Kind = "place")
  BY TypeInit, SeenInit, PlaceVerifies
<1>2. TypeOK /\ NumbersOK /\ SeenInv /\ (pc = "verify" => Kind = "place") /\ [Next]_vars
        => (TypeOK /\ NumbersOK /\ SeenInv /\ (pc = "verify" => Kind = "place"))'
  BY TypeStep, SeenStep, PlaceVerifies
<1> QED BY <1>1, <1>2, SeenImplies, PTL DEF Spec

\* An approach to attack ends within the activity window of its dispatch.
AttackShort ==
  Kind = "attack" /\ ~changed =>
    /\ pc \in {"sent", "walk", "replied"} /\ stamp = 0
    /\ clock <= Window /\ until <= Window

LEMMA AttackShortStep ==
  ASSUME TypeOK, NumbersOK, AttackShort, [Next]_vars, \A s \in Settings : s.command <= 4
  PROVE  AttackShort'
<1> SUFFICES ASSUME Kind' = "attack", ~changed'
             PROVE  /\ pc' \in {"sent", "walk", "replied"} /\ stamp' = 0
                    /\ clock' <= Window /\ until' <= Window
  BY DEF AttackShort, Window
<1> USE DEF planVars, worldVars, cfgVars, Kind
<1>1. CASE UNCHANGED vars
  BY <1>1 DEF vars, AttackShort
<1>2. CASE Next /\ ~UNCHANGED vars
  <2>1. ~UpdateSettings
    BY DEF UpdateSettings
  <2>2. UNCHANGED <<command, settings, changed>>
    BY <1>2, <2>1 DEF Next, Begin, Leg, Refuse, BeginWalk, BeginWait, BeginCollect,
       BeginAttack, BeginPlace, NextTarget, Retry, WalkEnds, WalkTimesOut, PickedUp, WaitEnds,
       Verified, Tick, InReach
  <2>3. /\ command.kind = "attack" /\ pc \in {"sent", "walk", "replied"} /\ stamp = 0
        /\ clock <= Window /\ until <= Window /\ clock \in Nat /\ until \in Nat
    BY <2>2 DEF AttackShort, TypeOK
  <2>4. CASE Refuse \/ WalkEnds \/ WalkTimesOut \/ InReach
    BY <2>2, <2>3, <2>4 DEF Refuse, WalkEnds, WalkTimesOut, InReach, Decide, Replies
  <2>5. CASE BeginAttack
    <3>1. settings.command \in Nat \ {0} /\ settings.command <= 4
      BY EnvelopeBound DEF TypeOK
    <3>2. Larger(Second * settings.command - Margin, 0) <= Window
      BY <3>1 DEF Larger, Second, Margin, Window
    <3>3. clock = 0
      BY <2>5 DEF BeginAttack, NumbersOK
    <3>4. CASE seen
      BY <2>3, <2>5, <3>4 DEF BeginAttack, Decide, Replies
    <3>5. CASE ~seen
      <4>1. pc' = "walk" /\ until' = clock + Larger(Second * settings.command - Margin, 0)
            /\ UNCHANGED <<clock, stamp>>
        BY <2>5, <3>5 DEF BeginAttack, Walks, WaitsFor
      <4>2. Larger(Second * settings.command - Margin, 0) \in Int
        BY <3>1 DEF Larger, Second, Margin
      <4>3. until' <= Window
        BY <3>2, <3>3, <4>1, <4>2
      <4> QED BY <2>3, <4>1, <4>3
    <3> QED BY <3>4, <3>5
  <2>6. CASE Tick
    <3>1. clock < until /\ clock' = clock + 1 /\ UNCHANGED <<pc, until, stamp>>
      BY <2>6 DEF Tick
    <3> QED BY <2>3, <3>1 DEF Window
  <2>7. ~(BeginWalk \/ BeginWait \/ BeginCollect \/ BeginPlace \/ NextTarget \/ Retry
          \/ PickedUp \/ WaitEnds \/ Verified)
    BY <2>3 DEF BeginWalk, BeginWait, BeginCollect, BeginPlace, NextTarget, Retry, PickedUp,
       WaitEnds, Verified
  <2> QED BY <1>2, <2>1, <2>4, <2>5, <2>6, <2>7 DEF Next, Begin, Leg
<1> QED BY <1>1, <1>2

\* commands.rs promises an attack "the honest TooFar".  It keeps that promise
\* under command timeouts of up to 4 s, whose approach fits the activity
\* window, with snapshot intervals of up to a second.
THEOREM ShortApproachIsHonest ==
  ASSUME \A s \in Settings : s.command <= 4 /\ s.interval <= Second
  PROVE  Spec => []TooFarIsHonest
<1>1. Init => TypeOK /\ NumbersOK /\ SeenInv /\ (pc = "verify" => Kind = "place") /\ AttackShort
  BY TypeInit, SeenInit, PlaceVerifies DEF Init, AttackShort, Window
<1>2. TypeOK /\ NumbersOK /\ SeenInv /\ (pc = "verify" => Kind = "place") /\ AttackShort
        /\ [Next]_vars
        => (TypeOK /\ NumbersOK /\ SeenInv /\ (pc = "verify" => Kind = "place") /\ AttackShort)'
  BY TypeStep, SeenStep, PlaceVerifies, AttackShortStep
<1>3. TypeOK /\ SeenInv /\ AttackShort => TooFarIsHonest
  <2> SUFFICES ASSUME TypeOK, SeenInv, AttackShort, reply = "too_far", ~changed,
                      fact, clock - since > Second
               PROVE  FALSE
    BY DEF TooFarIsHonest, InReachFor
  <2>1. ~InReachFor(Cadence(clock - stamp)) /\ Kind = "attack"
    BY SeenImplies DEF TooFarIsRecent, SeenInv
  <2>2. clock - stamp <= Window
    BY <2>1 DEF AttackShort, TypeOK
  <2>3. Cadence(clock - stamp) = settings.interval /\ settings.interval <= Second
    BY <2>2 DEF Cadence, TypeOK
  <2>4. settings.interval \in Nat /\ clock \in Nat /\ since \in Nat
    BY EnvelopeBound DEF TypeOK
  <2> QED BY <2>1, <2>3, <2>4 DEF InReachFor, Second
<1> QED BY <1>1, <1>2, <1>3, PTL DEF Spec
=============================================================================
