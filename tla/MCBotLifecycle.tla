--------------------------- MODULE MCBotLifecycle ---------------------------
(* Small instances of BotLifecycle: how often each kind of event happens. *)
EXTENDS BotLifecycle, TLC

\* c connects, d disconnects, u updates, s server drops, f failed threads and
\* r failed runtimes, but at most n events in all.
Bound(c, d, u, s, f, r, n) ==
  [connect |-> c, disconnect |-> d, update |-> u, drop |-> s, thread |-> f,
   runtime |-> r, all |-> n]

Windowed(b) == FALSE :> b
GuiBudget == Windowed(Bound(2, 2, 0, 2, 1, 1, 5))
HeadlessBudget == TRUE :> Bound(1, 0, 1, 1, 1, 0, 2)
BothBudget == GuiBudget @@ HeadlessBudget
DoubleBudget == Windowed(Bound(3, 1, 0, 1, 0, 0, 5))
=============================================================================
