------------------------------- MODULE MCAgent -------------------------------
(***************************************************************************)
(* The instance of Agent that TLC checks.                                  *)
(***************************************************************************)
EXTENDS Agent

\* What a behaviour sees: the making of the agent; two connections; overlapping
\* round trips; the health monitor, whose count a second connection resets (the
\* authentication that Start begins may be served on either); pings; Stop, and
\* what the periodic tasks still do then.
Seen(conns, challenges, rounds) ==
  [mint |-> FALSE, monitor |-> FALSE, ping |-> FALSE, stop |-> FALSE,
   conns |-> conns, challenges |-> 1..challenges, rounds |-> rounds]
MCScenarios ==
  {[Seen(0, 1, 1) EXCEPT !.mint = TRUE],
   Seen(2, 1, 1),
   Seen(1, 2, 2),
   [Seen(2, 1, 0) EXCEPT !.monitor = TRUE],
   [Seen(1, 1, 1) EXCEPT !.ping = TRUE],
   [Seen(1, 1, 1) EXCEPT !.stop = TRUE],
   [Seen(2, 1, 0) EXCEPT !.stop = TRUE],
   [Seen(2, 0, 1) EXCEPT !.stop = TRUE]}
=============================================================================
