---------------------------- MODULE MCSelector ----------------------------
EXTENDS Selector

Full == [failover |-> TRUE, backup |-> 1, playlist |-> 1, slate |-> TRUE, auto |-> TRUE,
         degraded |-> TRUE]
MCConfigs == {Full, [Full EXCEPT !.backup = 0, !.playlist = 2],
              [Full EXCEPT !.backup = 2, !.playlist = 0, !.slate = FALSE, !.degraded = FALSE],
              [Full EXCEPT !.failover = FALSE, !.auto = FALSE]}
=============================================================================
