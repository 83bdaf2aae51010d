---------------------------- MODULE MCFeishuBot ----------------------------
(* FeishuBot for TLC.                                                         *)
EXTENDS FeishuBot

CONSTANTS e1, e3, pic1, pic2, anon

\* A day of messages on a bad network; one on which tokens expire; one with both.
MCDays ==
    {[events |-> {e1, pic1, pic2}, sends |-> 0, faults |-> 0, expire |-> {7}, clock |-> FALSE],
     [events |-> {e1, anon}, sends |-> 0, faults |-> 2, expire |-> {7}, clock |-> FALSE],
     [events |-> {}, sends |-> 2, faults |-> 1, expire |-> {3, 7}, clock |-> TRUE],
     [events |-> {e3}, sends |-> 1, faults |-> 1, expire |-> {3, 7}, clock |-> TRUE]}
============================================================================
