----------------------------- MODULE MCSettings -----------------------------
(* Settings for TLC.                                                          *)
EXTENDS Settings

CONSTANTS home, cafe

\* Wi-Fi applied twice while the program boots, the first time with a wrong password;
\* both pages at once; two servers; and the same with things going wrong.
MCDays ==
    {[known |-> TRUE, wifi |-> <<<<cafe, home>>, <<cafe, cafe>>>>, server |-> 0, faults |-> {}],
     [known |-> FALSE, wifi |-> <<<<cafe, cafe>>>>, server |-> 1, faults |-> {}],
     [known |-> TRUE, wifi |-> <<>>, server |-> 2, faults |-> {"thread"}],
     [known |-> TRUE, wifi |-> <<>>, server |-> 2, faults |-> {"slow"}],
     [known |-> TRUE, wifi |-> <<<<cafe, cafe>>>>, server |-> 0, faults |-> {"lost", "thread"}],
     [known |-> FALSE, wifi |-> <<<<cafe, cafe>>>>, server |-> 0, faults |-> {"save"}],
     [known |-> FALSE, wifi |-> <<>>, server |-> 1, faults |-> {"save"}],
     [known |-> TRUE, wifi |-> <<<<cafe, cafe>>>>, server |-> 0, faults |-> {"wifi"}],
     [known |-> TRUE, wifi |-> <<<<cafe, cafe>>>>, server |-> 0, faults |-> {"post"}],
     [known |-> TRUE, wifi |-> <<>>, server |-> 2, faults |-> {"post"}]}
=============================================================================
