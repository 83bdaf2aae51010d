----------------------------- MODULE MCAudioIpc -----------------------------
(***************************************************************************)
(* AudioIpc for TLC.  Each cfg file names the days it has.                 *)
(***************************************************************************)
EXTENDS AudioIpc

\* Two conversations with a process that may die, and one in which devices do not
\* open or are lost, acknowledgements come too late and the process may die as well.
TalkAndFaults ==
    {[captures |-> 4, faults |-> {"crash"}],
     [captures |-> 2, faults |-> {"device", "timeout", "crash"}]}
\* A prompt and nothing that goes wrong.
OnePrompt == {[captures |-> 1, faults |-> {}]}
DeviceAndLate == {[captures |-> 2, faults |-> {"device", "timeout"}]}
=============================================================================
