---------------------------- MODULE MCMessageBus ----------------------------
(***************************************************************************)
(* Small instances of MessageBus for TLC.                                  *)
(***************************************************************************)
EXTENDS MessageBus, TLC

CONSTANTS cli, cron, voice, agent

\* Producers differ in what they do with a refused message and in how they are
\* stopped, so the set is not symmetric.
McProducers == {cli, cron, voice}
McPair == {cli, voice}
McConsumers == {agent}
==============================================================================
