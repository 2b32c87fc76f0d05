-------------------------- MODULE EventPipelineMC --------------------------
(* A small instance of EventPipeline for TLC.                              *)
EXTENDS EventPipeline

\* One replica of fraud detection and both of the notification service, which
\* meet in the inbox; a partition for each loop that consumes transfers.
TwoReplicas == {{<<"fraud", 1>>},
                {<<"notify_tx", 2>>, <<"notify_alert", 1>>},
                {<<"notify_tx", 3>>}}
=============================================================================
