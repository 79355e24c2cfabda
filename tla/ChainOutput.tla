---------------------------- MODULE ChainOutput ----------------------------
(***************************************************************************)
(* What a chain of nodes between a source and a sink promises: the sink    *)
(* counts the chunks one by one, none before it was sent, and the total it *)
(* reports is that of all chunks sent, unless the chain is cancelled.      *)
(***************************************************************************)
EXTENDS Naturals

VARIABLES
    sent,       \* chunks sent by the source
    stopped,    \* has the source left its loop?
    received,   \* chunks counted by the sink
    reported,   \* the total reported last
    canceled

vars == <<sent, stopped, received, reported, canceled>>

Init ==
    /\ sent = 0 /\ received = 0 /\ reported = 0
    /\ stopped = FALSE /\ canceled = FALSE

Send ==
    /\ ~stopped /\ sent' = sent + 1
    /\ UNCHANGED <<stopped, received, reported, canceled>>

Stop ==
    /\ stopped' = TRUE
    /\ UNCHANGED <<sent, received, reported, canceled>>

Receive ==
    /\ received < sent /\ received' = received + 1
    /\ UNCHANGED <<sent, stopped, reported, canceled>>

Report ==
    /\ canceled \/ (stopped /\ received = sent)
    /\ reported' = received
    /\ UNCHANGED <<sent, stopped, received, canceled>>

Cancel ==
    /\ canceled' = TRUE
    /\ UNCHANGED <<sent, stopped, received, reported>>

Next == Send \/ Stop \/ Receive \/ Report \/ Cancel

Spec == Init /\ [][Next]_vars

=============================================================================
