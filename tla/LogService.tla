------------------------------ MODULE LogService ------------------------------
(***************************************************************************)
(* What the logger promises its callers, whatever happens inside: a        *)
(* message is accepted or dropped, at most once and in the order its       *)
(* producer logged it, and the accepted messages are printed unchanged,    *)
(* exactly once each, in the order they were accepted.                     *)
(***************************************************************************)
EXTENDS Integers, Sequences

CONSTANTS Producer, Logs

VARIABLES
    sent,       \* calls of each producer that are accepted or dropped
    pending,    \* accepted and not printed
    dropped,    \* how many were dropped
    output      \* what was printed

Init ==
    /\ sent = [t \in Producer |-> 0]
    /\ pending = <<>>
    /\ dropped = 0
    /\ output = <<>>

\* Sent(t) is the part of a call that Accept and Drop share.
Sent(t) ==
    /\ sent[t] < Logs
    /\ sent' = [sent EXCEPT ![t] = @ + 1]
    /\ UNCHANGED output

Accept(t) ==
    /\ Sent(t)
    /\ pending' = Append(pending, <<t, sent[t] + 1>>)
    /\ UNCHANGED dropped

Drop(t) ==
    /\ Sent(t)
    /\ dropped' = dropped + 1
    /\ UNCHANGED pending

Write ==
    /\ pending # <<>>
    /\ output' = Append(output, Head(pending))
    /\ pending' = Tail(pending)
    /\ UNCHANGED <<sent, dropped>>

Next == Write \/ \E t \in Producer : Accept(t) \/ Drop(t)

Spec == Init /\ [][Next]_<<sent, pending, dropped, output>>
=============================================================================
