-------------------------- MODULE BroadcastContract --------------------------
(***************************************************************************)
(* What the Broker trait (cherenkov-core broker.rs) promises of one topic: *)
(* a stream yields publications that were published, each at most once,    *)
(* "in the order the broker observes them".  What one broker process or    *)
(* server observes, one line, all streams yield in one order; a broker     *)
(* that lets publications in along several lines orders each by itself.    *)
(* Whether a publication is lost is left to the implementation.            *)
(***************************************************************************)
EXTENDS Integers, Sequences

CONSTANTS
    Subscribers,    \* slots for broker streams
    Publications,   \* publications of the topic
    Line            \* the line along which each comes to the broker

VARIABLES
    published,      \* publications handed to publish
    stream          \* what each open stream has yielded

Before(q, m, n) == \E i, j \in DOMAIN q : i < j /\ q[i] = m /\ q[j] = n

Init ==
    /\ published = {}
    /\ stream = [s \in Subscribers |-> <<>>]

Publish(m) ==
    /\ published' = published \union {m}
    /\ UNCHANGED stream

\* No other open stream has yielded m before something of m's line that s
\* already has.
Yield(s, m) ==
    /\ \A i \in DOMAIN stream[s] :
         /\ stream[s][i] # m
         /\ Line[stream[s][i]] = Line[m] => \A r \in Subscribers : ~Before(stream[r], m, stream[s][i])
    /\ stream' = [stream EXCEPT ![s] = Append(@, m)]
    /\ UNCHANGED published

Reopen(s) ==
    /\ stream' = [stream EXCEPT ![s] = <<>>]
    /\ UNCHANGED published

Next ==
    \/ \E m \in Publications \ published : Publish(m)
    \/ \E s \in Subscribers : Reopen(s) \/ \E m \in published : Yield(s, m)

Spec == Init /\ [][Next]_<<published, stream>>
=============================================================================
