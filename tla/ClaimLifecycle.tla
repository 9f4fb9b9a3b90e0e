---------------------------- MODULE ClaimLifecycle ----------------------------
(***************************************************************************)
(* What the Claim event stream promises those who follow it (the erase     *)
(* ledger, the channel revocation store, the readers of claim_event_page). *)
(* The stream only grows.  It activates no generation of a device instance *)
(* that was not issued to it and none twice; a revocation ends the life    *)
(* the instance has at that moment, or one that never began; and the       *)
(* revisions of an instance count its events without a gap.                *)
(***************************************************************************)
EXTENDS Integers, Sequences

VARIABLES
    issued,     \* the pairs of instance and generation a grant was minted for
    stream      \* the Claim events in stream order

Of(k) == {i \in DOMAIN stream : stream[i].key = k}

\* k lives at generation g: its last event activated it
Lives(k, g) ==
    \E i \in Of(k) :
        /\ \A j \in Of(k) : j <= i
        /\ stream[i].type = "activated"
        /\ stream[i].gen = g

Extend(type, k, g) ==
    \E r \in {1} \cup {stream[i].rev + 1 : i \in Of(k)} :
        /\ \A i \in Of(k) : stream[i].rev < r
        /\ stream' = Append(stream, [type |-> type, key |-> k, gen |-> g, rev |-> r])

Init ==
    /\ issued = {}
    /\ stream = <<>>

Issue ==
    /\ issued \subseteq issued'
    /\ UNCHANGED stream

\* A generation issued and never heard of before becomes the life of k
Activate(k, g) ==
    /\ \A i \in Of(k) : stream[i].gen # g
    /\ Extend("activated", k, g)

\* The life of k ends, or ends before it began
Revoke(k, g) ==
    /\ Lives(k, g) \/ Of(k) = {}
    /\ Extend("revoked", k, g)

Next ==
    \/ Issue
    \/ /\ \E r \in issued : Activate(r[1], r[2]) \/ Revoke(r[1], r[2])
       /\ UNCHANGED issued

Spec == Init /\ [][Next]_<<issued, stream>>

==============================================================================
