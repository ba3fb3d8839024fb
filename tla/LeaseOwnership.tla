---------------------------- MODULE LeaseOwnership ----------------------------
(***************************************************************************)
(* What a table of leases promises its users, with no clock and no rows:   *)
(* at any time a resource is in force for at most one acquisition, and it  *)
(* reaches another acquisition only after it was in force for none.        *)
(* ResourceLease implements this specification.                            *)
(***************************************************************************)
CONSTANTS Resource,  \* what can be leased
          Token,     \* one token per acquisition
          NoToken    \* no acquisition is in force

VARIABLE inForce     \* inForce[r]: the acquisition in force for r, or NoToken

Init == inForce = [r \in Resource |-> NoToken]

\* A free resource comes into force for one acquisition.
Grant(r) == /\ inForce[r] = NoToken
            /\ \E k \in Token : inForce' = [inForce EXCEPT ![r] = k]

\* Any set of acquisitions ends at once: releases one at a time, and the passing
\* of time all those whose term is over.
Lapse == /\ inForce' \in [Resource -> Token \cup {NoToken}]
         /\ \A r \in Resource : inForce'[r] \in {inForce[r], NoToken}

Next == Lapse \/ \E r \in Resource : Grant(r)

Spec == Init /\ [][Next]_inForce
=============================================================================
