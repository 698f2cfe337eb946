-------------------------- MODULE RequestLifetimes --------------------------
(***************************************************************************)
(* What a request adapter promises its peer: requests run concurrently, an  *)
(* id names at most one running request, a request that is over never runs  *)
(* again, and once the adapter is closing no request begins and all the     *)
(* running ones come to an end.                                             *)
(***************************************************************************)
EXTENDS Naturals

CONSTANTS Requests, Ids

VARIABLES phase, id, closing

avars == <<phase, id, closing>>

Running(r) == phase[r] = "running"

AInit ==
    /\ phase = [r \in Requests |-> "new"]
    /\ id \in [Requests -> Ids]
    /\ closing = FALSE

Begin(r, i) ==
    /\ ~closing /\ phase[r] = "new"
    /\ \A s \in Requests : Running(s) => id[s] # i
    /\ phase' = [phase EXCEPT ![r] = "running"]
    /\ id' = [id EXCEPT ![r] = i]
    /\ UNCHANGED closing

End(r) ==
    /\ Running(r)
    /\ phase' = [phase EXCEPT ![r] = "over"]
    /\ UNCHANGED <<id, closing>>

Close ==
    /\ ~closing /\ closing' = TRUE
    /\ UNCHANGED <<phase, id>>

ANext ==
    \/ \E r \in Requests, i \in Ids : Begin(r, i)
    \/ \E r \in Requests : End(r)
    \/ Close

ASpec == AInit /\ [][ANext]_avars
AFairSpec == ASpec /\ \A r \in Requests : WF_avars(closing /\ End(r))
=============================================================================
