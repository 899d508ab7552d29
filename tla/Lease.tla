--------------------------------- MODULE Lease --------------------------------
(***************************************************************************)
(* What the pool of finders promises: a logged-in account is lent to one   *)
(* caller at a time, and comes back before it is lent again.               *)
(***************************************************************************)
CONSTANTS Caller, Finder, Nobody

VARIABLE holder   \* holder[f]: the caller f is lent to

Init == holder = [f \in Finder |-> Nobody]

Lend(c, f) == /\ holder[f] = Nobody
              /\ holder' = [holder EXCEPT ![f] = c]

Return(c, f) == /\ holder[f] = c
                /\ holder' = [holder EXCEPT ![f] = Nobody]

Next == \E c \in Caller, f \in Finder : Lend(c, f) \/ Return(c, f)

Spec == Init /\ [][Next]_holder
===============================================================================
