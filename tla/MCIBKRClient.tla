---------------------------- MODULE MCIBKRClient ----------------------------
(* The client with an arbitrary caller, bounded in the number of calls. *)
EXTENDS IBKRClient

CONSTANTS MaxCalls   \* calls of place_order per tag

VARIABLE calls       \* how many were made, to bound the run

MCInit == ClientInit /\ calls = [t \in Tags |-> 0]

MCCall(o) ==
    /\ calls[o.tag] < MaxCalls
    /\ PlaceOrder(o)
    /\ calls' = [calls EXCEPT ![o.tag] = @ + 1]

MCNext ==
    \/ \E o \in Orders : MCCall(o)
    \/ /\ \/ Authenticate \/ Poll \/ Return \/ Abandon \/ Disconnect \/ Broker
       /\ UNCHANGED calls

MCSpec == MCInit /\ [][MCNext]_<<clientVars, calls>> /\ WF_clientVars(Poll)
=============================================================================
