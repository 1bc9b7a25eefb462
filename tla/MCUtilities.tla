---------------------------- MODULE MCUtilities ----------------------------
(***************************************************************************)
(* An instance of the utilities for model checking.  A list, a map and the *)
(* condition table share nothing; they are taken one at a time.            *)
(***************************************************************************)
EXTENDS Containers, NetworkConditionTable

UtilitiesInit == ContainersInit /\ TableInit

Untouched(call) == call.call = "new"

OneAtATime ==
    \/ /\ ListNext
       /\ Untouched(mapCall) /\ values = {}
       /\ UNCHANGED <<map, mapCall, conditions>>
    \/ /\ MapNext
       /\ Untouched(listCall) /\ values = {}
       /\ UNCHANGED <<list, listCall, conditions>>
    \/ /\ TableNext
       /\ Untouched(listCall) /\ Untouched(mapCall)
       /\ UNCHANGED containers

UtilitiesSpec == UtilitiesInit /\ [][OneAtATime]_<<containers, conditions>>
=============================================================================
