---------------------------- MODULE MCAccessControl ----------------------------
(***************************************************************************)
(* Two users.  The addresses tell apart every way a request is matched: a  *)
(* white-listed command the cutoff names, a command the cutoff lists by    *)
(* its full address and its namesake in another component, a black-listed  *)
(* one and an ordinary one.                                                *)
(***************************************************************************)
EXTENDS AccessControl, TLC

CONSTANTS anna, piotr

MCUsers == {anna, piotr}
MCAddresses == {<<"mount", "park">>, <<"dome", "open">>, <<"cover", "open">>,
                <<"switch", "set">>}
MCWhiteList == {<<"mount", "park">>}
MCBlackList == {<<"switch", "set">>}
MCCutoffList == {<<"park">>, <<"dome", "open">>}

TwoQueries == {"current_user", "is_access"}
AskedTimeouts == {NoTime, 0, 2, 3}
OneTolerance == {1}

UsersAlike == Permutations(MCUsers)
===============================================================================
