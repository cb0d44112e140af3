---------------------------- MODULE MCDurability ----------------------------
(* Durability for TLC. *)
EXTENDS Durability

\* One request or two, with or without the timer, failing syncs, deaths, stores
\* into voids and shutdowns.
DMix(who, tick, faults, deaths, void, stops) ==
    [who |-> who, timer |-> tick, faults |-> faults, deaths |-> deaths, void |-> void, stops |-> stops]
OneRequest == {CHOOSE r \in Requests : TRUE}
MCDMixes ==
    {DMix(OneRequest, TRUE, 2, 2, TRUE, 0), DMix(OneRequest, TRUE, 1, 1, FALSE, 1), DMix(Requests, FALSE, 1, 0, FALSE, 1),
     DMix(Requests, TRUE, 1, 0, FALSE, 0), DMix(Requests, FALSE, 1, 2, FALSE, 0)}
=============================================================================
