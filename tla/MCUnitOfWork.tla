---------------------------- MODULE MCUnitOfWork ----------------------------
(* Three objects in memory, two of them of one aggregate; one event class   *)
(* with two subscriptions and one with none.                                *)
EXTENDS UnitOfWork, TLC

CONSTANTS a1, a2, b, i1, i2, c1, c2, h1, h2

MCIdOf == a1 :> i1 @@ a2 :> i1 @@ b :> i2
MCSubscriptions == <<<<h1, c1>>, <<h2, c1>>>>
=============================================================================
