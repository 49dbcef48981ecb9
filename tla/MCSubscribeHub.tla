--------------------------- MODULE MCSubscribeHub ---------------------------
(***************************************************************************)
(* SubscribeHub on small instances: subscribes that replace one another, a *)
(* chain with a keyframe, two workspaces on one socket.                    *)
(***************************************************************************)
EXTENDS SubscribeHub

CONSTANTS t1, t2

SmallSizes ==
    {[tags |-> {t1}, lookups |-> {1, 2, 3}, revs |-> 1],
     [tags |-> {t1}, lookups |-> {1, 2}, revs |-> 2],
     [tags |-> {t1, t2}, lookups |-> {1, 2}, revs |-> 1]}

=============================================================================
