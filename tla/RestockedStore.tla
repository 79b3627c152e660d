--------------------------- MODULE RestockedStore ---------------------------
(***************************************************************************)
(* What the provisioning mode makes of a mirrored store.  Apart from the   *)
(* writes that clients ask for, which reach the stores as MirroredStore    *)
(* says, only reconciliation touches a store, and only the secondary.  It  *)
(* loads objects that it finds in the primary one by one, while writes go  *)
(* on, so that a shipment need not be what the primary held at any one     *)
(* moment; once it has begun to copy it loads no more, and it copies each  *)
(* find once at most, in the order of the finds.  A shipment may be given  *)
(* up at any time, and the end of the process forgets it with everything   *)
(* else.                                                                   *)
(***************************************************************************)
EXTENDS MirroredStore, Sequences

VARIABLES
    shipment,   \* the finds that may still be copied
    copying     \* the shipment is complete

restockVars == <<vars, shipment, copying>>

Stocked == {primary[k] : k \in DOMAIN primary} \ {Absent}

RestockInit == Init /\ shipment = <<>> /\ copying = FALSE

Mirrored == Next /\ UNCHANGED <<shipment, copying>>

Load(o) ==
    /\ ~ copying
    /\ shipment' = Append(shipment, o)
    /\ UNCHANGED <<vars, copying>>

Depart ==
    /\ copying' = TRUE
    /\ UNCHANGED <<vars, shipment>>

Copy ==
    /\ copying /\ shipment # <<>>
    /\ shipment' = Tail(shipment)
    /\ secondary' \in {secondary, Apply(SecondaryType, secondary,
                            [op |-> "create", old |-> Absent, new |-> Head(shipment)])}
    /\ UNCHANGED <<primary, seen, backlog, copying>>

\* A reconciliation ends, with or without the process, or it is left with
\* nothing to copy.
GiveUp ==
    /\ shipment' = <<>> /\ copying' \in BOOLEAN
    /\ Forget

RestockNext ==
    \/ Mirrored
    \/ \E o \in Stocked : Load(o)
    \/ Depart
    \/ Copy
    \/ GiveUp

RestockSpec == RestockInit /\ [][RestockNext]_restockVars
=============================================================================
