--------------------------- MODULE MembershipView ---------------------------
(***************************************************************************)
(* What a ServerSet promises its owner: a view of the members that follows *)
(* a stream of snapshots of the path's children, one snapshot at a time    *)
(* and in order.  A member leaves the view only when a snapshot lacks it   *)
(* or when the path is gone, and is announced again only after it left.    *)
(***************************************************************************)
EXTENDS Sequences

CONSTANTS Nodes, Endpoints, Absent

VARIABLES
  snapshots,  \* sets of children observed and not yet reflected in the view
  view        \* the endpoint of each member, Absent for the others

viewVars == <<snapshots, view>>

InView == {n \in Nodes : view[n] # Absent}

Init == snapshots = << >> /\ view = [n \in Nodes |-> Absent]

Observe == /\ \E s \in SUBSET Nodes : snapshots' = Append(snapshots, s)
           /\ UNCHANGED view

\* Members the snapshot lacks leave, members it has stay as they are, and some
\* of the nodes it adds join: a node may be gone again when it is read.
Reflect == /\ snapshots # << >>
           /\ view' \in [Nodes -> Endpoints \cup {Absent}]
           /\ \A n \in Nodes : n \notin Head(snapshots) => view'[n] = Absent
           /\ \A n \in InView \cap Head(snapshots) : view'[n] = view[n]
           /\ snapshots' = Tail(snapshots)

PathLost == view' = [n \in Nodes |-> Absent] /\ UNCHANGED snapshots

Next == Observe \/ Reflect \/ PathLost

Spec == Init /\ [][Next]_viewVars
=============================================================================
