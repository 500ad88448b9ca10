-------------------------------- MODULE Order --------------------------------
(***************************************************************************)
(* What the topological sorts of the tools promise (topo_sort() of the     *)
(* binder and of the build driver): nodes enter an order one at a time,    *)
(* each after everything it needs; when no node is left whose needs are    *)
(* met, the rest, which is on a cycle or above one, follows in any order.  *)
(***************************************************************************)
EXTENDS Naturals, Sequences, FiniteSets, Functions

CONSTANT Node

VARIABLES nodes,    \* the nodes to order
          needs,    \* what each of them needs
          order,    \* the nodes ordered so far
          sealed    \* only cycles are left

vars == <<nodes, needs, order, sealed>>

Placed == {order[i] : i \in 1 .. Len(order)}
Left == nodes \ Placed
Ready(n) == n \in Left /\ needs[n] \subseteq Placed

Init ==
    /\ nodes \subseteq Node /\ needs \in [Node -> SUBSET Node]
    /\ order = << >> /\ sealed = FALSE

\* The graph is found out before the first node is placed.
Discover ==
    /\ order = << >> /\ ~sealed
    /\ nodes' \subseteq Node /\ needs' \in [Node -> SUBSET Node]
    /\ UNCHANGED <<order, sealed>>

Place(n) ==
    /\ ~sealed /\ Ready(n)
    /\ order' = Append(order, n)
    /\ UNCHANGED <<nodes, needs, sealed>>

\* Some of the nodes that are left, all different.
Arrangements(S) == UNION {Injection(1 .. k, S) : k \in 0 .. Cardinality(S)}
PlaceRest ==
    /\ sealed \/ \A n \in Left : ~Ready(n)
    /\ \E s \in Arrangements(Left) : order' = order \o s
    /\ sealed' = TRUE
    /\ UNCHANGED <<nodes, needs>>

\* The process ends; the next one starts with nothing.
Restart ==
    /\ sealed /\ Left = {}
    /\ order' = << >> /\ sealed' = FALSE
    /\ nodes' \subseteq Node /\ needs' \in [Node -> SUBSET Node]

Next == Discover \/ (\E n \in Node : Place(n)) \/ PlaceRest \/ Restart

Spec == Init /\ [][Next]_vars
=============================================================================
