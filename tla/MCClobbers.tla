----------------------------- MODULE MCClobbers -----------------------------
(* Call graphs for the clobber computation. *)
EXTENDS Clobbers

Only(f, S) == [g \in Fn |-> IF g = f THEN S ELSE {}]

\* A chain of three calls to a function that calls itself.
Recursive ==
    {[own |-> Only(3, {"BX"}),
      calls |-> [f \in Fn |-> IF f = NF THEN {NF} ELSE {f + 1}],
      tails |-> [f \in Fn |-> {}],
      preserves |-> [c \in Fn \cup Ext |-> {}], ds |-> {}]}

\* A call of a function that tail-calls another.
TailCalls ==
    {[own |-> Only(3, {"BX"}),
      calls |-> Only(1, {2}), tails |-> Only(2, {3}),
      preserves |-> [c \in Fn \cup Ext |-> {}], ds |-> {}]}

Unsafe == TailCalls \cup Recursive
=============================================================================
