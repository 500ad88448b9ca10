------------------------------ MODULE MCBuild ------------------------------
(* Use graphs and circumstances for the build driver. *)
EXTENDS Build

\* A tree, a diamond listed in either order, and cycles with and without the
\* root.
Graph(a, b, c) == [m \in Mod |-> CASE m = "a" -> a [] m = "b" -> b [] m = "c" -> c]
SomeGraphs ==
    {Graph(<<"b", "c">>, << >>, << >>), Graph(<<"b", "c">>, <<"c">>, << >>),
     Graph(<<"b", "c">>, << >>, <<"b">>), Graph(<<"b">>, <<"c">>, <<"b">>),
     Graph(<<"b">>, <<"a", "c">>, << >>)}

Chain == [a |-> <<"b">>, b |-> <<"c">>, c |-> << >>]
Diamond == [a |-> <<"b", "c">>, b |-> <<"c">>, c |-> << >>]

\* Builds and an edit that may share a second, with and without -f.
Quick ==
    {[uses |-> g, slow |-> FALSE, bad |-> TRUE, forced |-> BOOLEAN,
      edits |-> 1, clock |-> 3] : g \in SomeGraphs}

\* Repeated plain builds after up to two edits, seconds apart.
Patient ==
    {[uses |-> Diamond, slow |-> TRUE, bad |-> TRUE, forced |-> {FALSE},
      edits |-> 2, clock |-> 100]}

QuickAndPatient == Quick \cup Patient

=============================================================================
