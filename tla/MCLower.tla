------------------------------- MODULE MCLower -------------------------------
EXTENDS Lower

St(k, v, e) == [k |-> k, v |-> v, e |-> e]
Atom(f, neg) == [f |-> f, neg |-> neg]
Check(k, op, neg, l, r) ==
    [k |-> k, v |-> None, e |-> None,
     c |-> [op |-> op, neg |-> neg, l |-> l, r |-> r]]
CF == Atom("CF", FALSE)
OF == Atom("OF", FALSE)

\* Bodies made of loops, conditionals and jumps.
ControlStmts ==
    {St(k, None, None) : k \in {"if", "else", "while", "for", "break", "continue",
                                "return", "goto", "label", "asm"}}
    \cup {St("use", "CX", "call")}

\* Bodies made of declarations, assignments and calls: words, far pointers.
WordStmts ==
    {St("decl", "x", e) : e \in {None, "lit"}}
    \cup {St("set", v, e) : v \in {"x", "g"}, e \in {"lit", "expr"}}
    \cup {St("mset", "x", "g"), St("use", "x", "call"), St("use", "g", "call"),
          St("use", "x", "ncall"), St("addr", "x", None), St("addr", "g", None),
          St("return", "x", None), St("if", None, None)}

FarStmts ==
    {St("decl", "p", e) : e \in {None, "far"}}
    \cup {St("set", v, "far") : v \in {"p", "h"}}
    \cup {St("use", v, e) : v \in {"p", "h"}, e \in {"call", "icall"}}
    \cup {St("use", "p", "later"), St("decl", "x", "expr"), St("mset", "x", "p"),
          St("use", "x", "call"), St("addr", "p", None),
          St("tail", "p", "call"), St("tail", "p", "ncall"), St("if", None, None)}

\* Bodies made of flag checks.
FlagStmts ==
    {Check("case", op, FALSE, CF, OF) : op \in {"flag", "or", "and", "xor"}}
    \cup {Check("case", "flag", FALSE, Atom("CF", TRUE), OF),
          Check("case", "or", TRUE, CF, OF),
          Check("case", "and", FALSE, Atom("CF", TRUE), OF),
          Check("trap", "flag", FALSE, OF, OF),
          St("decl", "x", "lit"), St("set", "x", "expr"), St("set", "x", "lit"),
          St("setflag", "CF", None), St("toggle", "CF", None),
          St("addr", "x", None), St("use", "x", "call"), St("asm", None, None),
          St("mset", "x", "g")}

Control == {ControlStmts}
AllFamilies == {ControlStmts, WordStmts, FarStmts, FlagStmts}
=============================================================================
