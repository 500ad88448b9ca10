----------------------------- MODULE MCFrame --------------------------------
(***************************************************************************)
(* Calls, entries and exits for the binder's move insertion: arguments     *)
(* that form cycles, results over registers, halves, frame and stack, six  *)
(* and more live registers, indirect calls, and functions that pass their  *)
(* parameters on as results or as arguments of a tail call.                *)
(***************************************************************************)
EXTENDS Frame
Arg(s, d) == [src |-> s, dst |-> d]
Res(e, a) == [exp |-> e, act |-> a]
Site(op, args, rets, live, pres, frame, fl, tgt) ==
    [op |-> op, args |-> args, rets |-> rets, live |-> live,
     preserves |-> pres, frame |-> frame, flags |-> fl, tgt |-> tgt]
Segs == {"CS", "DS", "SS"}

SeqsUpTo(S, n) == UNION {[1 .. k -> S] : k \in 0 .. n}

\* Results: two over registers, halves and stack, live registers around.
Pairs(S) == {r \in S : Len(r) < 2 \/
    (r[1].act # r[2].act /\ (r[1].exp = STACK \/ ~pregs_alias(r[1].exp, r[2].exp)))}
RetSeqs ==
    Pairs(SeqsUpTo({Res(e, a) : e \in {"AX", "DX", STACK},
                                a \in {"AX", "BX", "DX", "word_m"}}, 2)
          \cup SeqsUpTo({Res(e, a) : e \in {"AL", "DL"}, a \in {"AL", "AH", "CL", "byte_m"}}, 2)
          \cup {<<Res("AX", "AX"), Res("BX", "ES")>>}
          \cup {<<Res(STACK, a)>> : a \in {"AL", "AH", "CL", "byte_m"}})
Lives == {<< >>, <<"BX", "AX">>, <<"AH", "CX">>, <<"DX", "SI">>, <<"BP">>, <<"ES">>}
Preserving == {{}, {"BP", "AX"}, {"BP", "SI", "CX", "ES"}}
ArgSeqs == {<< >>, <<Arg("CX", STACK), Arg("word_m", STACK), Arg("SI", "DX")>>,
            <<Arg("CX", "BP")>>}
Good(S) == {s \in S : Allocated(s) /\ StackIsDirect(s)}
ResultSites ==
    Good({Site("call", a, r, l, p \cup Segs, f, fl, << >>) :
        a \in ArgSeqs, r \in RetSeqs, l \in Lives, p \in Preserving,
        f \in BOOLEAN, fl \in BOOLEAN})

SixLive == {<<"AX", "CX", "DX", "SI", "DI", "BX">>, <<"CH", "CL", "AH", "DX", "BX", "SI", "ES", "DI">>}
PushaSites ==
    Good({Site("call", a, r, l, p \cup Segs, f, FALSE, << >>) :
        a \in {<< >>, <<Arg("DI", "BP")>>}, r \in {<< >>} \cup {<<Res(e[1], e[2])>> :
              e \in {<<"AX", "BX">>, <<"AX", "DI">>, <<"AL", "AL">>, <<"AX", "word_m">>, <<"DX", "ES">>}},
        l \in SixLive, p \in {{}, {"BP"}}, f \in BOOLEAN})

IndirectSites ==
    Good({Site(o[1], a, r, l, p \cup Segs, f, fl, o[2]) :
        o \in {<<"ncall", <<"SI">>>>, <<"ncall", <<"word_m">>>>, <<"icall", <<"BX", "ES">>>>,
               <<"icall", <<"AX", "ES">>>>},
        a \in {<< >>, <<Arg("AX", "BX")>>, <<Arg("CX", "SI"), Arg("SI", "CX")>>, <<Arg("CX", "BP")>>},
        r \in {<< >>, <<Res("AX", "AX")>>, <<Res("BX", "CX")>>, <<Res("AX", "word_m")>>},
        l \in {<< >>, <<"SI">>, <<"CX", "DX">>}, p \in Preserving, f \in BOOLEAN, fl \in BOOLEAN})

\* Arguments alone: any two, and any three over fewer registers.
Dsts == {"AX", "CX", "SI", "BP", "AL", "AH", "CL", "CH", "ES"}
Srcs == {"AX", "CX", "SI", "BP", "AL", "AH", "CH", "word_m", "byte_m"} \cup Remats
ArgsOver(S, D) ==
    {Arg(s, d) : s \in S, d \in D} \
        {Arg(s, "ES") : s \in ByteRegs \cup SpilledBytes \cup Remats}
Passing(as, fs) ==
    Good({Site("call", a, << >>, << >>, Segs, f, FALSE, << >>) : a \in as, f \in fs})
TwoArgs   == Passing([1 .. 2 -> ArgsOver(Srcs, Dsts)], BOOLEAN)
ThreeArgs ==
    Passing([1 .. 3 -> ArgsOver({"AX", "CX", "SI", "AH", "word_m"},
                                {"AX", "CX", "BP", "AL", "CH"})], {TRUE})

\* All ways to permute the contents of four registers.
Orders(s)   == {p \in [DOMAIN s -> ToSet(s)] : IsInjective(p)}
FourArgs ==
    Good({Site("call", [k \in DOMAIN s |-> Arg(s[k], p[k])], << >>, << >>, Segs,
               FALSE, FALSE, << >>) :
            s \in {<<"AX", "CX", "SI", "BP">>, <<"AL", "CL", "DX", "SI">>,
                   <<"AH", "CH", "CL", "BP">>},
            p \in UNION {Orders(t) : t \in {<<"AX", "CX", "SI", "BP">>,
                   <<"AL", "CL", "DX", "SI">>, <<"AH", "CH", "CL", "BP">>}}})

MCSites == {ResultSites, PushaSites, IndirectSites, TwoArgs, ThreeArgs, FourArgs}

-----------------------------------------------------------------------------
Param(e, a) == [exp |-> e, act |-> a]
Out(p, d) == [p |-> p, dst |-> d]
Fn(frame, saves, ds, params, exit, out, tgt) ==
    [frame |-> frame, isr |-> FALSE, used |-> {}, saves |-> saves, ds |-> ds,
     params |-> params, exit |-> exit, out |-> out, tgt |-> tgt]

\* Whether a place and a location have the same size.
SameSize(e, a) == (e \in ByteRegs) = IsByte(a)

Params2 ==
    LET P == {q \in {Param(e, a) : e \in {"AX", "BX", "BP", "AL", "DL"},
                        a \in {"AX", "SI", "AL", "AH", "word_m", "byte_m"}} :
                SameSize(q.exp, q.act)}
             \cup {Param("AX", "ES"), Param(STACK, "slot1")}
    IN  {s \in SeqsUpTo(P, 2) : Len(s) = 2 =>
            /\ s[1].act # s[2].act /\ ~pregs_alias(s[1].act, s[2].act)
            /\ ~pregs_alias(s[1].exp, s[2].exp)}
Outs2 ==
    {s \in SeqsUpTo({Out(p, d) : p \in {1, 2},
                       d \in {"AX", "SI", "BP", "AL", "DL", STACK}}, 2) :
        Len(s) = 2 => s[1].dst = STACK \/ ~pregs_alias(s[1].dst, s[2].dst)}
FeasibleFns(S) ==
    {f \in S :
        /\ \A k \in DOMAIN f.out :
              /\ f.out[k].p \in DOMAIN f.params
              /\ f.out[k].dst = STACK
                 \/ SameSize(f.out[k].dst, f.params[f.out[k].p].act)
        /\ (Locs(f) \cap Spilled # {} \/ STACK \in Outs(f)) => f.frame
        /\ f.frame => "BP" \notin Locs(f)
        /\ f.tgt # 0 => ~IsByte(f.params[f.tgt].act) /\ STACK \notin Outs(f)}
ExitFns ==
    FeasibleFns({Fn(f[1], f[2], FALSE, ps, x[1], o, x[2]) :
        ps \in Params2 \ {<< >>}, o \in Outs2,
        f \in {<<FALSE, << >>>>, <<TRUE, <<"SI", "BX", "DI">>>>},
        x \in {<<"ret", 0>>, <<"tail", 0>>, <<"ntail", 1>>}})
SaveFns ==
    FeasibleFns({Fn(f, s, d, p, "ret", << >>, 0) :
        p \in {<< >>, <<Param("DS", "ES")>>, <<Param("ES", "CX")>>}, f \in BOOLEAN, d \in BOOLEAN, s \in {<< >>, <<"DS">>, <<"SI", "DS", "ES">>, <<"BX", "BP">>}})
DataSegments ==
    FeasibleFns({Fn(f, s, d, <<Param("ES", a)>>, x, <<Out(1, "DS")>>, 0) :
        f \in BOOLEAN, s \in {<< >>, <<"SI", "DS">>}, d \in BOOLEAN, a \in {"ES", "DS"},
        x \in {"ret", "tail"}})
Rotations ==
    FeasibleFns({Fn(TRUE, s, TRUE, <<Param("AX", "AX"), Param("BX", "BX"), Param("DX", "DX")>>,
                    x[1], <<Out(1, o[1]), Out(2, o[2]), Out(3, o[3])>>, x[2]) :
        s \in {<<"DI">>, <<"DI", "SI", "BX">>},
        x \in {<<"ret", 0>>, <<"ntail", 2>>},
        o \in Orders(<<"AX", "DX", "CX">>) \cup Orders(<<"AX", "BX", "DX">>)})
Handlers ==
    {[frame |-> f, isr |-> TRUE, used |-> u, saves |-> s, ds |-> d,
      params |-> << >>, exit |-> "ret", out |-> << >>, tgt |-> 0] :
        f \in BOOLEAN, d \in BOOLEAN,
        s \in {<< >>, <<"AX", "SI">>, <<"BP", "ES", "DS">>},
        u \in {{}, {"AX", "SI"}, {"AX", "BX", "CX", "DX", "SI", "DI"}}}
MCStackSlot == <<"slot1", "slot2">>
MCFns == {ExitFns, SaveFns, DataSegments, Rotations, Handlers}
=============================================================================
