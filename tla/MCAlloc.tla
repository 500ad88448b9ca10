------------------------------ MODULE MCAlloc ------------------------------
(***************************************************************************)
(* Instances of Alloc for TLC: families of functions over NV vregs; vregs  *)
(* a family does not use are dead.                                         *)
(***************************************************************************)
EXTENDS Alloc

NoAffinity == [r \in Preg |-> 0]

Plain ==
    [is_byte |-> FALSE, is_seg |-> FALSE, needs_cl |-> FALSE,
     needs_base |-> FALSE, needs_index |-> FALSE, needs_ds_addr |-> FALSE,
     needs_addressable |-> FALSE, fixed |-> FALSE, prefer |-> NONE,
     is_stack_home |-> FALSE, is_local_slot |-> FALSE, live |-> TRUE,
     remat |-> FALSE, in_loop |-> FALSE, mem_disp |-> FALSE, use_count |-> 1,
     def_pos |-> 0, last_use |-> 4, affinity |-> NoAffinity,
     group |-> -1, high |-> FALSE]

Pinned(r)   == [Plain EXCEPT !.fixed = TRUE, !.prefer = r,
                             !.is_byte = (r \in ByteRegs),
                             !.is_seg = (r \in SegRegs)]
Prefers(r)  == [Plain EXCEPT !.prefer = r]
Byte        == [Plain EXCEPT !.is_byte = TRUE]
Addr        == [Plain EXCEPT !.needs_addressable = TRUE]
Base        == [Addr EXCEPT !.needs_base = TRUE]
Index       == [Addr EXCEPT !.needs_index = TRUE]
DsAddr      == [Addr EXCEPT !.needs_ds_addr = TRUE]
Cl          == [Byte EXCEPT !.needs_cl = TRUE]
ClLow       == [Cl EXCEPT !.group = 0]
ClHigh      == [ClLow EXCEPT !.high = TRUE]
Seg         == [Plain EXCEPT !.is_seg = TRUE]
Remat       == [Plain EXCEPT !.remat = TRUE]
Home        == [Plain EXCEPT !.is_stack_home = TRUE]
Local       == [Plain EXCEPT !.is_local_slot = TRUE]
Dead        == [Plain EXCEPT !.live = FALSE, !.def_pos = -1, !.last_use = -1]

MCKindInfo ==
    [ax      |-> Prefers("AX"),
     bp      |-> Prefers("BP"),
     byte    |-> Byte,
     ah      |-> [Byte EXCEPT !.prefer = "AH"],
     index   |-> Index,
     hot     |-> [Index EXCEPT !.use_count = 3, !.in_loop = TRUE],
     long    |-> [Index EXCEPT !.prefer = "SI", !.last_use = 40],
     byteix  |-> [Index EXCEPT !.is_byte = TRUE, !.prefer = "AL"],
     base    |-> [Base EXCEPT !.prefer = "BP"],
     ds      |-> DsAddr,
     dsbp    |-> [DsAddr EXCEPT !.prefer = "BP"],
     dsax    |-> [DsAddr EXCEPT !.prefer = "AX"],
     dsbase  |-> [Base EXCEPT !.needs_ds_addr = TRUE],
     low     |-> ClLow,
     low2    |-> [ClLow EXCEPT !.prefer = "CL"],
     high    |-> ClHigh,
     high2   |-> [ClHigh EXCEPT !.last_use = 9],
     pinax   |-> Pinned("AX"),
     pinbx   |-> Pinned("BX"),
     pincx   |-> Pinned("CX"),
     pindx   |-> Pinned("DX"),
     pinbp   |-> Pinned("BP"),
     seg     |-> Seg,
     segds   |-> [Seg EXCEPT !.prefer = "DS"],
     remat   |-> Remat,
     near    |-> [Plain EXCEPT !.affinity = [NoAffinity EXCEPT !["BX"] = 1]],
     home    |-> Home,
     local   |-> Local,
     dead    |-> Dead]
MCKind == DOMAIN MCKindInfo

GraphOf(E) == [v \in Vreg |-> {w \in Vreg : <<v, w>> \in E \/ <<w, v>> \in E}]
PairsOf(V) == {p \in V \X V : p[1] < p[2]}

\* A function whose first vregs are of the kinds ks, with edges E.
FuncOf(ks, E, rs) ==
    LET used == [v \in Vreg |-> IF v < Len(ks) THEN ks[v + 1] ELSE "dead"]
    IN  [vregs |-> used, ig |-> GraphOf(E), rets |-> rs,
         frame |-> \E v \in Vreg : MCKindInfo[used[v]].is_stack_home,
         locals |-> \E v \in Vreg : MCKindInfo[used[v]].is_local_slot,
         temp_calls |-> FALSE]

(***************************************************************************)
(* Three vregs of any kinds, any interference graph; vreg 0 is the result  *)
(* of a call over which vreg 1 is live.                                    *)
(***************************************************************************)
AnyKind    == {"ax", "index", "base", "low", "pincx", "pinbp", "seg", "segds",
               "remat", "home", "local", "dead", "byteix"}
LiveOver   == {"ax", "index", "base", "low", "pinbp", "segds", "byteix"}
Competitor == {"base", "hot"}
KindFunctions ==
    {FuncOf(<<k, l, c>>, E,
            {[v |-> 0, expected |-> "AX", after |-> {1}]}) :
        k \in AnyKind, l \in LiveOver, c \in Competitor,
        E \in SUBSET PairsOf(0 .. 2)}

(***************************************************************************)
(* Byte halves of one word that all want CL: most of them spill, and there *)
(* are several candidates for each low/high pair.                          *)
(***************************************************************************)
SpillFunctions ==
    {FuncOf(<<"pincx", k[1], k[2], k[3], k[4]>>, E, {}) :
        k \in [1 .. 4 -> {"low", "high", "high2"}],
        E \in {PairsOf(0 .. 4), PairsOf(0 .. 4) \ {<<0, 2>>, <<0, 3>>}}}

(***************************************************************************)
(* Two vregs next to the four split word registers pinned in 0..3: a byte  *)
(* vreg that meets all four has no colour left although its degree is      *)
(* below its pool size, so the pressure estimate lets BP be allocated and  *)
(* the driver has to start over.                                           *)
(***************************************************************************)
RetryFunctions ==
    {FuncOf(<<"pinax", "pinbx", "pincx", "pindx", k[1], k[2]>>,
            {<<p, 4>> : p \in P} \cup E \cup F, rs) :
        k \in [1 .. 2 -> {"byte", "bp"}], P \in SUBSET (0 .. 3),
        E \in {{}, {<<p, 5>> : p \in 0 .. 3}}, F \in {{}, {<<4, 5>>}},
        rs \in {{}, {[v |-> 4, expected |-> "AX", after |-> {5}]}}}

\* Calls whose stack cleanup must keep FLAGS reserve BP from the start.
TempFunctions ==
    {[FuncOf(<<k[1], k[2]>>, E, {}) EXCEPT !.temp_calls = TRUE] :
        k \in [1 .. 2 -> {"bp", "base", "byte"}], E \in SUBSET PairsOf(0 .. 1)}

(***************************************************************************)
(* Addresses in DS next to a pinned BX: only SI and DI are left to them,   *)
(* whether or not they prefer AX, and BP to the two kinds that may get it. *)
(***************************************************************************)
DsFunctions ==
    {FuncOf(<<"pinbx", k[1], k[2], c>>, {<<0, 1>>} \cup E, {}) :
        k \in [1 .. 2 -> {"ds", "dsax", "dsbp", "dsbase"}],
        c \in {"pinbp", "long", "dead"},
        E \in SUBSET {<<0, 2>>, <<1, 2>>, <<1, 3>>}}

MCFunctions ==
    KindFunctions \cup SpillFunctions \cup RetryFunctions \cup TempFunctions
        \cup DsFunctions

=============================================================================
