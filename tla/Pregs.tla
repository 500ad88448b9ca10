------------------------------- MODULE Pregs -------------------------------
(***************************************************************************)
(* The physical register model of the binder (bind.c, "Physical register   *)
(* model"): the V20's word, byte and segment registers, which of them      *)
(* share storage, and the register pool of each class of virtual register. *)
(* Registers are named by strings; "none" is PREG_NONE.                    *)
(***************************************************************************)
EXTENDS Naturals, Sequences

NONE == "none"

WordRegs  == {"AX", "CX", "DX", "BX", "SP", "BP", "SI", "DI"}
ByteRegs  == {"AL", "CL", "DL", "BL", "AH", "CH", "DH", "BH"}
SegRegs   == {"ES", "CS", "SS", "DS"}
Preg      == WordRegs \cup ByteRegs \cup SegRegs \cup {"FLAGS"}

\* The word registers that have addressable halves.
SplitWords == {"AX", "CX", "DX", "BX"}

preg_alias_lo == [AX |-> "AL", CX |-> "CL", DX |-> "DL", BX |-> "BL"]
preg_alias_hi == [AX |-> "AH", CX |-> "CH", DX |-> "DH", BX |-> "BH"]

preg_alias_parent ==
    [r \in ByteRegs |->
        CHOOSE w \in SplitWords : r \in {preg_alias_lo[w], preg_alias_hi[w]}]

Halves(w) == {preg_alias_lo[w], preg_alias_hi[w]}

\* Two registers share storage.
pregs_alias(a, b) ==
    /\ a # NONE /\ b # NONE
    /\ \/ a = b
       \/ a \in SplitWords /\ b \in Halves(a)
       \/ b \in SplitWords /\ a \in Halves(b)

\* Writing one register changes the value of another.
preg_write_clobbers(written, live) ==
    /\ written # NONE /\ live # NONE
    /\ \/ written = live
       \/ written \in SplitWords /\ live \in Halves(written)
       \/ written \in ByteRegs /\ live = preg_alias_parent[written]

\* A byte register is pushed and popped as the word it is half of.
PushReg(r) == IF r \in ByteRegs THEN preg_alias_parent[r] ELSE r

\* Faulty variant: an address in DS is taken for any address.
get_vreg_pool_addressable(vr, bp_available) ==
    IF vr.is_seg THEN <<"ES">>
    ELSE IF vr.needs_cl THEN <<"CL">>
    ELSE IF vr.is_byte
         THEN <<"AL", "AH", "BL", "BH", "CL", "CH", "DL", "DH">>
    ELSE IF vr.needs_base
         THEN IF bp_available THEN <<"BX", "BP">> ELSE <<"BX">>
    ELSE IF vr.needs_index THEN <<"SI", "DI">>
    ELSE IF vr.needs_addressable
         THEN IF bp_available THEN <<"BX", "BP", "SI", "DI">>
                              ELSE <<"BX", "SI", "DI">>
    ELSE IF bp_available
         THEN <<"AX", "BX", "CX", "DX", "SI", "DI", "BP">>
         ELSE <<"AX", "BX", "CX", "DX", "SI", "DI">>

(***************************************************************************)
(* The register pool of a virtual register, in the order of preference in  *)
(* which the allocator enumerates it.  vr is the vreg's constraint record. *)
(***************************************************************************)
get_vreg_pool(vr, bp_available) ==
    IF vr.is_seg THEN <<"ES">>
    ELSE IF vr.needs_cl THEN <<"CL">>
    ELSE IF vr.is_byte
         THEN <<"AL", "AH", "BL", "BH", "CL", "CH", "DL", "DH">>
    ELSE IF vr.needs_base
         THEN IF bp_available THEN <<"BX", "BP">> ELSE <<"BX">>
    ELSE IF vr.needs_index THEN <<"SI", "DI">>
    ELSE IF vr.needs_ds_addr THEN <<"BX", "SI", "DI">>
    ELSE IF vr.needs_addressable
         THEN IF bp_available THEN <<"BX", "BP", "SI", "DI">>
                              ELSE <<"BX", "SI", "DI">>
    ELSE IF bp_available
         THEN <<"AX", "BX", "CX", "DX", "SI", "DI", "BP">>
         ELSE <<"AX", "BX", "CX", "DX", "SI", "DI">>

PoolSet(vr, bp_available) ==
    LET p == get_vreg_pool(vr, bp_available) IN {p[k] : k \in 1..Len(p)}

pools_may_alias(A, B) == \E a \in A, b \in B : pregs_alias(a, b)
=============================================================================
