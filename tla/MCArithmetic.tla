----------------------------- MODULE MCArithmetic -----------------------------
(***************************************************************************)
(* Programs for Arithmetic: every modelled instruction once, and the       *)
(* chains, pairs and triples its properties are about, with bytes of one   *)
(* bit, words of four and two lanes.                                       *)
(***************************************************************************)
EXTENDS Arithmetic, Instructions

\* least, small, most negative and greatest
MCWords == {0, 1, 8, 15}
MCInputs == {(0 :> (0 :> a @@ 1 :> b @@ 2 :> c @@ 3 :> d)) @@ (1 :> (0 :> c @@ 1 :> d @@ 2 :> a @@ 3 :> 3)) :
                a, b, c, d \in MCWords}

Program(goal, code) == [goal |-> goal, code |-> code, form |-> "", op |-> "",
                        same |-> {}]

-----------------------------------------------------------------------------
\* every instruction once
D == V(4)
DD == VReg(4, 2)

Scalar1 == {Sop1(op, SReg(4, 2), SReg(0, 2)) : op \in
    {"S_MOV_B64", "S_AND_SAVEEXEC_B64", "S_OR_SAVEEXEC_B64", "S_XOR_SAVEEXEC_B64",
     "S_ANDN2_SAVEEXEC_B64", "S_ORN2_SAVEEXEC_B64", "S_NAND_SAVEEXEC_B64", "S_NOR_SAVEEXEC_B64",
     "S_NXOR_SAVEEXEC_B64"}}
    \cup {Sop1(op, S(4), S(0)) : op \in {"S_MOV_B32", "S_NOT_U32", "S_BREV_B32"}}

Scalar2 == {Sop2(op, S(4), S(0), S(1)) : op \in
    {"S_ADD_U32", "S_SUB_U32", "S_ADD_I32", "S_SUB_I32", "S_ADDC_U32", "S_SUBB_U32", "S_MIN_I32",
     "S_MIN_U32", "S_MAX_I32", "S_MAX_U32", "S_CSELECT_B32", "S_AND_B32", "S_LSHL_B32",
     "S_LSHR_B32", "S_ASHR_I32", "S_BFM_B32", "S_MUL_I32", "S_BFE_I32"}}
    \cup {Sop2(op, SReg(4, 2), SReg(0, 2), SReg(2, 2)) : op \in
    {"S_AND_B64", "S_OR_B64", "S_XOR_B64", "S_ANDN2_B64", "S_LSHL_B64", "S_LSHR_B64"}}

ScalarOther ==
    {Sopc(rel, typ, S(0), S(1)) : rel \in {"lt", "le", "eq", "ge", "gt", "lg"}, typ \in {"i32", "u32"}}
    \cup {Sopk(op, S(2), -1) : op \in {"S_MOVK_I32", "S_CMPK_LG_I32", "S_MULK_I32"}}
    \cup {Sopp(op, 2) : op \in {"S_BRANCH", "S_CBRANCH_SCC0", "S_CBRANCH_SCC1", "S_CBRANCH_VCCZ",
                                "S_CBRANCH_VCCNZ", "S_CBRANCH_EXECZ", "S_CBRANCH_EXECNZ"}}

Vector1 == {Vop1(op, DD, VReg(0, 2)) : op \in
    {"V_MOV_B32", "V_CVT_F64_I32", "V_CVT_F32_I32", "V_CVT_F32_U32", "V_CVT_U32_F32",
     "V_CVT_I32_F32", "V_RSQ_F32", "V_NOT_B32", "V_BFREV_B32", "V_CVT_F32_UBYTE0",
     "V_CVT_F64_F32", "V_RCP_F64", "V_CVT_F32_F64", "V_CVT_F16_F32", "V_LOG_LEGACY_F32"}}
    \cup {Vop1("V_READFIRSTLANE_B32", S(4), V(0))}

Vector2 == {Vop2(op, D, V(0), V(1)) : op \in
    {"V_CNDMASK_B32", "V_ADD_F32", "V_SUB_F32", "V_SUBREV_F32", "V_MUL_F32", "V_MUL_I32_I24",
     "V_MUL_U32_U24", "V_MIN_F32", "V_MAX_F32", "V_MIN_I32", "V_MAX_I32", "V_MIN_U32",
     "V_MAX_U32", "V_LSHRREV_B32", "V_ASHRREV_I32", "V_LSHLREV_B32", "V_AND_B32", "V_OR_B32",
     "V_XOR_B32", "V_MAC_F32", "V_ADD_I32", "V_SUB_I32", "V_SUBREV_I32", "V_ADDC_U32",
     "V_SUBB_U32", "V_SUBBREV_U32"}}
    \cup {[Vop2("V_MADAK_F32", D, V(0), V(1)) EXCEPT !.src2 = [Imm(5) EXCEPT !.kind = "literal"]]}
    \cup {[Vop2(op, D, V(0), V(1)) EXCEPT !.sdwa = TRUE, !.sel0 = sel, !.sel1 = "WORD_0", !.selDst = dst] :
            op \in {"V_AND_B32", "V_OR_B32", "V_XOR_B32", "V_ADD_I32"},
            sel \in {"BYTE_0", "BYTE_3", "WORD_1", "DWORD"}, dst \in {"BYTE_2", "DWORD"}}

VectorCmp ==
    {[Vopc(rel, "f32", V(0), V(1)) EXCEPT !.negated = neg] :
        rel \in {"lt", "eq", "le", "lg", "gt", "ge"}, neg \in BOOLEAN}
    \cup {Vopc(rel, typ, V(0), V(1)) : rel \in {"lt", "le", "eq", "ge", "gt", "lg"}, typ \in {"i32", "u32"}}
    \cup {Vopc(rel, "u64", VReg(0, 2), VReg(2, 2)) : rel \in {"f", "lt", "tru"}}

Vector3 == {Vop3(op, "u32", DD, V(0), V(1), V(2)) : op \in
    {"V_MAD_I32_I24", "V_MAD_U64_U32", "V_MUL_LO_U32", "V_MUL_HI_U32"}}
    \cup {Vop3(op, "f64", DD, VReg(0, 2), VReg(1, 2), VReg(2, 2)) : op \in
    {"V_ADD_F64", "V_MUL_F64", "V_FMA_F64", "V_DIV_FMAS_F64", "V_DIV_FIXUP_F64"}}
    \cup {Vop3(op, "i64", DD, V(0), VReg(2, 2), None) : op \in {"V_LSHLREV_B64", "V_ASHRREV_I64"}}
    \cup {[Vop3(op, "f32", D, V(0), V(1), V(2)) EXCEPT !.abs = {0, 2}, !.neg = {1}] :
            op \in {"V_SUB_F32", "V_MAD_F32"}}
    \cup {[Vop3("V_MUL_LO_U32", "b32", D, V(0), V(1), V(2)) EXCEPT !.neg = {0}]}
    \cup {Vop3b("V_DIV_SCALE_F64", DD, SReg(4, 2), VReg(0, 2), VReg(1, 2), VReg(2, 2))}
    \cup {Vop3b(op, D, VCC, V(0), V(1), SReg(0, 2)) : op \in {"V_ADD_U32", "V_SUBB_U32"}}

Each == {Program("any", <<inst>>) : inst \in
            UNION {Scalar1, Scalar2, ScalarOther, Vector1, Vector2, VectorCmp, Vector3}}

\* destinations that are special registers
Specials == {Program("any", <<inst>>) : inst \in
    {Sop1("S_MOV_B64", VCC, SReg(0, 2)), Sop1("S_MOV_B64", EXECLO, SReg(0, 2)),
     Sop2("S_AND_B64", EXECLO, EXECLO, VCC), Sop2("S_OR_B64", VCC, EXECLO, SReg(2, 2)),
     Sop1("S_AND_SAVEEXEC_B64", VCC, VCC), Sop1("S_MOV_B32", [VCC EXCEPT !.count = 1], S(1)),
     Sop1("S_MOV_B32", [VCC EXCEPT !.kind = "vcchi", !.count = 1], S(1)),
     Sopk("S_MOVK_I32", [EXECLO EXCEPT !.kind = "m0", !.count = 1], 3)}}

-----------------------------------------------------------------------------
\* chains of two words
Chain(form, op, low, high) == [Program("wide", <<low, high>>) EXCEPT !.form = form, !.op = op]
Mask3 == SReg(6, 2)
Chains ==
    {CASE w[1] = "VOP2"  -> Chain(w[1], w[2], Vop2(w[3], V(4), V(0), V(2)), Vop2(w[4], V(5), V(1), V(3)))
       [] w[1] = "VOP3b" -> Chain(w[1], w[2], Vop3b(w[3], V(4), Mask3, V(0), V(2), None),
                                              Vop3b(w[4], V(5), Mask3, V(1), V(3), Mask3))
       [] w[1] = "SOP2"  -> Chain(w[1], w[2], Sop2(w[3], S(4), S(0), S(2)), Sop2(w[4], S(5), S(1), S(3))) :
            w \in WideOps}

\* two encodings
Same(short, long, pairs) == [Program("same", <<short, long>>) EXCEPT !.same = pairs]
Both == {<<V(4), V(5)>>, <<VCC, Mask3>>}
Compares(rel, typ, a, b, not) ==
    LET short == [Vopc(rel, typ, a, b) EXCEPT !.negated = not]
    IN  Same(short, [short EXCEPT !.fmt = "VOP3a", !.dst = Mask3], {<<VCC, Mask3>>})
Encodings ==
    {Compares(c[2], c[1], V(0), V(1), FALSE) : c \in
        ({"i32"} \X {"lt", "le", "gt", "ge"})
        \cup ({"u32"} \X {"lt", "le", "eq", "gt", "lg", "ge"}) \cup ({"f32"} \X {"lt", "gt"})}
    \cup {Compares("lt", "f32", V(0), V(1), TRUE), Compares("lt", "u64", VReg(0, 2), VReg(2, 2), FALSE)}
    \cup {Same(Vop2(c[1], V(4), V(0), V(1)), Vop3b(c[2], V(5), Mask3, V(0), V(1), None), Both) : c \in
        {<<"V_ADD_I32", "V_ADD_U32">>, <<"V_SUB_I32", "V_SUB_U32">>, <<"V_SUBREV_I32", "V_SUBREV_U32">>}}
    \cup {Same(Vop2("V_CNDMASK_B32", V(4), V(0), V(1)),
               Vop3("V_CNDMASK_B32", "b32", V(5), V(0), V(1), VCC), {<<V(4), V(5)>>}),
          Same(Vop2("V_SUB_F32", V(4), V(0), V(1)),
               Vop3("V_SUB_F32", "f32", V(5), V(0), V(1), None), {<<V(4), V(5)>>})}
\* the mask the long form starts from is the one the short form reads: VCC
EncodingsWithCarry ==
    {[Program("same", << Sop2("S_OR_B64", SReg(4, 2), VCC, Imm(0)),
                         Vop2(op, V(4), V(0), V(1)),
                         Vop3b(op, V(5), Mask3, V(0), V(1), SReg(4, 2)) >>)
        EXCEPT !.same = IF op = "V_ADDC_U32" THEN {<<V(4), V(5)>>} ELSE Both] :
            op \in {"V_ADDC_U32", "V_SUBB_U32", "V_SUBBREV_U32"}}

\* minimum, median, maximum
Triples ==
    {Program("any", << Vop3("V_MIN3", typ, V(4), V(0), V(1), V(2)),
                       Vop3("V_MED3", typ, V(5), V(0), V(1), V(2)),
                       Vop3("V_MAX3", typ, V(6), V(0), V(1), V(2)) >>) : typ \in {"i32", "u32", "f32"}}

MCPrograms == UNION {Each, Specials, Chains, Encodings, EncodingsWithCarry, Triples}
=============================================================================
