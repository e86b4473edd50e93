--------------------------------- MODULE ALU ---------------------------------
(***************************************************************************)
(* One instruction of the emulator (ALUImpl.Run of src/emu/alu.go), for    *)
(* every format, and the operands that name the registers of a wave.       *)
(***************************************************************************)
EXTENDS ScalarALU, VectorALU, MemoryALU

CONSTANTS SRegs,         \* the numbers of the scalar registers of a wave
          VRegs          \* the numbers of its vector registers

E == INSTANCE EmuRegisters

None  == [kind |-> "none", n |-> 0, count |-> 0, val |-> 0]
SReg(n, count) == [kind |-> "s", n |-> n, count |-> count, val |-> 0]
VReg(n, count) == [kind |-> "v", n |-> n, count |-> count, val |-> 0]

-----------------------------------------------------------------------------
\* ALUImpl.Run: from a scratchpad, memory and LDS to the next ones

Run(inst, m) ==
    CASE inst.fmt = "SOP1"  -> [m EXCEPT !.s = RunSOP1(inst.op, @)]
      [] inst.fmt = "SOP2"  -> [m EXCEPT !.s = RunSOP2(inst.op, @)]
      [] inst.fmt = "SOPC"  -> [m EXCEPT !.s = RunSOPC(inst.rel, inst.typ, @)]
      [] inst.fmt = "SOPK"  -> [m EXCEPT !.s = RunSOPK(inst.op, @)]
      [] inst.fmt = "SOPP"  -> [m EXCEPT !.s = RunSOPP(inst.op, @)]
      [] inst.fmt = "VOP1"  -> [m EXCEPT !.s = RunVOP1(inst.op, @)]
      [] inst.fmt = "VOP2"  -> [m EXCEPT !.s = RunVOP2(inst.op, @, inst)]
      [] inst.fmt = "VOPC"  -> [m EXCEPT !.s = RunVOPC(inst, @)]
      [] inst.fmt = "VOP3a" -> [m EXCEPT !.s = RunVOP3a(inst.op, @, inst)]
      [] inst.fmt = "VOP3b" -> [m EXCEPT !.s = RunVOP3b(inst.op, @, inst)]
      [] inst.fmt = "SMEM"  -> RunSMEM(m, inst)
      [] inst.fmt = "FLAT"  -> RunFlat(m, inst)
      [] inst.fmt = "DS"    -> RunDS(m, inst)
=============================================================================
