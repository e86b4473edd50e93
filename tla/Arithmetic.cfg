SPECIFICATION Spec
CONSTANTS
    ByteBits = 1
    Lanes = {0, 1}
    PageSize = 32
    PageTable = 0
    SRegs = {0, 1, 2, 3, 4, 5, 6, 7}
    VRegs = {0, 1, 2, 3, 4, 5, 6, 7}
    Programs <- MCPrograms
    Inputs <- MCInputs
    F32 <- MCF32
    F64 <- MCF64
    FLess <- MCFLess
    FEqual <- MCFEqual
INVARIANTS
    PreparersAgree
    WideArithmetic
    EncodingsAgree
