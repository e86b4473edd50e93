SPECIFICATION Spec
CONSTANTS
    ByteBits = 2
    Lanes = {0, 1}
    PageSize = 32
    LineSize = 8
    Stale = 85
    SRegs = {0, 1, 2, 3, 4, 5, 6, 7}
    VRegs = {0, 1, 2, 3, 4, 5, 6, 7}
    PageTable <- MCPageTable
    Memories <- MCMemories
    Kernels <- MCKernels
    F32 <- MCF32
    F64 <- MCF64
    FLess <- MCFLess
    FEqual <- MCFEqual
INVARIANTS
    TimingAgrees
    BlocksAgree
PROPERTIES
    RegistersApart
