------------------------- MODULE MCExternalMemory -------------------------
EXTENDS ExternalMemory

CONSTANTS CPU_Heap, GPU_Global

MCStorages == {CPU_Heap, GPU_Global}
=============================================================================
