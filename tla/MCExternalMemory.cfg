CONSTANTS
    CPU_Heap = CPU_Heap
    GPU_Global = GPU_Global
    Storages <- MCStorages
    Elems = {1, 3}
    ElemBytes = {1, 4}
    MaxArrays = 3
SPECIFICATION Spec
INVARIANT BoundArraysFitAndDisjoint
