CONSTANTS
    Trees <- MCTrees
SPECIFICATION Spec
INVARIANT RenderingReadsBack
