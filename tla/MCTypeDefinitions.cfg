CONSTANTS
    NTypes <- MCNTypes
    MaxFields <- MCMaxFields
SPECIFICATION Spec
INVARIANT DefinitionsOnceBeforeUse
