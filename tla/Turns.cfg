\* Every kind of token beyond the first fizzbuzz; two molecules.
SPECIFICATION Spec
CONSTANTS
    n = 17
    Hydrogens = {1, 2, 3, 4}
    Oxygens = {5, 6}
    MaxThreads = 6
INVARIANTS OutputInOrder
PROPERTIES Termination
