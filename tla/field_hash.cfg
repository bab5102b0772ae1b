\* Every class of bit pairs of the product, and messages of thirteen dense
\* blocks cut in every way, on both back ends and for both hashes.
SPECIFICATION Spec
CONSTANT Cases <- AllCases
INVARIANT TypeOK
INVARIANT HashIsStandard
CHECK_DEADLOCK FALSE
