SPECIFICATION Spec
INVARIANTS
    IntegersRight DecodingRight EncodingRight
CHECK_DEADLOCK FALSE
