------------------------------ MODULE MCWindow ------------------------------
EXTENDS WindowLife

CONSTANTS p1, p2, p3,    \* positions
          s1, s2,        \* sizes
          INVALID_ENUM, INVALID_OPERATION

MCGeometries == {p1, p2, p3} \X {s1, s2}

MCGlErrors == {INVALID_ENUM, INVALID_OPERATION}

=============================================================================
