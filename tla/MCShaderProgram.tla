-------------------------- MODULE MCShaderProgram --------------------------
EXTENDS ShaderProgram

CONSTANTS simple, text, overlay, n1, n2, n3, n4

MCShaderPrograms == {simple, text, overlay}
MCNames == {n1, n2, n3, n4}

=============================================================================
