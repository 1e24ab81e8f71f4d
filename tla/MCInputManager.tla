--------------------------- MODULE MCInputManager ---------------------------
EXTENDS InputManager

MCButtons == {"up", "left"}

=============================================================================
