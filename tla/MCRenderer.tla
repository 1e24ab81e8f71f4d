----------------------------- MODULE MCRenderer -----------------------------
EXTENDS Renderer, TLC

CONSTANTS H, e, star, n1, n2, t1, t2, t3

MCNames == {n1, n2}
MCChars == {H, e, star}
MCTextures == {t1, t2, t3}
MCTexts == << <<H, e, H>>, <<star, e>> >>
MCAdvance == (H :> 200) @@ (e :> 127) @@ (star :> 64)

=============================================================================
