------------------------------ MODULE MCEngine ------------------------------
EXTENDS Engine

CONSTANTS small, large, huge, monitor_pixels

MCButtons == {}
MCGeometries == {small, large}

\* On a scaled display the framebuffer of a small window is as large as a large window.
MCPixels ==
  [g \in MCGeometries \union {MonitorArea} |->
     CASE g = small -> large [] g = large -> huge [] OTHER -> monitor_pixels]

MCUnscaled == [g \in MCGeometries \union {MonitorArea} |-> g]

=============================================================================
