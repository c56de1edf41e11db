--------------------------- MODULE MCProxyUpdater ---------------------------
(* Small instances of ProxyUpdater for TLC: model values name the          *)
(* configurations.                                                         *)
EXTENDS ProxyUpdater

CONSTANTS c1, c2, c3
=============================================================================
