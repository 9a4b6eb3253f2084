------------------------------ MODULE MCGallery ------------------------------
\* An instance of Gallery for TLC: three items, a tooltip that waits before it shows or hides.
EXTENDS Gallery

ShowKinds  == {<<TRUE, TRUE, TRUE>>, <<FALSE, FALSE, TRUE>>}
TwoReasons == {"click", "focus"}
DelayKinds == {[show |-> TRUE, hide |-> TRUE]}
=============================================================================
