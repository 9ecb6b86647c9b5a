-------------------------- MODULE MCVideoTransport --------------------------
EXTENDS VideoTransport

Zero == {0}
One == {1}
Fast == {FALSE}
AnyRtt == {FALSE, TRUE}
=============================================================================
