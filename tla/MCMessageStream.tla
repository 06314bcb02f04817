----------------------------- MODULE MCMessageStream -----------------------------
EXTENDS MessageStreamProps

Lengths == {3, 4}
================================================================================
