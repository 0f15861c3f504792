---------------------------- MODULE MCUserStream ----------------------------
\* The pause doubles twice; the threshold is passed in the midst of one.
EXTENDS UserStream
=============================================================================
