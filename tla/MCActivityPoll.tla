---------------------------- MODULE MCActivityPoll ----------------------------
\* ActivityPoll as it is, with its bounds given in the configuration.
EXTENDS ActivityPoll
=============================================================================
