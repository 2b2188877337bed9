---------------------------- MODULE MCEventFeed ----------------------------
\* Model-checking instance of EventFeed.
EXTENDS EventFeed
=============================================================================
