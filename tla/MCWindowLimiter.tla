-------------------------- MODULE MCWindowLimiter --------------------------
EXTENDS WindowLimiter
=============================================================================
