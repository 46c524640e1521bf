----------------------------- MODULE MCLifecycle -----------------------------
EXTENDS Lifecycle

MCWriters == {"w1", "w2"}
=============================================================================
