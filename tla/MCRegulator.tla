----------------------------- MODULE MCRegulator -----------------------------
EXTENDS Regulator

OneWriter  == {"w1"}
TwoWriters == {"w1", "w2"}
=============================================================================
