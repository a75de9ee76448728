------------------------------ MODULE MCJobProcess -----------------------------
EXTENDS JobProcess
================================================================================
