--------------------------- MODULE MCDemoProgram ---------------------------
(* The demo program for TLC: one address space with two workers, which the  *)
(* process of the second key finds as that of the first one has left it.    *)
EXTENDS DemoProgram

MCThreads == Processes \X Workers
=============================================================================
