----------------------------- MODULE MCPipeline -----------------------------
(* A small instance of Pipeline for TLC.                                    *)
EXTENDS Pipeline

(* The lines of the scripts in cw05/zad1: three programs.                   *)
TestScript == { << <<"list", "copy", "copy">> >> }
=============================================================================
