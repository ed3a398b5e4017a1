---------------------------- MODULE Stm32LoaderMC ----------------------------
(* Values of the constants of Stm32Loader for model checking.             *)
EXTENDS Stm32Loader

\* One whole chunk, and one that is padded.
MCFile == <<"f1", "f2", "f3">>
=============================================================================
