------------------------------ MODULE MCArqLink ------------------------------
(* Small instances of ArqLink for TLC.                                     *)
EXTENDS ArqLink

MCByte == 1..MaxBytes
=============================================================================
