------------------------------- MODULE MCWin32 -------------------------------
(***************************************************************************)
(* Win32Shm for TLC.  Objects, names and handle values are interchangeable *)
(* in every action and property.                                           *)
(***************************************************************************)
EXTENDS Win32Shm, TLC

Symmetry == Permutations(Objects) \cup Permutations(Names) \cup Permutations(Handles)
================================================================================
