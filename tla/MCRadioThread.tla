--------------------------- MODULE MCRadioThread ---------------------------
(***************************************************************************)
(* An instance of RadioThread, with the gains of src/example-1.toml.       *)
(***************************************************************************)
EXTENDS RadioThread

TheLnaGain == -12
=============================================================================
