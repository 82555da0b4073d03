-------------------------- MODULE MCDatabaseHeader --------------------------
(* Model-checking instance of DatabaseHeader.                             *)
EXTENDS DatabaseHeader
=============================================================================
