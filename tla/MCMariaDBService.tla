--------------------------- MODULE MCMariaDBService ---------------------------
(***************************************************************************)
(* Instances of MariaDBService for TLC.                                    *)
(***************************************************************************)
EXTENDS MariaDBService

\* The defaults, one value that is a number and one that is none.
Values == {"", "0", "-1", "Primary", "3"}
Numbers == {"0", "-1", "3"}
===============================================================================
