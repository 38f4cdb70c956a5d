--------------------------- MODULE MCRedirection ---------------------------
(***************************************************************************)
(* Two children: a pipe, or a job and one command more.                    *)
(***************************************************************************)
EXTENDS Redirection
=============================================================================
