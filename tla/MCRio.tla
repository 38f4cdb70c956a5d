------------------------------- MODULE MCRio -------------------------------
(***************************************************************************)
(* Streams of up to four bytes, two of which fit into the internal buffer. *)
(***************************************************************************)
EXTENDS Rio

MCLineSizes == {1, 3, 4}
MCBlockSizes == {0, 3}
MCMessages == {<<"a", "nl">>, <<"a", "a", "nl">>}
=============================================================================
