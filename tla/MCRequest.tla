----------------------------- MODULE MCRequest -----------------------------
(***************************************************************************)
(* Small requests for TLC: two methods, a plain file, a directory, a CGI   *)
(* program with arguments and a path with "..", three instants that need a *)
(* borrow between them.                                                    *)
(***************************************************************************)
EXTENDS Request, TLC

Uri(d, c, q, s) == [dotdot |-> d, cgi |-> c, query |-> q, slash |-> s]
SmallUris == {Uri(FALSE, FALSE, FALSE, FALSE), Uri(FALSE, FALSE, FALSE, TRUE),
              Uri(FALSE, TRUE, TRUE, FALSE), Uri(TRUE, TRUE, FALSE, FALSE)}

SmallTimes == {[sec |-> 0, usec |-> 1], [sec |-> 1, usec |-> 0],
               [sec |-> 2, usec |-> 2]}
=============================================================================
