---------------------------- MODULE MCShellGuard ----------------------------
(* The guard on an alphabet of two letters: y and xy are denied, xx is a     *)
(* keyword, x a wrapper and yy a protected path, so that one letter, or the  *)
(* place where a line is cut, changes the judgement.                         *)
EXTENDS ShellGuard

MCDenied    == {<<"y">>, <<"x", "y">>}
MCSkipped   == {<<"x", "x">>}
MCWrappers  == {<<"x">>}
MCProtected == {<<"y", "y">>}
=============================================================================
