---------------------------- MODULE MCUrlSquasher ---------------------------
(***************************************************************************)
(* Small instances of UrlSquasher for TLC.                                 *)
(***************************************************************************)
EXTENDS UrlSquasher

CONSTANTS a, b, x, y, z, dots, f1, f2

\* Three variants at the first level below the root, two at the second, and
\* a URL that is too long.
News == {<<a, x, x>>, <<a, x, y>>, <<a, y, x>>, <<a, z>>, <<a, z, x, x>>}

\* A URL that the configuration takes care of.
Static == {<<b, x>>}
NewsAndStatic == News \cup Static

\* A regex for other URLs of the service.
Seed == {<<b, dots>>}
=============================================================================
