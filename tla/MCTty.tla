-------------------------------- MODULE MCTty --------------------------------
(***************************************************************************)
(* A terminal of 3 rows of 2 cells, texts that fill and leave its rows.    *)
(***************************************************************************)
EXTENDS Tty

CONSTANTS a, b
Printable == {<<a>>, <<b, a, b>>, <<NL>>, <<a, NL, b>>, <<FF>>}
Messages == {<<b, NL>>, <<a, b, a, NL>>}
=============================================================================
