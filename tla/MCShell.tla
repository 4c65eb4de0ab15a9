------------------------------- MODULE MCShell -------------------------------
(***************************************************************************)
(* Shell on a small tree: /bin with three programs, /user with a directory *)
(* in a directory and a file.                                              *)
(***************************************************************************)
EXTENDS Shell

E(name, node) == [name |-> name, node |-> node]
Dots(self, parent) == <<E(".", self), E("..", parent)>>

Tree == 2 :> (Dots(2, 2) \o <<E("bin", 3), E("user", 4)>>)
     @@ 3 :> (Dots(3, 2) \o <<E("ls", 11), E("cat", 12), E("kai", 13)>>)
     @@ 4 :> (Dots(4, 2) \o <<E("a", 5), E("f", 14)>>)
     @@ 5 :> (Dots(5, 4) \o <<E("b", 6), E("f", 15)>>)
     @@ 6 :> Dots(6, 5)
Binaries == {11, 12, 13}

\* One component, some pairs of them, and ways to write them.
Comps == {".", "..", "a", "b", "f"}
One   == {<<c>> : c \in Comps} \cup {<<"/", c>> : c \in {"..", "bin", "f"}}
Two   == {p \o <<"/", c>> : p \in {<<"..">>, <<"a">>, <<"/", "user">>}, c \in Comps}
Typed == One \cup Two \cup {<<"/">>, <<"/", "/">>, <<"a", "/">>, <<"a", "/", "/", "b">>,
                           <<"/", "user", "/", "a", "/", "b">>}
=============================================================================
