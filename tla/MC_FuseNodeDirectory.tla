------------------------- MODULE MC_FuseNodeDirectory -------------------------
EXTENDS FuseNodeDirectory

\* Two names the kernel uses and two that hidden_name makes.
MC_Names == {"a", "b", "h1", "h2"}
MC_Hidden == <<"h1", "h2">>

\* A mount holding a directory with a file in it (unlink and rmdir reach
\* the empty mount from it).
MC_InitFs == {(<<"a">> :> Dir) @@ (<<"a", "b">> :> 1), (<<"a">> :> 1) @@ (<<"b">> :> 2)}

=============================================================================
