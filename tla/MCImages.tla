------------------------------ MODULE MCImages ------------------------------
EXTENDS Images, TLC

CONSTANTS a, b, c, r, s
\* a and b are two builds of one release, c the build of the next
MCReleaseOf == (a :> r) @@ (b :> r) @@ (c :> s)
=============================================================================
