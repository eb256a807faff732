----------------------------- MODULE MCStartup -----------------------------
(* A small instance of Startup for TLC. *)
EXTENDS Startup, TLC

CONSTANTS p1, p2, p3

\* p1 and p2 are of one release, p3 of an older one with another first migration,
\* so that neither starts where the other has been.  The first migration consists
\* of IF NOT EXISTS, the second does not.
MCBundle ==
    (p1 :> (1 :> "a" @@ 2 :> "a"))
    @@ (p2 :> (1 :> "a" @@ 2 :> "a"))
    @@ (p3 :> (1 :> "b" @@ 2 :> NoChecksum))
=============================================================================
