---------------------------- MODULE MCSurroundings ----------------------------
(* A small instance of each of the modules around the core, for TLC. *)
EXTENDS Surroundings, TLC

CONSTANTS s1, s2, s3, a, b, c, home, away, u1, u2, p1, e1, e2, e3

\* Two servers of the newest release and an older one.
ReleaseOf == s1 :> 3 @@ s2 :> 3 @@ s3 :> 2

\* The names of a and b differ in case only.
UpperOf == a :> a @@ b :> a @@ c :> c

\* A rotation of a, which overlaps with rollbacks, and none of the others.
VersionsOf == a :> 2 @@ b :> 1 @@ c :> 1

WidthOf == home :> 1 @@ away :> 2

TriesOf == u1 :> 2 @@ u2 :> 1

AboutOf == e1 :> p1 @@ e2 :> p1 @@ e3 :> Everything
===============================================================================
