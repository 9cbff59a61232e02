------------------------------- MODULE MCFcfs -------------------------------
EXTENDS FcfsBench, TLC

CONSTANTS s1, s2, a, b, c, j, e

\* Two start nodes and two joins one after the other, so that the last task
\* lies on five paths: s1, s2 -> a, b -> j -> e, and s2 -> c -> j.
MCTaskNodes == {s1, s2, a, b, c, j, e}
MCStartNodes == <<s1, s2>>
MCNeighbors ==
  (s1 :> <<a, b>>) @@ (s2 :> <<b, a, c>>) @@ (a :> <<j>>)
  @@ (b :> <<j>>) @@ (c :> <<j>>) @@ (j :> <<e>>) @@ (e :> <<>>)
=============================================================================
