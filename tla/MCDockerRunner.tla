---------------------------- MODULE MCDockerRunner ----------------------------
(* An instance of DockerRunner for TLC: two runs, of one scan, of two      *)
(* scans, and of two scans whose ids start alike.                          *)
EXTENDS DockerRunner, TLC

CONSTANTS s1, s2, r1, r2, x, y

TwoRuns == {
  <<s1 :> x @@ s2 :> y, r1 :> s1 @@ r2 :> s1>>,
  <<s1 :> x @@ s2 :> y, r1 :> s1 @@ r2 :> s2>>,
  <<s1 :> x @@ s2 :> x, r1 :> s1 @@ r2 :> s2>>}
================================================================================
