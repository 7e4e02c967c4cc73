---------------------------- MODULE MCGeneration ----------------------------
(* Instances of GenerationCommit for TLC. *)
EXTENDS GenerationCommit

\* Cube with the default policy, torus9 without technical retries.
BothPaths == {<<"cube", 1>>, <<"torus9", 0>>}
Torus9Only == {<<"torus9", 0>>}
\* torus9 with the default policy.
Torus9Retries == {<<"torus9", 1>>}
=============================================================================
