--------------------------- MODULE MCDockerSensor ---------------------------
(* A small instance of DockerSensor.                                       *)
EXTENDS DockerSensor, TLC

CONSTANTS web, other

\* Containers may be called "web" or as an abbreviation of the identifier of
\* the seed container, which makes that reference ambiguous.
MCNames == {web, other}
MCAbbreviates == (web :> {}) @@ (other :> {SeedId})
=============================================================================
