-------------------------- MODULE MCContainerLoop --------------------------
(* Containers as model values for ContainerLoop.                            *)
EXTENDS ContainerLoop

CONSTANTS a, b

=============================================================================
