-------------------------- MODULE MCCapturePipeline --------------------------
EXTENDS CapturePipeline, TLC

Screens == Permutations(Sources)

\* One block per resolution, each of which the blank detector looks at; what depends on
\* several blocks is left to the proofs, which are about any sizes.
BothSizes == {{1}, {2}}

\* Everything that can go wrong with one screen, and with a choice of two.
AllScenarios == {{"temporary", "permanent", "gdi", "dark", "display"},
                 {"temporary", "gdi", "select"},
                 {"permanent", "dark", "select", "refuse"}}

\* One capture in between fails.
OneFailure == {{"permanent", "gdi"}}
=============================================================================
