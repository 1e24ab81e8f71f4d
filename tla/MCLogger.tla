------------------------------ MODULE MCLogger ------------------------------
EXTENDS Logger, TLC

CONSTANTS first, second

MCInstances == {first, second}

InstanceSymmetry == Permutations(MCInstances)

=============================================================================
