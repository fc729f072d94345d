-------------------------- MODULE MCPackageManager --------------------------
\* Four packages: the packages are interchangeable.
EXTENDS PackageManager, TLC

Symmetry == Permutations(Package)
=============================================================================
