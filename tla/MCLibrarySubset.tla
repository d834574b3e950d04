-------------------------- MODULE MCLibrarySubset --------------------------
\* Small libraries and kernels for LibrarySubset.
EXTENDS LibrarySubset

One == {{f} : f \in Stem}
NoneOrOne == {{}} \cup One

\* Nothing tells the kernels apart but what they call.
AnyKernels == Permutations(Kernel)
=============================================================================
