-------------------------- MODULE MCKernelTagging --------------------------
\* Small libraries and kernels for KernelTagging.
EXTENDS KernelTagging

NoneOrOne == {{}} \cup {{f} : f \in Stem}
NoAlike == {{}}
LastAlike == {{}, {3}}
PlainPath == {Rds}
AnyPath == {Rds, [Rds EXCEPT !.ending = ""]}
=============================================================================
