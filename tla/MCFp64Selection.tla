-------------------------- MODULE MCFp64Selection --------------------------
\* Two platforms: an integrated GPU beside a CPU device, and a second GPU.
EXTENDS Fp64Selection

TwoPlatforms == {<<0, 0>>, <<0, 1>>, <<1, 0>>}

Gpus == {<<0, 1>>, <<1, 0>>}

UnsetOrFirst == {-1, 0}
=============================================================================
