--------------------------- MODULE MCPackReleases ---------------------------
EXTENDS PackReleases, ReleaseCases
=============================================================================
