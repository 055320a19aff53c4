---------------------- MODULE MCSourceMaterialization ----------------------
(* TLC instance of SourceMaterialization: two pins, so that a re-pin can be  *)
(* reverted, a checkout and an archive.                                      *)
EXTENDS SourceMaterialization

CONSTANTS p1, p2, checkout, tarball

MCPins == {p1, p2}

=============================================================================
