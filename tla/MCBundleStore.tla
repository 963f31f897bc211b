---------------------------- MODULE MCBundleStore ----------------------------
(***************************************************************************)
(* Two processes and three bundles, one written in one piece and two in    *)
(* two, so that a short image is written over a long one and a piece of    *)
(* one may be found behind the piece of another.                           *)
(***************************************************************************)
EXTENDS BundleStore

MCVersions == {1, 2, 3}
MCPieces == <<1, 2, 2>>
=============================================================================
