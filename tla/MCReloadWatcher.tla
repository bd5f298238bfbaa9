--------------------------- MODULE MCReloadWatcher ---------------------------
(***************************************************************************)
(* Two files for ReloadWatcher; the proxy rejects version 1 of the first.   *)
(***************************************************************************)
EXTENDS ReloadWatcher

CONSTANTS f1, f2

MCFiles == {f1, f2}
MCBad   == {<<f1, 1>>}
=============================================================================
