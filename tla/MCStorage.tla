----------------------------- MODULE MCStorage -----------------------------
(* Storage on a small directory: see MCStorage.cfg.                          *)
EXTENDS Storage
=============================================================================
