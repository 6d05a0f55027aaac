----------------------------- MODULE MCClobAuth -----------------------------
(* Small instances of ClobAuth for TLC.                                    *)
EXTENDS ClobAuth
=============================================================================
