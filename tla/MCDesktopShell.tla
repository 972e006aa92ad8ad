---------------------------- MODULE MCDesktopShell ----------------------------
(* Small instances of DesktopShell for TLC.                                *)
EXTENDS DesktopShell
=============================================================================
