---------------------------- MODULE MCLoginFlow ----------------------------
(* LoginFlow with two browsers.                                             *)
EXTENDS LoginFlow
=============================================================================
