----------------------------- MODULE MCKeyStore -----------------------------
(* KeyStore with a rotation whose first attempt publishes no usable key; "s" *)
(* is in every usable document.                                              *)
EXTENDS KeyStore

MCKids == {"s", "b", "ec"}
MCUsable == {"s", "b"}
MCPublished == <<{"s"}, {"ec"}, {"s", "b"}>>
=============================================================================
