---------------------------- MODULE MCExactCache ----------------------------
(* Two clients, one of them an administrator too, and two keys for one slot of *)
(* memory and a queue of two: every insert may evict, be dropped, or wait      *)
(* while its key is read or deleted.                                          *)
EXTENDS ExactCache

MCClients == {"c1", "c2"}
MCAdmins == {"c2"}
MCKeys == {"k1", "k2"}
=============================================================================
