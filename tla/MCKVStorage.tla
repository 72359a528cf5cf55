---------------------------- MODULE MCKVStorage ----------------------------
(* Instances of KVStorage for TLC.  The prefixes begin alike, as those of  *)
(* the trees do, and the key of the trees is also one of the list's.       *)
EXTENDS KVStorage

MCTreePrefixes == {<<"tree", "claims">>, <<"tree", "roots">>}
MCTreeKeys == {<<"len">>}
=============================================================================
