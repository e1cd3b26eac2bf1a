------------------------- MODULE MCSessionRegistry -------------------------
(***************************************************************************)
(* Configurations of two namespaces: plain names with a topic in common;   *)
(* names with a "::" of their own, so that "/a" with "b::c" and "/a::b"    *)
(* with "c" have one key, beside a topic with a key of its own; and names  *)
(* with a "::" whose keys are apart all the same.                          *)
(***************************************************************************)
EXTENDS SessionRegistry, TLC

NsA  == <<"/a">>
NsD  == <<"/d">>
NsAB == <<"/a", ":", ":", "b">>

B  == <<"b">>
C  == <<"c">>
BC == <<"b", ":", ":", "c">>

Plain     == {<<NsA, C>>, <<NsA, B>>, <<NsD, C>>}
SharedKey == {<<NsA, BC>>, <<NsA, C>>, <<NsAB, C>>}
Apart     == {<<NsAB, C>>, <<NsD, BC>>, <<NsD, C>>}

AllSpecs       == {Plain, SharedKey, Apart}
Names          == {B, C, BC}
ClientSymmetry == Permutations(Clients)
=============================================================================
