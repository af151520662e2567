--------------------------------- MODULE MCHps ---------------------------------
(***************************************************************************)
(* Instances of Hps for TLC: a read or write carries two units, a stream    *)
(* one at a time.  The calls are a GET, a POST of a body that fits one      *)
(* write, and a PUT of one that does not, each with and without chunking;   *)
(* there is no provider of /b.                                              *)
(***************************************************************************)
EXTENDS Hps

MCCalls ==
  [method : {"GET"}, url : {"/a", "/b"}, body : {NoBody}, chunking : BOOLEAN]
  \cup [method : {"PUT"}, url : {"/a"}, body : {<<1, 2>>, <<3, 4, 5>>}, chunking : BOOLEAN]

MCReplies == {<<6>>, <<7, 8, 9>>}
MCProviders == {<<"GET", "/a">>, <<"PUT", "/a">>}
================================================================================
