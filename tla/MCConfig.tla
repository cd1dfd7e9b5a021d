------------------------------ MODULE MCConfig -----------------------------
(***************************************************************************)
(* Instance of Config: every kind of text, with numbers around INT_MAX,    *)
(* around UINT64_MAX, and around the seconds that overflow it.             *)
(***************************************************************************)
EXTENDS Config

SomeNumbers ==
  [digit : {TRUE}, n : (0 .. 5) \cup {11, 12, 13, 31, 32},
   suffix : {"", "s", "ms", "other"}]
  \cup [digit : {FALSE}, n : {0}, suffix : {"ms"}]
=============================================================================
