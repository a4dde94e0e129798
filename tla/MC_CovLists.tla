---------------------------- MODULE MC_CovLists ----------------------------
(***************************************************************************)
(* CovLists with names that are prefixes of each other, with and without a *)
(* hash, with a hash inside, and nothing but a hash.  One letter sorts      *)
(* before the hashes, one after them.                                      *)
(***************************************************************************)
EXTENDS CovLists

MCHashes == {2, 3}
MCLetters == {1, 4}
MCNames == {<<1>>, <<4>>, <<2>>, <<3>>, <<1, 4>>, <<1, 2>>, <<1, 3>>, <<4, 2>>,
            <<1, 4, 2>>, <<1, 4, 3>>, <<1, 2, 4>>, <<1, 2, 1>>}

(* All modules of at most four functions.                                  *)
UpTo[n \in 0 .. 4] ==
  IF n = 0 THEN {{}} ELSE {D \cup {x} : D \in UpTo[n - 1], x \in MCNames}
MCModules == UpTo[4]
=============================================================================
