---------------------------- MODULE MCPageStore -----------------------------
(***************************************************************************)
(* The constants of PageStore's runs, and what the repository says of      *)
(* working files and saves.                                                *)
(***************************************************************************)
EXTENDS PageStore

ShortImages == {<<"x", "y", "y">>}
Texts       == {<<>>, <<"y">>}
NulTexts    == {<<"x", "0">>}

(* include/src/file.h:58, of w: "writes the buffer to the file".  So the   *)
(* bytes of a page that left the cache are in a file, all of them.         *)
WritesTheBuffer ==
  \A p \in Listed \ cached : OnDisk(line[p]) => Readable(line[p]) /\ Bytes(p) = given[p]

(* src/page.cc:20, of ~Page: "remove tmp file to lessen bloat".  So no     *)
(* working file outlives its page, unless the process dies.                *)
NoBloat == [][litter' => litter \/ Crash]_vars
=============================================================================
