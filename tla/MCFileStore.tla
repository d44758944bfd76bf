---------------------------- MODULE MCFileStore -----------------------------
(* The file store for TLC: three records, two that begin alike and end        *)
(* differently and one that is longer.                                        *)
EXTENDS FileStore

StoredRecords == {<<"a", "b">>, <<"a", "c">>, <<"d", "c", "e">>}
=============================================================================
