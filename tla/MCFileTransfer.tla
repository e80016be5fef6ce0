--------------------------- MODULE MCFileTransfer ---------------------------
(***************************************************************************)
(* Small instances of FileTransfer: one or two jobs of at most three       *)
(* chunks.  A window of two chunks closes, and a batch of one file makes a *)
(* plan queue its files in several steps.                                  *)
(***************************************************************************)
EXTENDS FileTransfer

File(upload, n, exists) == [upload |-> upload, kind |-> "file", sizes |-> <<n>>, exists |-> exists]
Folder(upload, sizes) ==
    [upload |-> upload, kind |-> "folder", sizes |-> sizes, exists |-> FALSE]
Batched(upload, sizes, exists) ==
    [upload |-> upload, kind |-> "batch", sizes |-> sizes, exists |-> exists]

MCScenario ==
    {<<File(TRUE, 2, FALSE)>>, <<File(FALSE, 3, FALSE)>>, <<File(TRUE, 0, FALSE)>>,
     <<File(FALSE, 1, TRUE)>>, <<Folder(TRUE, <<1, 1>>)>>, <<Folder(FALSE, <<>>)>>,
     <<Batched(TRUE, <<0, 1>>, TRUE)>>, <<Batched(FALSE, <<1, 0>>, FALSE)>>,
     <<Batched(TRUE, <<0, 1>>, FALSE), File(FALSE, 0, FALSE)>>}
=============================================================================
