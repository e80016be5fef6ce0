------------------------- MODULE MCFileSystemAdapter -------------------------
EXTENDS FileSystemAdapter, TLC

\* A root with a file, and beside it nothing, or a directory of the plan.
File == <<"f", 0>>
Dir == <<"d", 0>>
MCTrees == {(<<>> :> "dir") @@ (<<File>> :> "file"),
            (<<>> :> "dir") @@ (<<Dir>> :> "dir") @@ (<<Dir, File>> :> "file")}
MCPlans == {<<<<Dir>>, <<Dir, <<"e", 0>>>>>>}
=============================================================================
