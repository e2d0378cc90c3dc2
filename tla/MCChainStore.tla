--------------------------- MODULE MCChainStore ---------------------------
(* Instances of ChainStore for TLC.                                       *)
EXTENDS ChainStore

CONSTANTS replacer, plain, worker1, users, daily

T(kind, live, params) == [kind |-> kind, live |-> live, params |-> params]
C(name, schedule, max, tasks) ==
    [name |-> name, schedule |-> schedule, live |-> TRUE, max |-> max, tasks |-> tasks]

\* One importer replaces the user's chain.  The other brings a new chain and one of that
\* name, which only the database refuses, or the validation, or which are both good; or a file
\* without chains.
Users(schedule, tasks) == C(users, schedule, 1, tasks)
Daily(kind) == C(daily, "accepted", 0, <<T(kind, "false", 0)>>)
Short == <<T("SQL", "true", 0)>>

FilesOf(first, second) == [i \in {replacer, plain} |-> IF i = replacer THEN first ELSE second]
UsersFile == <<Users("accepted", <<T("", "", 1), T("SQL", "", 0)>>)>>
PlainFiles ==
    {<<Daily(""), Users("accepted", Short)>>, <<Daily("sql"), Users("accepted", Short)>>,
     <<Daily(""), Users("out_of_range", Short)>>}
RefusedFile == <<Daily(""), Users("four_fields", Short)>>

\* One call while both files are imported, or while one is that replaces the user's chain,
\* whose tasks the call may move; or no files and calls that overlap each other.
MCSetups ==
    {[file |-> FilesOf(UsersFile, f), orders |-> <<10>>, edits |-> 1] : f \in PlainFiles}
    \cup
    {[file |-> FilesOf(UsersFile, RefusedFile), orders |-> <<10, 20>>, edits |-> 1]}
    \cup
    {[file |-> FilesOf(<<>>, <<>>), orders |-> o, edits |-> 3] :
       o \in {<<10, 20, 30>>, <<10, 10, 20>>}}
MCReplace == [i \in {replacer, plain} |-> i = replacer]
MCJob == C(users, "accepted", 1, <<T("SQL", "", 1)>>)
=============================================================================
