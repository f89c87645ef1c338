--------------------------- MODULE MCRecentRctime ---------------------------
(* PATH holds directories 1 and 2 and a file 3; 1 holds a directory with a    *)
(* file in it and a file; 2 a file.                                           *)
EXTENDS RecentRctime

MCPath == {<<>>, <<1>>, <<2>>, <<3>>, <<1, 1>>, <<1, 1, 1>>, <<1, 2>>, <<2, 1>>}
MCDir == {<<>>, <<1>>, <<2>>, <<1, 1>>}
MCFleeting == {<<1, 1>>}

Tree(recent, changed, denied) == [recent |-> recent, changed |-> changed, denied |-> denied]

\* The recursive ctime of 1 lags behind in the last.
Undenied ==
  {Tree({<<>>, <<1>>, <<1, 1>>}, {<<1, 1, 1>>, <<1, 1>>, <<3>>}, {}),
   Tree({<<>>, <<1>>, <<2>>}, {<<>>, <<2, 1>>, <<1, 2>>}, {}),
   Tree({<<>>, <<2>>}, {<<2, 1>>, <<1, 2>>}, {})}

\* A directory cannot be entered, or its attributes not read, or a path not looked at.
Denied ==
  {Tree({<<>>, <<1>>, <<1, 1>>}, {<<1, 1, 1>>, <<3>>}, {denial}) :
     denial \in {<<"scandir", <<1>>>>, <<"getxattr", <<1, 1>>>>, <<"stat", <<2>>>>}}

MCTrees == Undenied \union Denied
=============================================================================
