----------------------------- MODULE MCDemoShell -----------------------------
\* DemoShell for TLC: a directory in the working directory's place, with a file
\* and a directory in it, and every file command over a few paths.
EXTENDS DemoShell, TLC

MCTree ==
  [n \in Nodes |->
     CASE n = 1 -> [kind |-> "dir",  kids |-> "a" :> 2]
       [] n = 2 -> [kind |-> "dir",  kids |-> "a" :> 3 @@ "b" :> 4]
       [] n = 3 -> [kind |-> "file", kids |-> << >>]
       [] n = 4 -> [kind |-> "dir",  kids |-> << >>]
       [] OTHER -> Unused]

MCStartDir == <<"a">>

Paths == {<<"~">>, <<".">>, <<"..">>, <<"a">>, <<"b">>, <<"a", "b">>, <<"~", "a">>}

Cmd(do, args, opts) == [do |-> do, args |-> args, opts |-> opts, to |-> << >>]

MCCommands ==
       {Cmd(do, <<p>>, {}) : do \in {"cd", "ls", "cat", "tree", "mkdir", "touch", "rm"},
                             p \in Paths}
  \cup {Cmd("mkdir", <<p>>, {"p"}) : p \in Paths}
  \cup {Cmd("rm", <<p>>, {"r"}) : p \in Paths}
  \cup {Cmd(do, <<p, q>>, {}) : do \in {"mv", "cp"}, p \in Paths, q \in Paths}
  \cup {Cmd("cp", <<p, q>>, {"r"}) : p \in Paths, q \in Paths}
  \cup {Cmd(do, <<p>>, {"r"}) : do \in {"grep", "find", "stat", "sort"},
                                p \in {<<".">>, <<"b">>}}
  \cup {[Cmd("cat", <<p>>, {}) EXCEPT !.to = <<q>>] : p \in {<<"a">>}, q \in Paths}

\* Two sources, and two commands in a line.
MCLists ==
  LET first == {Cmd("cd", <<p>>, {}) : p \in {<<"a">>, <<"..">>}}
               \cup {[Cmd("cat", <<p>>, {}) EXCEPT !.to = to] :
                       p \in {<<"a">>, <<"b">>}, to \in {<< >>, <<<<"b">>>>}}
               \cup {Cmd("ssh", << >>, {}), Cmd("sed", << >>, {"invalid"}),
                      Cmd("file", <<<<"b">>>>, {}), Cmd("tree", <<<<"~">>>>, {})}
      then  == {Cmd("rm", <<<<"a">>, <<"b">>>>, {"r", "f"}),
                Cmd("mv", <<<<"a">>, <<"b">>, <<"~">>>>, {}),
                Cmd("grep", <<<<"a">>>>, {"hit"})}
  IN  UNION {{<< <<<<x>>, <<y>>>> >>,      \* x && y
              << <<<<x>>>>, <<<<y>>>> >>,  \* x ; y
              << <<<<x, y>>>> >>}          \* x | y
             : x \in first, y \in then}

MCLines == {<< <<<<c>>>> >> : c \in MCCommands} \cup MCLists
=============================================================================
