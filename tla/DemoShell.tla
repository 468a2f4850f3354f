------------------------------ MODULE DemoShell ------------------------------
(***************************************************************************)
(* The shell of the landing page, web/src/app/page.tsx: a file system kept *)
(* in memory, the commands that work on it and runShell, which runs a line *)
(* of them.                                                                *)
(*                                                                         *)
(* JavaScript objects are shared by reference, so the file system is a     *)
(* graph of nodes: fs gives the kind and the children of each, and a child *)
(* is a node, not a copy of one.  The commands are meant to keep it a      *)
(* tree.  A path is what resolvePath makes of it, the names below the home *)
(* directory: << >> is "~".  The text of a file, the output of a command,  *)
(* aliases and variables are left out; a match of grep is an input.        *)
(***************************************************************************)
EXTENDS Naturals, Sequences, SequencesExt, FiniteSets

CONSTANTS
  Names,     \* names of files and directories
  Nodes,     \* bound on the nodes: the objects there is room for
  Tree,      \* INITIAL_FS
  StartDir,  \* the first working directory
  MaxLines,  \* bound on the lines that are typed
  Lines      \* what may be typed

Root == 1
None == 0    \* null
Home == "~"  \* the name getParent gives to the home directory

Kinds == {"file", "dir", "unused"}
Keys  == Names \cup {Home}

ASSUME ShellAssumption ==
  /\ Nodes \subseteq Nat \ {None} /\ Root \in Nodes /\ Home \notin Names
  /\ StartDir \in Seq(Names) /\ MaxLines \in Nat
  /\ \A n \in Nodes : /\ Tree[n].kind \in Kinds
                      /\ DOMAIN Tree[n].kids \subseteq Names

VARIABLES
  fs,    \* fsRef: kind and children of every node
  cwd,   \* the working directory
  typed  \* how many lines have been typed

vars == <<fs, cwd, typed>>

-----------------------------------------------------------------------------
(* Nodes and links *)

Unused == [kind |-> "unused", kids |-> << >>]

Dir(f, n) == n # None /\ f[n].kind = "dir"

Child(f, d, name) == IF name \in DOMAIN f[d].kids THEN f[d].kids[name] ELSE None

Link(f, d, name, n) ==
  [f EXCEPT ![d].kids =
     [k \in DOMAIN @ \cup {name} |-> IF k = name THEN n ELSE @[k]]]

Unlink(f, d, name) == [f EXCEPT ![d].kids = Restrict(@, DOMAIN @ \ {name})]

\* What can be reached from a set of nodes, the set included.
RECURSIVE Below(_, _)
Below(f, S) ==
  LET T == S \cup UNION {Range(f[n].kids) : n \in S}
  IN  IF T = S THEN S ELSE Below(f, T)

\* A walk from n never ends: walkTree, cloneNode and the walk of tree recurse
\* until the stack is full, and throw.
Endless(f, n) == \E m \in Below(f, {n}) : m \in Below(f, Range(f[m].kids))

Room(f) == SetToSortSeq({n \in Nodes : f[n].kind = "unused"}, <)

\* What nothing refers to any more is collected.
Collect(f) ==
  [n \in Nodes |-> IF n \in Below(f, {Root}) THEN f[n] ELSE Unused]

-----------------------------------------------------------------------------
(* Operations on the file system.  Each gives the file system it leaves    *)
(* and how it ended: ok, with an error, with an exception, or out of room. *)

Ok(f)    == [fs |-> f, end |-> "ok"]
Error(f) == [fs |-> f, end |-> "error"]
Ended(r) == r.end \in {"throws", "full"}

resolvePath(dir, target) ==
  FoldLeft(LAMBDA p, part : CASE part = "."  -> p
                              [] part = ".." -> IF p = << >> THEN p ELSE Front(p)
                              [] part = Home -> << >>
                              [] OTHER       -> Append(p, part),
           dir, target)

getNode(f, path) ==
  FoldLeft(LAMBDA n, name : IF n = None THEN None ELSE Child(f, n, name),
           Root, path)

\* getParent: the parent of the home directory is the home directory.
ParentOf(f, path) ==
  LET d == getNode(f, IF path = << >> THEN path ELSE Front(path))
  IN  IF Dir(f, d) THEN d ELSE None

NameOf(path) == IF path = << >> THEN Home ELSE Last(path)

Create(f, d, name, kind) ==
  IF Room(f) = << >> THEN [fs |-> f, end |-> "full"]
  ELSE LET n == Head(Room(f))
       IN  Ok(Link([f EXCEPT ![n] = [kind |-> kind, kids |-> << >>]], d, name, n))

writeFile(f, path) ==
  LET d == ParentOf(f, path)
  IN  IF d = None THEN Error(f)
      ELSE LET old == Child(f, d, NameOf(path))
           IN  IF old = None THEN Create(f, d, NameOf(path), "file")
               ELSE IF Dir(f, old) THEN Error(f) ELSE Ok(f)

makeDirAt(f, path, recursive) ==
  FoldLeftDomain(
    LAMBDA r, i :
      LET d   == getNode(r.fs, SubSeq(path, 1, i - 1))
          old == Child(r.fs, d, path[i])
      IN  IF r.end # "ok" THEN r
          ELSE IF old # None THEN IF Dir(r.fs, old) THEN r ELSE Error(r.fs)
          ELSE IF ~recursive /\ i # Len(path) THEN Error(r.fs)
          ELSE Create(r.fs, d, path[i], "dir"),
    Ok(f), path)

removeNode(f, path, recursive) ==
  LET d == ParentOf(f, path)
      n == IF d = None THEN None ELSE Child(f, d, NameOf(path))
  IN  IF n = None \/ (Dir(f, n) /\ ~recursive) THEN Error(f)
      ELSE Ok(Unlink(f, d, NameOf(path)))

\* Mutant: { ...node } alone, which shares the children.
CloneShallow(f, n) ==
  IF Room(f) = << >> THEN [fs |-> f, end |-> "full", node |-> None]
  ELSE [fs |-> [f EXCEPT ![Head(Room(f))] = f[n]], end |-> "ok", node |-> Head(Room(f))]

\* A copy of everything below n, in nodes of its own.
cloneNode(f, n) ==
  LET old  == SetToSortSeq(Below(f, {n}), <)
      room == Room(f)
      new  == [m \in Range(old) |-> room[CHOOSE i \in DOMAIN old : old[i] = m]]
      copy == [m \in Range(old) |->
                 [f[m] EXCEPT !.kids = [k \in DOMAIN @ |-> new[@[k]]]]]
  IN  IF Endless(f, n) THEN [fs |-> f, end |-> "throws", node |-> None]
      ELSE IF Len(old) > Len(room) THEN [fs |-> f, end |-> "full", node |-> None]
      ELSE [fs   |-> [m \in Nodes |-> IF \E o \in Range(old) : new[o] = m
                                      THEN copy[CHOOSE o \in Range(old) : new[o] = m]
                                      ELSE f[m]],
            end  |-> "ok",
            node |-> new[n]]

\* A destination that is a directory is entered into its parent again: for the
\* home directory, its own parent, that is a link to itself.
copyNode(f, src, dest, recursive) ==
  LET s      == getNode(f, src)
      d      == getNode(f, dest)
      parent == ParentOf(f, dest)
      linked == IF Dir(f, d) THEN Link(f, parent, NameOf(dest), d) ELSE f
      c      == cloneNode(linked, s)
  IN  IF s = None \/ (Dir(f, s) /\ ~recursive) \/ parent = None THEN Error(f)
      ELSE IF Ended(c) THEN [fs |-> linked, end |-> c.end]
      ELSE Ok(IF Dir(f, d) THEN Link(c.fs, d, NameOf(src), c.node)
                           ELSE Link(c.fs, parent, NameOf(dest), c.node))

\* Mutant: a destination that is a directory is replaced.
MoveOver(f, src, dest) ==
  LET s      == getNode(f, src)
      parent == ParentOf(f, dest)
  IN  IF s = None \/ parent = None THEN Error(f)
      ELSE Ok(Unlink(Link(f, parent, NameOf(dest), s), ParentOf(f, src), NameOf(src)))

\* The link is removed after the new one is made, also where the two are one.
moveNode(f, src, dest) ==
  LET s      == getNode(f, src)
      into   == Dir(f, getNode(f, dest))
      parent == IF into THEN getNode(f, dest) ELSE ParentOf(f, dest)
      name   == IF into THEN NameOf(src) ELSE NameOf(dest)
  IN  IF s = None \/ parent = None THEN Error(f)
      ELSE Ok(Unlink(Link(f, parent, name, s), ParentOf(f, src), NameOf(src)))

-----------------------------------------------------------------------------
(* Commands: a name, operands (the parts of each path, an absolute one     *)
(* starts with "~") and options; ls, tree and find without an operand have  *)
(* ".".  The state while a line runs is the file system, the directory, the *)
(* exit code and whether it goes on.                                       *)

Path(s, target) == resolvePath(s.cwd, target)
Node(s, target) == getNode(s.fs, Path(s, target))

\* The loop of a command over its operands: an error is remembered.
ForEach(s, operands, Op(_, _)) ==
  LET r == FoldLeft(LAMBDA acc, t :
                      IF Ended(acc) THEN acc
                      ELSE LET o == Op(acc.fs, Path(s, t))
                           IN  [fs  |-> o.fs,
                                end |-> IF o.end = "ok" THEN acc.end ELSE o.end],
                    Ok(s.fs), operands)
  IN  [s EXCEPT !.fs = r.fs, !.exit = IF r.end = "error" THEN 1 ELSE 0,
                !.run = IF Ended(r) THEN r.end ELSE @]

Exit(s, code) == [s EXCEPT !.exit = code]

cd(s, c) ==
  IF Dir(s.fs, Node(s, c.args[1]))
  THEN [s EXCEPT !.cwd = Path(s, c.args[1]), !.exit = 0]
  ELSE Exit(s, 1)

mkdir(s, c) ==
  ForEach(s, c.args, LAMBDA f, p :
    IF getNode(f, p) = None THEN makeDirAt(f, p, "p" \in c.opts)
    ELSE IF "p" \in c.opts THEN Ok(f) ELSE Error(f))

touch(s, c) ==
  ForEach(s, c.args, LAMBDA f, p :
    IF getNode(f, p) = None THEN writeFile(f, p) ELSE Ok(f))

rm(s, c) ==
  ForEach(s, c.args, LAMBDA f, p :
    LET r == removeNode(f, p, "r" \in c.opts)
    IN  IF "f" \in c.opts THEN Ok(r.fs) ELSE r)

mv(s, c) ==
  ForEach(s, Front(c.args), LAMBDA f, p : moveNode(f, p, Path(s, Last(c.args))))

cp(s, c) ==
  ForEach(s, Front(c.args), LAMBDA f, p :
    copyNode(f, p, Path(s, Last(c.args)), "r" \in c.opts))

\* Every operand that does not exist is an error.
ls(s, c) ==
  Exit(s, IF \E t \in Range(c.args) : Node(s, t) = None THEN 1 ELSE 0)

\* stat and file look at their first operand only.
stat(s, c) == Exit(s, IF Node(s, c.args[1]) = None THEN 1 ELSE 0)

file(s, c) == stat(s, c)

IsFile(s, target) == Node(s, target) # None /\ ~Dir(s.fs, Node(s, target))

\* Every operand that is not a file is an error; without one, stdin is read.
cat(s, c) == Exit(s, IF \A t \in Range(c.args) : IsFile(s, t) THEN 0 ELSE 1)

\* head, tail and wc go on after an operand that is not a file, sort, uniq and
\* cut stop at it; the exit code is the same.
filter(s, c) == Exit(s, IF \E t \in Range(c.args) : ~IsFile(s, t) THEN 1 ELSE 0)

\* tr and sed work on stdin; whether their operands are valid is an input.
edit(s, c) == Exit(s, IF "invalid" \in c.opts THEN 1 ELSE 0)

\* The walk of all that is below a node.
Walk(s, n) ==
  IF n = None THEN Exit(s, 1)
  ELSE IF Endless(s.fs, n) THEN [s EXCEPT !.run = "throws"] ELSE Exit(s, 0)

tree(s, c) == Walk(s, Node(s, c.args[1]))

find(s, c) == Walk(s, Node(s, c.args[1]))

\* grep: an error is a line of output too, and any output is a success.
grep(s, c) ==
  LET walked == {Node(s, t) : t \in Range(c.args)} \ {None}
      failed == \E t \in Range(c.args) :
                  Node(s, t) = None \/ (Dir(s.fs, Node(s, t)) /\ "r" \notin c.opts)
  IN  IF "r" \in c.opts /\ \E n \in walked : Endless(s.fs, n)
      THEN [s EXCEPT !.run = "throws"]
      ELSE Exit(s, IF failed \/ "hit" \in c.opts THEN 0 ELSE 1)

\* The commands that only print, by their exit code: all but these succeed, and
\* "false" stands for one whose operands are refused.
PrintExit(name) == CASE name = "false" -> 1
                     [] name = "make"  -> 2
                     [] name = "ssh"   -> 255
                     [] name = "nosuch" -> 127
                     [] OTHER -> 0

runCommandTokens(s, c) ==
  CASE c.do = "cd"    -> cd(s, c)
    [] c.do = "mkdir" -> mkdir(s, c)
    [] c.do = "touch" -> touch(s, c)
    [] c.do = "rm"    -> rm(s, c)
    [] c.do = "mv"    -> mv(s, c)
    [] c.do = "cp"    -> cp(s, c)
    [] c.do = "grep"  -> grep(s, c)
    [] c.do = "ls"    -> ls(s, c)
    [] c.do = "cat"   -> cat(s, c)
    [] c.do = "tree"  -> tree(s, c)
    [] c.do = "find"  -> find(s, c)
    [] c.do = "stat"  -> stat(s, c)
    [] c.do = "file"  -> file(s, c)
    [] c.do \in {"tr", "sed"} -> edit(s, c)
    [] c.do \in {"head", "tail", "wc", "sort", "uniq", "cut"} -> filter(s, c)
    [] OTHER -> Exit(s, PrintExit(c.do))

-----------------------------------------------------------------------------
(* A line: lists separated by ";" of pipelines chained by "&&" of commands *)
(* joined by "|", each with the path it is redirected to, if it has one.   *)

\* The output is written whether or not the command failed, and its success
\* is the command's.
Redirect(s, c) ==
  IF c.to = << >> \/ s.run # "on" THEN s
  ELSE ForEach(s, c.to, writeFile)

Pipeline(s, parts) ==
  FoldLeftDomain(
    LAMBDA acc, i :
      LET after == runCommandTokens(acc, parts[i])
      IN  IF acc.run # "on" \/ (i > 1 /\ acc.exit # 0) THEN acc
          ELSE IF i = Len(parts) THEN Redirect(after, parts[i]) ELSE after,
    s, parts)

AndList(s, pipelines) ==
  FoldLeftDomain(
    LAMBDA acc, i : IF acc.run # "on" \/ (i > 1 /\ acc.exit # 0) THEN acc
                    ELSE Pipeline(acc, pipelines[i]),
    s, pipelines)

runShell(line) ==
  FoldLeft(LAMBDA s, list : IF s.run # "on" THEN s ELSE AndList(s, list),
           [fs |-> fs, cwd |-> cwd, exit |-> 0, run |-> "on"], line)

\* handleCommand.  After an exception the file system is what it was made, and
\* nothing else of the line is done.  A line that needs more nodes than there
\* are is beyond the bound.
handleCommand(line) ==
  LET s == runShell(line)
  IN  /\ s.run # "full"
      /\ typed < MaxLines /\ typed' = typed + 1
      /\ fs' = Collect(s.fs)
      /\ cwd' = IF s.run = "throws" THEN cwd ELSE s.cwd

Init == fs = Tree /\ cwd = StartDir /\ typed = 0

Next == \E line \in Lines : handleCommand(line)

Spec == Init /\ [][Next]_vars

-----------------------------------------------------------------------------
(* Properties *)

\* Copies and moves keep the file system a tree but for one node.  Whatever is
\* reached, other than the home directory, hangs by exactly one link, so that
\* a change of one file is never a change of another, and a walk can only run
\* in circles through the home directory (cloneNode copies every node below
\* the source; moveNode removes the old link).
OnlyHomeIsShared ==
  LET live == Below(fs, {Root})
  IN  \A n \in live \ {Root} :
        /\ fs[n].kind # "unused"
        /\ Cardinality({l \in live \X Keys : Child(fs, l[1], l[2]) = n}) = 1

\* The commands that are a line of their own.
Single == {line[1][1][1] : line \in {l \in Lines : Len(l) = 1 /\ Len(l[1]) = 1
                                                  /\ Len(l[1][1]) = 1}}

\* Where mv and cp put their source: the directory and the name in it.
Place(s, c) ==
  LET src == Path(s, c.args[1]) dest == Path(s, c.args[2])
  IN  IF Dir(s.fs, getNode(s.fs, dest))
      THEN [dir |-> getNode(s.fs, dest), name |-> NameOf(src)]
      ELSE [dir |-> ParentOf(s.fs, dest), name |-> NameOf(dest)]

Files(f) == {n \in Below(f, {Root}) : f[n].kind = "file"}

\* A command that works on one path, or from one to another, loses only what
\* it is about: rm what is at its operand, cp and mv what was at the place they
\* put their source (cp also a file that a redirection to "~" has made, where
\* it links the home directory to itself), and every other command nothing.
\* What mv puts elsewhere, not where it is already nor below itself, is found
\* at the new place.
CommandsKeepFiles ==
  LET now == [fs |-> fs, cwd |-> cwd, exit |-> 0, run |-> "on"]
  IN  \A c \in Single :
        LET after == Redirect(runCommandTokens(now, c), c)
            lost  == Files(fs) \ Files(after.fs)
            src   == Node(now, c.args[1])
            place == Place(now, c)
            over  == IF place.dir = None THEN None ELSE Child(fs, place.dir, place.name)
            there == IF over = None THEN {} ELSE Below(fs, {over})
            self  == \/ place = [dir  |-> ParentOf(fs, Path(now, c.args[1])),
                                 name |-> NameOf(Path(now, c.args[1]))]
                     \/ place.dir \in Below(fs, {src})
        IN  \/ after.run = "full"
            \/ CASE c.do = "rm" /\ Len(c.args) = 1 ->
                      src = None \/ lost \subseteq Below(fs, {src})
                 [] c.do = "cp" /\ Len(c.args) = 2 ->
                      lost \subseteq there \cup {Child(fs, Root, Home)}
                 [] c.do = "mv" /\ Len(c.args) = 2 ->
                      IF after.exit # 0 THEN lost = {}
                      ELSE \/ self
                           \/ /\ lost \subseteq there
                              /\ Child(after.fs, place.dir, place.name) = src
                 [] c.do \notin {"rm", "cp", "mv"} -> lost = {}
                 [] OTHER -> TRUE
=============================================================================
