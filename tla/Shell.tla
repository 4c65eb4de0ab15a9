-------------------------------- MODULE Shell --------------------------------
(***************************************************************************)
(* The shell kai and the programs it starts: lines split into words, paths *)
(* resolved by the shell and by the kernel, the environment kept in the    *)
(* shell and handed to a child, and what ls and cat then find.             *)
(*                                                                         *)
(* A shell waits for the program that it started, which may be another     *)
(* shell, so the shells form a stack and the last one runs.  The files do  *)
(* not change.  A path is a sequence of names and "/"; a name is one       *)
(* symbol.  Memory does not run out (UserMalloc).  The shell's wd, which   *)
(* it shows only when PWD is not set, is left out.                         *)
(***************************************************************************)
EXTENDS Integers, Sequences, SequencesExt

CONSTANTS
    Entries,        \* of each directory: its entries, in order, with their inodes
    Programs,       \* inodes of the files with an ELF header
    KAI_TOKENS_MAX, \* components of a path, and words of a line (31)
    Cap,            \* entries that readdir makes room for at first (16)
    Null,           \* a null pointer
    Words,          \* bound: the words typed after a command
    MaxShells       \* bound: shells waiting for each other

Root == 2
Dirs == DOMAIN Entries
NoNode == 0

ASSUME ShellAssumption ==
    /\ Root \in Dirs /\ NoNode \notin Dirs \cup Programs
    /\ Programs \cap Dirs = {}
    /\ {KAI_TOKENS_MAX, Cap, MaxShells} \subseteq Nat \ {0}
    \* strsplit's array holds the components of a word.
    /\ \A w \in Words : Len(SelectSeq(w, LAMBDA c : c # "/")) <= KAI_TOKENS_MAX

VARIABLES
    shells,     \* environ of the running shells
    child,      \* the program being started, see elf_load; or NoChild
    out         \* what the last command came to

vars == <<shells, child, out>>

NoChild == [pc |-> "none"]

-----------------------------------------------------------------------------
(* Paths, in the kernel *)

\* kstrsplit: every "/" ends a segment, also an empty one; the rest is one more
\* unless it is empty.
kstrsplit(s) ==
    LET step(acc, c) == IF c = "/" THEN [segs |-> Append(acc.segs, acc.cur), cur |-> ""]
                        ELSE [acc EXCEPT !.cur = c]
        end == FoldLeft(step, [segs |-> <<>>, cur |-> ""], s)
    IN  IF end.cur = "" THEN end.segs ELSE Append(end.segs, end.cur)

\* __fs_ext2_find_in_dir, and fs_ext2_list_dir that refuses what is no directory.
find_in_dir(d, name) ==
    IF d \notin Dirs THEN NoNode
    ELSE LET at == {i \in DOMAIN Entries[d] : Entries[d][i].name = name}
         IN  IF at = {} THEN NoNode ELSE Entries[d][CHOOSE i \in at : \A j \in at : i <= j].node

Walk(d, names) == FoldLeft(find_in_dir, d, names)

\* fs_ext2_resolve_path: a relative path starts at the root, too.
resolve_path(path) ==
    IF path = <<"/">> THEN Root
    ELSE LET names == kstrsplit(path)
         IN  Walk(Root, IF path[1] = "/" THEN Tail(names) ELSE names)

-----------------------------------------------------------------------------
(* The user library *)

\* strsplit with "/": what strtok finds, which are no empty components.
strsplit(s) == SelectSeq(s, LAMBDA c : c # "/")

\* The strings of an array before its null pointer.
Strings(a) == SubSeq(a, 1, (CHOOSE i \in DOMAIN a : a[i] = Null /\ \A j \in 1..(i - 1) : a[j] # Null) - 1)

\* getenv: the value of the first variable of the name, Null for none.
getenv(environ, name) ==
    LET env == Strings(environ)
        at  == {i \in DOMAIN env : env[i].name = name}
    IN  IF at = {} THEN Null ELSE env[CHOOSE i \in at : \A j \in at : i <= j].value

\* setenv: a new array, without the last variable of the name, and the new one.
setenv(environ, name, value) ==
    LET env  == Strings(environ)
        at   == {i \in DOMAIN env : env[i].name = name}
        kept == IF at = {} THEN env
                ELSE RemoveAt(env, CHOOSE i \in at : \A j \in at : j <= i)
    IN  kept \o <<[name |-> name, value |-> value], Null>>

\* __syscall_readdir: as many entries as there is room for, -1 for no directory.
readdir_raw(path, room) ==
    LET d == resolve_path(path)
    IN  IF d \notin Dirs THEN [n |-> -1, names |-> <<>>]
        ELSE LET n == IF Len(Entries[d]) < room THEN Len(Entries[d]) ELSE room
             IN  [n |-> n, names |-> [i \in 1..n |-> Entries[d][i].name]]

\* Mutant: a buffer that is just full is taken for the whole directory.
Enough_when_full(n, room) == n <= room

\* readdir is done with a buffer that has not been filled.
Enough(n, room) == n < room

\* readdir: twice the room, as often as the buffer is full.
readdir(path) ==
    LET tries == {k \in 0..10 : Enough(readdir_raw(path, Cap * 2^k).n, Cap * 2^k)}
        k     == CHOOSE k \in tries : \A j \in tries : k <= j
    IN  readdir_raw(path, Cap * 2^k)

-----------------------------------------------------------------------------
(* The shell *)

Top      == Len(shells)
Running  == child = NoChild /\ shells # <<>>
Env(i)   == shells[i]
Pwd(i)   == getenv(Env(i), "PWD")

\* The components of a target added to those of a directory.
Components(base, target) ==
    LET step(comp, c) == IF c = "." THEN comp
                         ELSE IF c = ".." THEN IF comp = <<>> THEN comp ELSE Front(comp)
                         ELSE IF Len(comp) < KAI_TOKENS_MAX THEN Append(comp, c) ELSE comp
    IN  FoldLeft(step, base, target)

\* The path "/c1/c2/..." as resolve writes it.
Joined(comp) ==
    IF comp = <<>> THEN <<"/">>
    ELSE FoldLeft(LAMBDA acc, c : acc \o <<"/", c>>, <<>>, comp)

\* Mutant: a target is always taken from the working directory.
cd_resolve_relative(pwd, target) == Joined(Components(strsplit(pwd), strsplit(target)))

\* __builtin_cd__resolve.
cd_resolve(pwd, target) ==
    LET base == IF target[1] = "/" THEN <<>> ELSE strsplit(IF pwd = Null THEN <<"/">> ELSE pwd)
    IN  Joined(Components(base, strsplit(target)))

\* Mutant: PWD is set before the directory has been looked at.
cd_unchecked(i, path) == [shells EXCEPT ![i] = setenv(@, "PWD", path)]

\* __builtin_cd with a resolved path: PWD changes if readdir succeeds.
Changed(i, path) ==
    IF readdir(path).n < 0 THEN shells ELSE [shells EXCEPT ![i] = setenv(@, "PWD", path)]

\* cd with a word.
cd(target) ==
    /\ Running
    /\ shells' = Changed(Top, cd_resolve(Pwd(Top), target))
    /\ out' = [cmd |-> "cd", word |-> target]
    /\ UNCHANGED child

\* cd without a word: to $HOME.
cd_home ==
    /\ Running
    /\ LET home == getenv(Env(Top), "HOME")
       IN  /\ shells' = IF home = Null THEN shells ELSE Changed(Top, cd_resolve(Pwd(Top), home))
           /\ out' = IF home = Null THEN [cmd |-> "none"] ELSE [cmd |-> "cd", word |-> home]
    /\ UNCHANGED child

\* elf_load copies the strings of argv and of the environment into the kernel.
elf_load(bin, argv, environ) ==
    [pc |-> "starting", bin |-> bin, argv |-> argv, env |-> Strings(environ),
     given |-> <<argv, Strings(environ)>>]

\* exec of a command that is not built in: /bin/command with the words typed.
\* With no such file exec returns -1 and the shell says so.
exec(cmd, args) ==
    LET path == <<"/", "bin", "/", cmd>>
        bin  == resolve_path(path)
    IN  /\ Running
        /\ bin \in Programs \cup {NoNode}
        /\ child' = IF bin = NoNode THEN NoChild ELSE elf_load(cmd, <<path>> \o args, Env(Top))
        /\ out' = [cmd |-> "none"]
        /\ UNCHANGED shells

\* Mutant: the pointers are pushed first to last, as the strings are.
Layout_first_to_last(argv, env) == Reverse(argv) \o <<Null>> \o Reverse(env) \o <<Null>>

\* The scheduler's layout at the top of the child's stack, from argv[0] up.
Layout(argv, env) == argv \o <<Null>> \o env \o <<Null>>

\* _start: argv is the strings from esp on, environ begins behind their null.
start ==
    /\ child.pc = "starting"
    /\ LET stack == Layout(child.argv, child.env)
           argv  == Strings(stack)
       IN  child' = [child EXCEPT !.pc = "main", !.argv = argv,
                                  !.env = SubSeq(stack, Len(argv) + 2, Len(stack))]
    /\ UNCHANGED <<shells, out>>

\* kai's main until its first prompt.
NewShell(environ) ==
    LET user == <<"/", "user">>
    IN  setenv(setenv(environ, "PWD", user), "HOME", user)

kai_main ==
    /\ child.pc = "main" /\ child.bin = "kai"
    /\ Len(shells) < MaxShells
    /\ shells' = Append(shells, NewShell(child.env))
    /\ child' = NoChild
    /\ out' = [cmd |-> "kai"]

\* ls: the directory given, or the working directory.
ls_main ==
    /\ child.pc = "main" /\ child.bin = "ls"
    /\ LET argv == child.argv
           path == IF Len(argv) > 1 THEN argv[2] ELSE getenv(child.env, "PWD")
           r    == readdir(path)
       IN  out' = [cmd |-> "ls", words |-> Tail(argv), ok |-> r.n >= 0, names |-> r.names]
    /\ child' = NoChild
    /\ UNCHANGED shells

\* cat's __get_full_path.
get_full_path(file, wd) ==
    LET w == IF wd = Null THEN <<"/">> ELSE wd
    IN  (IF Last(w) # "/" THEN Append(w, "/") ELSE w) \o file

\* cat, up to the file that it opens.
cat_main ==
    /\ child.pc = "main" /\ child.bin = "cat"
    /\ LET argv == child.argv
           path == IF argv[2][1] = "/" THEN argv[2] ELSE get_full_path(argv[2], getenv(child.env, "PWD"))
       IN  out' = IF Len(argv) < 2 THEN [cmd |-> "none"]
                  ELSE [cmd |-> "cat", words |-> Tail(argv), node |-> resolve_path(path)]
    /\ child' = NoChild
    /\ UNCHANGED shells

\* The built-in exit: the shell before it, or genkan, goes on.
exit ==
    /\ Running
    /\ shells' = Front(shells)
    /\ out' = [cmd |-> "exit"]
    /\ UNCHANGED child

\* genkan, started with neither arguments nor environment, has started a shell.
Init ==
    /\ shells = <<>>
    /\ child = elf_load("kai", <<>>, <<Null>>)
    /\ out = [cmd |-> "none"]

Next ==
    \/ \E w \in Words : cd(w)
    \/ cd_home
    \/ \E cmd \in {"ls", "cat", "kai", "none"}, args \in {<<>>} \cup {<<w>> : w \in Words} : exec(cmd, args)
    \/ start \/ kai_main \/ ls_main \/ cat_main
    \/ exit

Spec == Init /\ [][Next]_vars

-----------------------------------------------------------------------------
\* A word without empty components, which the kernel would look up.
Plain(w) == LET segs == kstrsplit(w) IN
    \A i \in DOMAIN segs : segs[i] = "" => i = 1 /\ w[1] = "/"

\* Where a word leads from the directory of a working path, entry by entry.
Leads(pwd, w) == Walk(IF w[1] = "/" THEN Root ELSE Walk(Root, strsplit(pwd)), strsplit(w))

\* PWD and HOME of every shell stand once in its environment, and PWD is a
\* directory's path without ".", ".." or an empty component: also after a cd that
\* failed, and in a shell started from another.
PwdIsDirectory ==
    \A i \in DOMAIN shells :
        /\ \A name \in {"PWD", "HOME"} :
              \E j \in DOMAIN Strings(Env(i)) : \A k \in DOMAIN Strings(Env(i)) :
                    Strings(Env(i))[k].name = name <=> k = j
        /\ Pwd(i) = Joined(strsplit(Pwd(i)))
        /\ \A c \in DOMAIN strsplit(Pwd(i)) : strsplit(Pwd(i))[c] \notin {".", ".."}
        /\ resolve_path(Pwd(i)) \in Dirs

\* The shell, which resolves ".." in the text of a path, goes where the kernel's
\* directory entries lead: a cd to a word that leads to a directory ends there,
\* unless the path has more components than the shell's array.
CdFollowsEntries ==
    [][(out'.cmd = "cd" /\ Leads(Pwd(Top), out'.word) \in Dirs
            /\ Len(strsplit(Pwd(Top))) + Len(strsplit(out'.word)) <= KAI_TOKENS_MAX)
          => resolve_path(getenv(shells'[Top], "PWD")) = Leads(Pwd(Top), out'.word)]_vars

\* A program's main gets the words and the environment that its parent had when
\* it called exec, through the kernel's copies, the child's stack and _start.
ChildSeesArgs ==
    child.pc = "main" => child.given = <<child.argv, Strings(child.env)>>

\* ls shows every entry of the directory, however many there are, and cat opens
\* the file, that the words lead to from the shell's PWD.  (A relative word of ls
\* starts at the root.)
UtilitiesFollowPwd ==
    (shells # <<>> /\ out.cmd \in {"ls", "cat"} /\ \A i \in DOMAIN out.words : Plain(out.words[i])) =>
        LET pwd  == Pwd(Top)
            node == IF out.words = <<>> THEN Walk(Root, strsplit(pwd))
                    ELSE Leads(IF out.cmd = "ls" THEN <<"/">> ELSE pwd, out.words[1])
        IN  IF out.cmd = "cat" THEN out.node = node
            ELSE /\ out.ok <=> node \in Dirs
                 /\ out.ok => out.names = [i \in DOMAIN Entries[node] |-> Entries[node][i].name]
=============================================================================
