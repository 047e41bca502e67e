------------------------------ MODULE MCStartup ------------------------------
(***************************************************************************)
(* Instances of Startup for TLC: a main file 1, a file 2 beside it, and    *)
(* the files 3 and 4 of config.d; one component x.  Among the includes is  *)
(* a list that is not in alphabetical order: files are read as listed.     *)
(***************************************************************************)
EXTENDS Startup, TLC

CONSTANTS a, b, c, x   \* names of backups, the component

CleanNames == (a :> a) @@ (b :> c) @@ (c :> c) @@ (Unnamed :> Unnamed)

Only(f)    == [kind |-> "path", files |-> {f}]
AllOf(S)   == [kind |-> "glob", files |-> S]
NoPattern  == [kind |-> "malformed", files |-> {}]
Inline(n, v) == [name |-> n, wellFormed |-> TRUE, ref |-> None, inline |-> v]
Refer(n)   == [Inline(n, "local") EXCEPT !.ref = x]
Ok(text)   == [status |-> "ok", text |-> text]
Empty      == EmptyConfig
Define(v)  == [Empty EXCEPT !.defs = (x :> v)]
Absent     == [status |-> "absent", text |-> Empty]
Broken     == [status |-> "broken", text |-> Empty]

\* The four files in order, and config.d.
Disk(files, dir) ==
  [i \in Items |-> CASE i = ConfigDir -> dir [] i = Malformed -> Broken [] OTHER -> files[i]]
OpensNot(level) == [level |-> level, opens |-> FALSE]

Includes == {<<>>, <<Only(1), Only(2)>>, <<Only(4), Only(2)>>, <<AllOf({3, 4})>>,
             <<Only(2), AllOf({3, 4}), Only(2)>>, <<Only(3)>>, <<Only(2), NoPattern>>}

\* Files that define x, refer to it, and include one another.
Second == {Absent, Broken, Ok([Define("local") EXCEPT !.include = <<Only(1)>>,
                                                      !.backups = <<Refer(b)>>])}
Third  == {Absent, Ok(Define("s3")), Ok([Define("nokeys") EXCEPT !.include = <<Only(2)>>])}
Fourth == {Absent, Broken, Ok([Define("ftp") EXCEPT !.backups = <<Inline(c, "s3")>>]),
           Ok([Empty EXCEPT !.logging = OpensNot(TRUE)])}

\* Whether config.d can be listed or not, its files can be read by name.
Merging ==
  {Disk(<<Ok([Define(v) EXCEPT !.include = i, !.backups = <<Refer(a)>>]), f2, f3, f4>>, dir) :
     v \in {None, "local"}, i \in Includes, f2 \in Second, f3 \in Third, f4 \in Fourth,
     dir \in {Ok(Empty), Broken}}

\* One file, with what the checks and the modes tell apart.
Backups == {<<>>, <<Inline(a, "s3"), Refer(b)>>, <<Refer(b), Inline(c, "nokeys")>>,
            <<Inline(Unnamed, "local")>>,
            <<Inline(a, "local"), [Inline(b, "local") EXCEPT !.wellFormed = FALSE]>>}

Checking ==
  {Disk(<<Ok([Define(v) EXCEPT !.backups = k, !.logging = l, !.health = h]),
          Absent, Absent, Absent>>, Absent) :
     v \in {None, "local", "ftp"}, k \in Backups,
     l \in {NoLogging, OpensNot(TRUE), OpensNot(FALSE)}, h \in BOOLEAN}

Unreadable == {Disk(<<first, Absent, Absent, Absent>>, Absent) : first \in {Absent, Broken}}

\* A name of its own for the set that SomeDisks stands for, so that TLC computes it once.
AllDisks == UNION {Merging, Checking, Unreadable}

SomeDisks == AllDisks

SomeEnvs ==
  {[status |-> "unset", entry |-> Inline(a, "local"), health |-> FALSE],
   [status |-> "unusable", entry |-> Inline(a, "local"), health |-> TRUE],
   [status |-> "usable", entry |-> Inline(a, "local"), health |-> TRUE],
   [status |-> "usable", entry |-> Inline(a, "ftp"), health |-> FALSE]}

==============================================================================
