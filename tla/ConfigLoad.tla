----------------------------- MODULE ConfigLoad -----------------------------
(***************************************************************************)
(* pkg/config/config.go, LoadWithBaseDir: one configuration made of a main *)
(* file, the files it includes and those of config.d, read one after the   *)
(* other, and Validate.  The five maps of named components are merged and  *)
(* resolved alike and stand here as one; what a component says is one of   *)
(* the Adapters, of which a check accepts some and a factory makes some.   *)
(***************************************************************************)
EXTENDS Integers, FiniteSets, SequencesExt

CONSTANTS
  Files,       \* the files, as numbers: their alphabetical order
  Main,        \* the one given with -config, or found
  ConfigD,     \* those in config.d/ whose name ends in .toml
  ConfigDir,   \* config.d/ itself: "broken" when it is there and cannot be listed
  Malformed,   \* what an include that is no pattern stands for: it is never read
  Comps,       \* names of components
  None,        \* no component: not defined, not referred to
  Adapters,    \* what a component or an inline section can say
  Accepted,    \* those Validate lets pass
  Names,       \* names of backups as written
  Clean,       \* of each one: the name with unsafe characters replaced
  Unnamed,     \* the name that is missing
  Disks        \* the contents of the files that are considered

\* What there is to be read, and what stops the loading when its turn comes.
Items    == Files \cup {ConfigDir, Malformed}
\* An include is a path, or with a * in it a glob, which filepath.Glob may refuse.
Patterns == [kind : {"path", "glob", "malformed"}, files : SUBSET Files]
Entries  == [name : Names, wellFormed : BOOLEAN, ref : Comps \cup {None}, inline : Adapters]
\* A logging section counts only with a level, and may name a file that cannot be opened.
Loggings == [level : BOOLEAN, opens : BOOLEAN]
Sections == [include : Seq(Patterns), defs : [Comps -> Adapters \cup {None}],
             backups : Seq(Entries), logging : Loggings, health : BOOLEAN]

ASSUME ConfigAssumption ==
  /\ Files \subseteq Nat /\ IsFiniteSet(Files)
  /\ Main \in Files /\ ConfigD \subseteq Files
  /\ ConfigDir \notin Files /\ Malformed \notin Files /\ ConfigDir # Malformed
  /\ None \notin Comps \cup Adapters
  /\ Accepted \subseteq Adapters
  /\ Unnamed \in Names /\ Clean \in [Names -> Names]
  /\ Disks \subseteq [Items -> [status : {"absent", "broken", "ok"}, text : Sections]]
  /\ \A d \in Disks : d[Malformed].status = "broken"

VARIABLES
  disk,     \* the files; they do not change while the program starts
  cfg,      \* the configuration so far
  loaded,   \* the files read
  todo,     \* the files still to be read, in order
  at        \* where the loading stands

loadVars == <<disk, cfg, loaded, todo, at>>

NoLogging   == [level |-> FALSE, opens |-> TRUE]
EmptyConfig == [include |-> <<>>, defs |-> [c \in Comps |-> None],
                backups |-> <<>>, logging |-> NoLogging, health |-> FALSE]

LoadTypeOK ==
  /\ disk \in Disks
  /\ cfg \in Sections
  /\ loaded \subseteq Items
  /\ todo \in Seq(Items)
  /\ at \in {"start", "reading", "loaded", "failed"}

------------------------------------------------------------------------------
(* Merging and resolving. *)

\* Faulty: the first definition stays.
MergeKeepsFirst(c, file) ==
  [c EXCEPT !.include = @ \o file.include,
            !.defs = [n \in Comps |-> IF @[n] = None THEN file.defs[n] ELSE @[n]],
            !.backups = @ \o file.backups,
            !.logging = IF file.logging.level THEN file.logging ELSE @]

\* Components of a later file override; backups and includes are appended; logging is
\* replaced as a whole, and only by a section with a level; [health] is not merged.
Merge(c, file) ==
  [c EXCEPT !.include = @ \o file.include,
            !.defs = [n \in Comps |-> IF file.defs[n] = None THEN @[n] ELSE file.defs[n]],
            !.backups = @ \o file.backups,
            !.logging = IF file.logging.level THEN file.logging ELSE @]

\* The elements of a finite set of numbers, in increasing order.
InOrder(S) == [k \in 1..Cardinality(S) |-> CHOOSE x \in S : Cardinality({y \in S : y <= x}) = k]

\* A glob finds the files that exist, through their directory: of one that cannot be
\* listed it finds none, and says nothing.
Found(f) == disk[f].status # "absent" /\ (f \in ConfigD => disk[ConfigDir].status # "broken")

\* The files an include stands for, in order.
Matches(p) ==
  IF p.kind = "malformed" THEN <<Malformed>>
  ELSE InOrder({f \in p.files : p.kind = "glob" => Found(f)})

\* Those of config.d; a config.d that cannot be listed is an error.
InConfigD ==
  IF disk[ConfigDir].status = "broken" THEN <<ConfigDir>>
  ELSE InOrder({f \in ConfigD : disk[f].status # "absent"})

Resolved(c, e) ==
  [e EXCEPT !.name = Clean[@], !.inline = IF e.ref = None THEN @ ELSE c.defs[e.ref]]

\* Faulty: a reference that nothing defines passes.
ResolvesAnything(c) == TRUE

Resolves(c) == \A e \in ToSet(c.backups) : e.ref # None => c.defs[e.ref] # None

\* Validate: the backups one after the other; an error in one refuses them all.
Valid(c) ==
  /\ c.backups # <<>>
  /\ \A e \in ToSet(c.backups) : e.name # Unnamed /\ e.wellFormed /\ e.inline \in Accepted

------------------------------------------------------------------------------
LoadInit ==
  /\ disk \in Disks
  /\ cfg = EmptyConfig
  /\ loaded = {}
  /\ todo = <<>>
  /\ at = "start"

\* loadConfigFile, when the file can be read and parsed.
TakeIn(f) ==
  /\ disk[f].status = "ok"
  /\ loaded' = loaded \cup {f}
  /\ cfg' = Merge(cfg, disk[f].text)

\* ... and when not, also when what is listed is no file: Load returns the error.
Refuse(f) ==
  /\ disk[f].status # "ok"
  /\ loaded' = loaded \cup {f}
  /\ at' = "failed"
  /\ UNCHANGED <<disk, cfg, todo>>

\* The list of includes is that of the main file: `range` has evaluated cfg.Includes
\* before an included file appends its own.
LoadMain ==
  /\ at = "start"
  /\ \/ /\ TakeIn(Main)
        /\ at' = "reading"
        /\ todo' = FlattenSeq([i \in DOMAIN cfg'.include |-> Matches(cfg'.include[i])])
                     \o InConfigD
        /\ UNCHANGED disk
     \/ Refuse(Main)

LoadNext ==
  /\ at = "reading" /\ todo # <<>>
  /\ Head(todo) \notin loaded
  /\ \/ /\ TakeIn(Head(todo))
        /\ todo' = Tail(todo)
        /\ UNCHANGED <<disk, at>>
     \/ Refuse(Head(todo))

\* "skip already-loaded files (cycle prevention)"
SkipLoaded ==
  /\ at = "reading" /\ todo # <<>>
  /\ Head(todo) \in loaded
  /\ todo' = Tail(todo)
  /\ UNCHANGED <<disk, cfg, loaded, at>>

\* resolveReferences, once everything is read.
Resolve ==
  /\ at = "reading" /\ todo = <<>>
  /\ \/ /\ Resolves(cfg)
        /\ cfg' = [cfg EXCEPT !.backups = [i \in DOMAIN @ |-> Resolved(cfg, @[i])]]
        /\ at' = "loaded"
     \/ /\ ~Resolves(cfg)
        /\ at' = "failed"
        /\ UNCHANGED cfg
  /\ UNCHANGED <<disk, loaded, todo>>

Load == LoadMain \/ LoadNext \/ SkipLoaded \/ Resolve

------------------------------------------------------------------------------
(* What docs/CONFIGURATION.md promises, from the files alone. *)

\* The first occurrences of the elements of a sequence.
Firsts(s) ==
  LET new == InOrder({i \in DOMAIN s : \A j \in 1..(i - 1) : s[j] # s[i]})
  IN  [k \in DOMAIN new |-> s[new[k]]]

\* "1. Main config file  2. Files in include (in order)  3. Files in config.d/
\* (alphabetically)", docs/CONFIGURATION.md:197-201: a file may be listed more than once.
Listed ==
  <<Main>> \o FlattenSeq([i \in DOMAIN disk[Main].text.include |->
                            Matches(disk[Main].text.include[i])])
           \o InConfigD

Sources == Firsts(Listed)

\* "the last one loaded wins".
DefinedIn(files, c) ==
  LET K == {k \in DOMAIN files : disk[files[k]].text.defs[c] # None}
  IN  IF K = {} THEN None
      ELSE disk[files[CHOOSE k \in K : \A m \in K : m <= k]].text.defs[c]

WrittenIn(files) == FlattenSeq([k \in DOMAIN files |-> disk[files[k]].text.backups])

InForce(c) == DefinedIn(Sources, c)

\* Every backup of every source, with the component in force for its reference.
PromisedBackups ==
  LET all == WrittenIn(Sources)
  IN  [i \in DOMAIN all |->
         [all[i] EXCEPT !.name = Clean[@],
                        !.inline = IF all[i].ref = None THEN @ ELSE InForce(all[i].ref)]]

\* config.go:151-248.  A configuration that loads holds each backup of each file once, in
\* the order of docs/CONFIGURATION.md:197-201, however includes, globs and config.d name a
\* file again, with the definition of its component that comes last; one that does not
\* load has a file that cannot be read, an include that is no pattern, a config.d that
\* cannot be listed, or a reference that nothing defines.
MergedAsDocumented ==
  /\ at = "loaded" =>
       /\ \A f \in ToSet(Sources) : disk[f].status = "ok"
       /\ cfg.backups = PromisedBackups
       /\ \A c \in Comps : cfg.defs[c] = InForce(c)
  /\ at = "failed" =>
       \/ \E f \in {Main} \cup ToSet(Sources) : disk[f].status # "ok"
       \/ \E b \in ToSet(PromisedBackups) : b.ref # None /\ InForce(b.ref) = None

\* The inductive invariant of the loading: what has been taken off the list is what has
\* been merged, each file once.
LoadInv ==
  /\ at = "start" => loaded = {} /\ todo = <<>>
  /\ at \in {"reading", "loaded"} =>
       LET n    == Len(Listed) - Len(todo)
           done == Firsts(SubSeq(Listed, 1, n))
       IN  /\ n > 0 /\ todo = SubSeq(Listed, n + 1, Len(Listed))
           /\ loaded = ToSet(done)
           /\ \A f \in loaded : disk[f].status = "ok"
           /\ \A c \in Comps : cfg.defs[c] = DefinedIn(done, c)
           /\ at = "reading" => cfg.backups = WrittenIn(done)
           /\ at = "loaded" => todo = <<>>
  /\ MergedAsDocumented

==============================================================================
