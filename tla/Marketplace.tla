----------------------------- MODULE Marketplace -----------------------------
(* The plugin directory of `rich`: the commands `rich plugin install`,       *)
(* `update`, `remove`, `enable` and `disable`, run one at a time, each over  *)
(* three things on the disk that are written one after the other (the        *)
(* packages' files, the lockfile and the state file), a run of `rich` that   *)
(* loads what is installed meanwhile, and the marketplaces the commands      *)
(* fetch from, which change between two fetches.                             *)
(*                                                                           *)
(* Every write is a temporary file renamed over the old one, so it happens   *)
(* or does not; a command may be killed before any of them.  A version       *)
(* stands for its file's bytes and its hash, an index for its serial and the *)
(* key that signed it; one trust root is used.                               *)
EXTENDS Naturals, Sequences, FiniteSets

CONSTANTS Ids,            \* packages
          Locations,      \* marketplaces a command may be pointed at
          Official,       \* the one the publisher writes; the others copy it
          Args,           \* what a command names, in order: <<id, version or 0>>
          Versions,       \* versions of a package
          Listed, Yanked, \* serial -> the versions listed, and yanked, there
          Missing,        \* an entry of the lockfile without its file
          MaxSerial,      \* bound: indexes published
          MaxGen,         \* bound: generations of keys
          MaxCommands,    \* bound: commands run
          MaxKills,       \* bound: commands killed half way
          MaxRuns         \* bound: runs of `rich` that load packages

Serials == 1 .. MaxSerial

ASSUME MarketAssumption ==
    /\ Official \in Locations
    /\ Args \subseteq Seq(Ids \X (Versions \cup {0}))
    /\ \A args \in Args : \A m, n \in DOMAIN args : args[m][1] = args[n][1] => m = n
    /\ Versions \subseteq Nat \ {0}
    /\ MaxSerial \in Nat \ {0} /\ MaxGen \in Nat \ {0}
    /\ \A s \in Serials : /\ Listed[s] \subseteq Versions /\ IsFiniteSet(Listed[s])
                           /\ Yanked[s] \subseteq Listed[s]

VARIABLES
    site,       \* what each location serves: keys up to gen; an index, its key
    lock,       \* marketplace.lock.json: the version of each package, or 0
    files,      \* the package files there are, as <<id, version>>
    state,      \* marketplace.state.json
    cmd,        \* the command running: what it holds in memory
    run,        \* the run of `rich` that is loading packages
    live,       \* history: packages in Live at some time of `run`
    cut,        \* history: a removal ended before it wrote the state
    commands, kills, runs   \* how many there were

disk  == <<lock, files, state>>
count == <<commands, kills, runs>>
past  == <<live, cut>>
vars  == <<site, disk, cmd, run, past, count>>

----------------------------------------------------------------------------
(* The state file, a command's memory, a run's memory.                       *)

NoState == [disabled |-> {}, accepted |-> [l \in Locations |-> 0],
            gen |-> 1, mark |-> [i \in Ids |-> 0]]

NoCommand == [op |-> "none", pc |-> "off", loc |-> Official, todo |-> <<>>,
              keys |-> 1, serial |-> 0, ver |-> 0, prev |-> 0, gone |-> {}]

NoRun == [pc |-> "off", want |-> {}, loaded |-> {}]

\* The package a command is at.
At == Head(cmd.todo)[1]

\* The packages enabled that are installed, or of which `install` has put the
\* file there and is about to say so in the lockfile.
Live == {i \in Ids : /\ lock[i] # 0 \/ (cmd.pc = "save" /\ i = At)
                     /\ i \notin state.disabled}

\* Keeps the history of a run over a step that writes a package's file, the
\* lockfile or the state; the others leave it alone.
Seen == live' = IF run.pc = "off" THEN {} ELSE live \cup Live'

\* The arguments of a command that takes no versions, and their packages.
Plain == {args \in Args : \A n \in DOMAIN args : args[n][2] = 0}
Named(args) == {args[n][1] : n \in DOMAIN args}

Newest(s) ==
    LET offered == Listed[s] \ Yanked[s]
    IN IF offered = {} THEN 0 ELSE CHOOSE v \in offered : \A w \in offered : w <= v

----------------------------------------------------------------------------
(* The marketplaces.  A mirror copies the keys and the index apart, and as   *)
(* late as it likes.                                                         *)

Init ==
    /\ site = [l \in Locations |-> [gen |-> 1, serial |-> 1, key |-> 1]]
    /\ lock = [i \in Ids |-> 0] /\ files = {} /\ state = NoState
    /\ cmd = NoCommand /\ run = NoRun /\ live = {} /\ cut = FALSE
    /\ commands = 0 /\ kills = 0 /\ runs = 0

Rotate ==
    /\ site[Official].gen < MaxGen
    /\ site' = [site EXCEPT ![Official].gen = @ + 1]
    /\ UNCHANGED <<disk, cmd, run, past, count>>

Publish ==
    /\ site[Official].serial < MaxSerial
    /\ site' = [site EXCEPT ![Official].serial = @ + 1,
                            ![Official].key = site[Official].gen]
    /\ UNCHANGED <<disk, cmd, run, past, count>>

Mirror(l) ==
    /\ l # Official
    /\ \/ site' = [site EXCEPT ![l].gen = site[Official].gen]
       \/ site' = [site EXCEPT ![l].serial = site[Official].serial,
                               ![l].key = site[Official].key]
    /\ site' # site
    /\ UNCHANGED <<disk, cmd, run, past, count>>

----------------------------------------------------------------------------
(* A command begins, and ends.                                               *)

\* `install` and `update` read the state and replay the key chain it keeps;
\* `update` only takes packages that are installed.
Begin ==
    /\ cmd = NoCommand /\ commands < MaxCommands
    /\ commands' = commands + 1
    /\ \/ \E args \in Args, l \in Locations :
            cmd' = [NoCommand EXCEPT !.op = "install", !.pc = "keys", !.loc = l,
                                     !.todo = args, !.keys = state.gen]
       \/ \E args \in Plain, l \in Locations :
            /\ \A i \in Named(args) : lock[i] # 0
            /\ cmd' = [NoCommand EXCEPT !.op = "update", !.pc = "keys", !.loc = l,
                                        !.todo = args, !.keys = state.gen]
       \/ \E args \in Plain :
            cmd' = [NoCommand EXCEPT !.op = "remove", !.pc = "next", !.todo = args]
    /\ UNCHANGED <<site, disk, run, past, kills, runs>>

\* Killed between two of its writes: what it held is lost, what it wrote
\* stays.  (Killed anywhere else, it leaves what Fails leaves.)
Killed ==
    /\ cmd.pc \in {"save", "drop", "note", "unlink"} \/ cmd.gone # {}
    /\ kills < MaxKills
    /\ kills' = kills + 1
    /\ cmd' = NoCommand
    /\ UNCHANGED <<site, disk, run, past, commands, runs>>

\* A fetch fails, or the user declines what would be fetched next.
Fails ==
    /\ cmd.pc \in {"keys", "index", "write"} \/ (cmd.pc = "next" /\ cmd.op # "remove")
    /\ cmd' = NoCommand
    /\ UNCHANGED <<site, disk, run, past, count>>

----------------------------------------------------------------------------
(* open: the keys, one generation at a time, then the index.                 *)

\* Mutant: the generation it is at is taken for the next one.
NextKeysAgain ==
    /\ cmd.pc = "keys"
    /\ cmd' = IF site[cmd.loc].gen >= cmd.keys
                THEN [cmd EXCEPT !.keys = @ + 1]
                ELSE [cmd EXCEPT !.pc = "index"]
    /\ UNCHANGED <<site, disk, run, past, count>>

NextKeys ==
    /\ cmd.pc = "keys"
    /\ cmd' = IF site[cmd.loc].gen >= cmd.keys + 1
                THEN [cmd EXCEPT !.keys = @ + 1]
                ELSE [cmd EXCEPT !.pc = "index"]
    /\ UNCHANGED <<site, disk, run, past, count>>

\* verify_index: signed by the main key of the newest generation, and no
\* older than the last one taken from this location.
Accepts(index) ==
    /\ index.key = cmd.keys
    /\ index.serial >= state.accepted[cmd.loc]

Open ==
    /\ cmd.pc = "index"
    /\ LET index == site[cmd.loc] IN
         IF Accepts(index)
           THEN /\ state' = [state EXCEPT !.accepted[cmd.loc] = index.serial,
                                          !.gen = cmd.keys]
                /\ cmd' = [cmd EXCEPT !.pc = "next", !.serial = index.serial]
           ELSE cmd' = NoCommand /\ UNCHANGED state
    /\ UNCHANGED <<site, lock, files, run, cut, count>>
    /\ Seen

----------------------------------------------------------------------------
(* The loop of `install` and `update` over the packages named.               *)

\* install: the version resolved, unless its file is already there.
Resolve ==
    /\ cmd.op = "install" /\ cmd.pc = "next" /\ cmd.todo # <<>>
    /\ LET want == Head(cmd.todo)[2]
           v == IF want = 0 THEN Newest(cmd.serial) ELSE want
       IN
         cmd' = IF v \notin Listed[cmd.serial] \ Yanked[cmd.serial] THEN NoCommand
                ELSE IF lock[At] = v /\ <<At, v>> \in files
                  THEN [cmd EXCEPT !.todo = Tail(@)]
                  ELSE [cmd EXCEPT !.pc = "write", !.ver = v]
    /\ UNCHANGED <<site, disk, run, past, count>>

\* update: notes whether the version installed is yanked, and takes the newest one
\* when it is newer or replaces a yanked one.  Of a package that the index no longer
\* lists it keeps both the version and the mark.
Review ==
    /\ cmd.op = "update" /\ cmd.pc = "next" /\ cmd.todo # <<>>
    /\ LET v == lock[At]
           yanked == v \in Yanked[cmd.serial]
           w == Newest(cmd.serial)
       IN /\ state' = [state EXCEPT !.mark[At] = IF Listed[cmd.serial] = {} THEN @
                                                 ELSE IF yanked THEN v ELSE 0]
          /\ cmd' = IF w # 0 /\ (w > v \/ (yanked /\ w # v))
                      THEN [cmd EXCEPT !.pc = "write", !.ver = w]
                      ELSE [cmd EXCEPT !.todo = Tail(@)]
    /\ UNCHANGED <<site, lock, files, run, cut, count>>
    /\ Seen

\* Mutant: the new file takes the old one's place before the lockfile says so.
WriteOver ==
    /\ cmd.pc = "write"
    /\ files' = (files \ {<<At, lock[At]>>}) \cup {<<At, cmd.ver>>}
    /\ cmd' = [cmd EXCEPT !.pc = "save", !.prev = lock[At]]
    /\ UNCHANGED <<site, lock, state, run, cut, count>>
    /\ Seen

\* Installer::install, once every check has passed: the file,
Write ==
    /\ cmd.pc = "write"
    /\ files' = files \cup {<<At, cmd.ver>>}
    /\ cmd' = [cmd EXCEPT !.pc = "save", !.prev = lock[At]]
    /\ UNCHANGED <<site, lock, state, run, cut, count>>
    /\ Seen

\* the lockfile,
SaveLock ==
    /\ cmd.pc = "save"
    /\ lock' = [lock EXCEPT ![At] = cmd.ver]
    /\ cmd' = [cmd EXCEPT !.pc = "drop"]
    /\ UNCHANGED <<site, files, state, run, cut, count>>
    /\ Seen

\* then an older version's file,
DropOld ==
    /\ cmd.pc = "drop"
    /\ files' = IF cmd.prev # cmd.ver THEN files \ {<<At, cmd.prev>>} ELSE files
    /\ cmd' = [cmd EXCEPT !.pc = "note"]
    /\ UNCHANGED <<site, lock, state, run, past, count>>

\* and, back in the command, the state without a mark for the package.
Note ==
    /\ cmd.pc = "note"
    /\ state' = [state EXCEPT !.mark[At] = 0]
    /\ cmd' = [cmd EXCEPT !.pc = "next", !.todo = Tail(@), !.ver = 0, !.prev = 0]
    /\ UNCHANGED <<site, lock, files, run, cut, count>>
    /\ Seen

Finish ==
    /\ cmd.op \in {"install", "update"} /\ cmd.pc = "next" /\ cmd.todo = <<>>
    /\ cmd' = NoCommand
    /\ UNCHANGED <<site, disk, run, past, count>>

----------------------------------------------------------------------------
(* remove: for each package its entry, then its file; the state at the end.  *)

\* Installer::remove: a package that is not installed ends the command, and
\* what it meant to write to the state for the ones before is lost.
Forget ==
    /\ cmd.op = "remove" /\ cmd.pc = "next" /\ cmd.todo # <<>>
    /\ IF lock[At] = 0
         THEN cmd' = NoCommand /\ cut' = (cut \/ cmd.gone # {}) /\ UNCHANGED lock
         ELSE /\ UNCHANGED cut
              /\ lock' = [lock EXCEPT ![At] = 0]
              /\ cmd' = [cmd EXCEPT !.pc = "unlink", !.prev = lock[At]]
    /\ UNCHANGED <<site, files, state, run, count>>
    /\ Seen

\* Mutant: the file is left to whoever finds it.
UnlinkNothing ==
    /\ cmd.pc = "unlink"
    /\ cmd' = [cmd EXCEPT !.pc = "next", !.todo = Tail(@), !.prev = 0,
                          !.gone = @ \cup {At}]
    /\ UNCHANGED <<site, lock, files, state, run, past, count>>

Unlink ==
    /\ cmd.pc = "unlink"
    /\ files' = files \ {<<At, cmd.prev>>}
    /\ cmd' = [cmd EXCEPT !.pc = "next", !.todo = Tail(@), !.prev = 0,
                          !.gone = @ \cup {At}]
    /\ UNCHANGED <<site, lock, state, run, past, count>>

\* Mutant: a package removed stays disabled.
SaveMarks ==
    /\ cmd.op = "remove" /\ cmd.pc = "next" /\ cmd.todo = <<>>
    /\ state' = [state EXCEPT !.mark = [i \in Ids |-> IF i \in cmd.gone THEN 0 ELSE @[i]]]
    /\ cmd' = NoCommand
    /\ UNCHANGED <<site, lock, files, run, cut, count>>
    /\ Seen

SaveRemoved ==
    /\ cmd.op = "remove" /\ cmd.pc = "next" /\ cmd.todo = <<>>
    /\ state' = [state EXCEPT !.disabled = @ \ cmd.gone,
                              !.mark = [i \in Ids |-> IF i \in cmd.gone THEN 0 ELSE @[i]]]
    /\ cmd' = NoCommand
    /\ UNCHANGED <<site, lock, files, run, cut, count>>
    /\ Seen

\* enable and disable: one write, of the state, if all of them are installed.
SetEnabled(args, enabled) ==
    /\ cmd = NoCommand /\ commands < MaxCommands
    /\ \A i \in Named(args) : lock[i] # 0
    /\ state' = [state EXCEPT !.disabled = IF enabled THEN @ \ Named(args)
                                                     ELSE @ \cup Named(args)]
    /\ commands' = commands + 1
    /\ UNCHANGED <<site, lock, files, cmd, run, cut, kills, runs>>
    /\ Seen

----------------------------------------------------------------------------
(* A run of `rich`: installed_entries reads the lockfile and then the state, *)
(* and each file is read later, checked against the entry.  A run that finds *)
(* nothing in the lockfile does no more.                                     *)

ReadLock ==
    /\ run = NoRun /\ runs < MaxRuns
    /\ \E i \in Ids : lock[i] # 0
    /\ runs' = runs + 1
    /\ run' = [run EXCEPT !.pc = "state",
                          !.want = {<<i, lock[i]>> : i \in {j \in Ids : lock[j] # 0}}]
    /\ live' = Live
    /\ UNCHANGED <<site, disk, cmd, cut, commands, kills>>

ReadState ==
    /\ run.pc = "state"
    /\ run' = [run EXCEPT !.pc = "files",
                          !.want = {p \in @ : p[1] \notin state.disabled}]
    /\ UNCHANGED <<site, disk, cmd, past, count>>

\* LockEntry::verify: a file that is not there is left out, with a warning.
Load(p) ==
    /\ run.pc = "files" /\ p \in run.want
    /\ run' = [run EXCEPT !.want = @ \ {p},
                          !.loaded = IF p \in files THEN @ \cup {p} ELSE @]
    /\ UNCHANGED <<site, disk, cmd, past, count>>

Loaded ==
    /\ run.pc = "files" /\ run.want = {}
    /\ run' = NoRun /\ live' = {}
    /\ UNCHANGED <<site, disk, cmd, cut, count>>

Next ==
    \/ Rotate \/ Publish \/ \E l \in Locations : Mirror(l)
    \/ Begin \/ Killed \/ Fails
    \/ NextKeys \/ Open
    \/ Resolve \/ Review \/ Write \/ SaveLock \/ DropOld \/ Note \/ Finish
    \/ Forget \/ Unlink \/ SaveRemoved
    \/ \E args \in Plain, enabled \in BOOLEAN : SetEnabled(args, enabled)
    \/ ReadLock \/ ReadState \/ \E p \in Ids \X Versions : Load(p)
    \/ Loaded

Spec == Init /\ [][Next]_vars

----------------------------------------------------------------------------
TypeOK ==
    /\ site \in [Locations -> [gen : 1 .. MaxGen, serial : Serials, key : 1 .. MaxGen]]
    /\ lock \in [Ids -> Versions \cup {0}]
    /\ files \subseteq Ids \X Versions
    /\ state.disabled \subseteq Ids
    /\ state.accepted \in [Locations -> Serials \cup {0}]
    /\ state.gen \in 1 .. MaxGen
    /\ state.mark \in [Ids -> Versions \cup {0}]
    /\ cmd.keys \in 1 .. MaxGen /\ cmd.serial \in Serials \cup {0}
    /\ cmd.ver \in Versions \cup {0} /\ cmd.prev \in Versions \cup {0}
    /\ run.want \cup run.loaded \subseteq Ids \X Versions
    /\ live \subseteq Ids

\* What `load` finds of a package: its version, or 0, or that it is broken.
Found(i) == IF lock[i] # 0 /\ <<i, lock[i]>> \notin files THEN Missing ELSE lock[i]

Store == INSTANCE PackageStore WITH
             installed <- [i \in Ids |-> Found(i)],
             accepted <- state.accepted,
             generation <- state.gen

\* Wherever a command is, and wherever one was killed, a package loads at the
\* version the lockfile names; that version was offered by the last index
\* accepted from some location; and no serial and no generation of keys that
\* was accepted is given up again, whatever location serves what.
Implements == Store!Spec

\* While no command was killed, what a run loads was enabled at some time of
\* that run and installed then, or being installed, although it reads the
\* lockfile, the state and the files one after the other.  (A killed command
\* leaves a file behind that a later removal does not know of.)
LoadsOnlyLive == kills = 0 => \A p \in run.loaded : p[1] \in live

\* Between two commands, none of them killed, the files are those the
\* lockfile names, whatever failed or was declined; and a package that is not
\* installed is enabled when it is installed next, unless a removal of several
\* ended at one that is not installed and lost what it meant to write.
AtRest ==
    kills = 0 /\ cmd.op = "none"
        => /\ files = {<<i, lock[i]>> : i \in {j \in Ids : lock[j] # 0}}
           /\ cut \/ \A i \in state.disabled : lock[i] # 0
=============================================================================
