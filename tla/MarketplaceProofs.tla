-------------------------- MODULE MarketplaceProofs --------------------------
(***************************************************************************)
(* The plugin directory is a consistent store at every step, for any       *)
(* packages, locations, indexes and any number of commands, killed or not: *)
(* Marketplace implements PackageStore.  While no command was killed no    *)
(* file is left over and a run loads only what was live in it.             *)
(*                                                                         *)
(* The invariant says what a command holds in memory where it stands: its  *)
(* serial is the one the state has accepted, its version one that index    *)
(* offers, and its place in the order of its writes says which file is     *)
(* there and is not, or is no more, in the lockfile.                       *)
(***************************************************************************)
EXTENDS Marketplace, FiniteSetTheorems, SequenceTheorems, TLAPS

Versions0 == Versions \cup {0}
Placing   == {"write", "save", "drop", "note"}

\* The part of the type invariant that is about the marketplaces and the disk,
\* and the types of what a command, a run and the state file hold.
DiskOK ==
  /\ site \in [Locations -> [gen : 1 .. MaxGen, serial : Serials, key : 1 .. MaxGen]]
  /\ lock \in [Ids -> Versions0]
  /\ files \subseteq Ids \X Versions
  /\ live \subseteq Ids

MemoryOK ==
  /\ cmd \in [op : {"none", "install", "update", "remove"},
              pc : {"off", "keys", "index", "next", "unlink"} \cup Placing,
              loc : Locations, todo : Seq(Ids \X Versions0),
              keys : 1 .. MaxGen, serial : Serials \cup {0},
              ver : Versions0, prev : Versions0, gone : SUBSET Ids]
  /\ state \in [disabled : SUBSET Ids, accepted : [Locations -> Serials \cup {0}],
                gen : 1 .. MaxGen, mark : [Ids -> Versions0]]
  /\ run \in [pc : {"off", "state", "files"}, want : SUBSET (Ids \X Versions),
              loaded : SUBSET (Ids \X Versions)]

\* Where each command can stand.
Stages ==
  /\ cmd.op = "none" => cmd = NoCommand
  /\ cmd.op \in {"install", "update"} => cmd.pc \in {"keys", "index", "next"} \cup Placing
  /\ cmd.op = "remove" => cmd.pc \in {"next", "unlink"}
  /\ cmd.pc \in {"unlink"} \cup Placing => cmd.todo # <<>>
  /\ cmd.op # "remove" => cmd.gone = {}

\* What a command holds of the marketplace is what the state has accepted.
Trust ==
  /\ cmd.pc \in {"keys", "index"} => state.gen <= cmd.keys
  /\ cmd.op \in {"install", "update"} /\ cmd.pc \in {"next"} \cup Placing
        => cmd.serial # 0 /\ cmd.serial = state.accepted[cmd.loc]
  /\ cmd.pc \in Placing => cmd.ver \in Listed[cmd.serial] \ Yanked[cmd.serial]

\* An entry of the lockfile has its file, and so will the next.
FilesThere ==
  /\ \A i \in Ids : lock[i] # 0 => <<i, lock[i]>> \in files
  /\ cmd.pc = "save" => <<At, cmd.ver>> \in files /\ cmd.prev = lock[At]
  /\ cmd.pc = "drop" => lock[At] = cmd.ver
  /\ cmd.pc = "unlink" => lock[At] = 0
  /\ \A i \in cmd.gone : lock[i] = 0

\* A file no entry names is the one a command is about to name, or to drop.
NoStray ==
  \A i \in Ids, v \in Versions :
     <<i, v>> \in files
        => \/ lock[i] = v
           \/ cmd.pc = "save" /\ i = At /\ v = cmd.ver
           \/ cmd.pc \in {"drop", "unlink"} /\ i = At /\ v = cmd.prev

\* A package disabled and not installed is one a command has removed, and
\* will take from the disabled.
NoneDisabled ==
  cut \/ \A i \in state.disabled :
            \/ lock[i] # 0
            \/ i \in cmd.gone
            \/ cmd.pc = "unlink" /\ i = At

\* A package a run wants and that was not live in it has lost its file, and
\* until the run has read the state it may just be disabled.
Wanted ==
  /\ run.pc = "off" => run = NoRun
  /\ run.pc # "off" => Live \subseteq live
  /\ \A p \in run.want :
        \/ p[1] \in live
        \/ run.pc = "state" /\ p[1] \in state.disabled
        \/ p \notin files /\ p[1] \notin state.disabled
  /\ \A p \in run.loaded : p[1] \in live

Kept == DiskOK /\ MemoryOK /\ Stages /\ Trust /\ FilesThere
Clean == kills = 0 => NoStray /\ NoneDisabled /\ Wanted

IInv == Kept /\ kills \in Nat /\ Clean
-----------------------------------------------------------------------------
\* A finite set of numbers that is not empty has a largest one.
LEMMA Largest ==
  ASSUME NEW S, S \subseteq Nat, IsFiniteSet(S), S # {}
  PROVE  \E v \in S : \A w \in S : w <= v
<1> DEFINE Above(v) == {w \in S : w > v}
           T == {Above(v) : v \in S}
<1>1. T \subseteq FiniteSubsetsOf(S) /\ T # {}
  <2>1. ASSUME NEW v \in S PROVE Above(v) \in SUBSET S /\ IsFiniteSet(Above(v))
    BY FS_Subset
  <2> QED
    BY <2>1 DEF FiniteSubsetsOf
<1>2. PICK U \in T : \A V \in T : <<V, U>> \notin StrictSubsetOrdering(S)
  BY <1>1, FS_StrictSubsetOrderingWellFounded, WFMin
<1>3. PICK v \in S : U = Above(v)
  OBVIOUS
<1>4. ASSUME NEW w \in S, w > v PROVE FALSE
  <2>1. (\A x \in S : x > w => x > v) /\ ~(w > w)
    <3>1. v \in Nat /\ w \in Nat /\ \A x \in S : x \in Nat
      OBVIOUS
    <3> QED
      BY <1>4, <3>1
  <2>2. /\ Above(w) \subseteq Above(v) /\ w \in Above(v) /\ w \notin Above(w)
        /\ Above(w) \in SUBSET S /\ Above(v) \in SUBSET S
    BY <2>1, <1>4
  <2> HIDE DEF Above
  <2>3. <<Above(w), Above(v)>> \in StrictSubsetOrdering(S)
    BY <2>2 DEF StrictSubsetOrdering
  <2> QED
    BY <1>2, <1>3, <2>3
<1>5. \A w \in S : w <= v
  BY <1>4
<1> QED
  BY <1>5

\* Newest answers a version on offer, the largest there is, or 0 when there is none.
LEMMA NewestOffered ==
  ASSUME NEW s \in Serials, Newest(s) # 0
  PROVE  /\ Newest(s) \in Listed[s] \ Yanked[s]
         /\ \A w \in Listed[s] \ Yanked[s] : w <= Newest(s)
<1> DEFINE S == Listed[s] \ Yanked[s]
<1>1. S \subseteq Nat /\ IsFiniteSet(S)
  BY FS_Subset, MarketAssumption DEF MarketAssumption
<1>2. S # {}
  BY DEF Newest
<1>3. \E v \in S : \A w \in S : w <= v
  BY <1>1, <1>2, Largest
<1>4. Newest(s) = CHOOSE v \in S : \A w \in S : w <= v
  BY <1>2 DEF Newest
<1> QED
  BY <1>3, <1>4

\* The package a command is at, while there is one, and what is left after it.
LEMMA AtIsNamed ==
  ASSUME MemoryOK, cmd.todo # <<>>
  PROVE  /\ At \in Ids /\ Head(cmd.todo)[2] \in Versions0
         /\ Tail(cmd.todo) \in Seq(Ids \X Versions0)
<1>1. cmd.todo \in Seq(Ids \X Versions0)
  BY DEF MemoryOK
<1> QED
  BY <1>1, HeadTailProperties DEF At

\* What the assumption says of the bounds and of an index.
LEMMA Bounds ==
  /\ Official \in Locations /\ 1 \in 1 .. MaxGen /\ 1 \in Serials /\ 0 \notin Versions
  /\ \A s \in Serials : Listed[s] \ Yanked[s] \subseteq Versions
  /\ \A args \in Args : args \in Seq(Ids \X Versions0)
  BY MarketAssumption DEF MarketAssumption, Serials, Versions0

\* The types make up the type invariant.
LEMMA Typed == DiskOK /\ MemoryOK => TypeOK
  BY DEF DiskOK, MemoryOK, TypeOK, Versions0

\* The packages a command names.
LEMMA NamedAreIds ==
  ASSUME NEW args \in Args
  PROVE  Named(args) \subseteq Ids
<1>1. args \in Seq(Ids \X Versions0)
  BY Bounds
<1>2. ASSUME NEW n \in DOMAIN args PROVE args[n][1] \in Ids
  BY <1>1, ElementOfSeq, LenProperties
<1> QED
  BY <1>2 DEF Named

\* The history of a run is made of packages.
LEMMA SeenTyped ==
  ASSUME live \subseteq Ids, Seen
  PROVE  live' \subseteq Ids
  BY DEF Seen, Live
-----------------------------------------------------------------------------
(* A step keeps the types and what a command holds.                          *)

\* It does when it leaves the disk and the commands alone,
LEMMA StandsStill ==
  ASSUME Kept, UNCHANGED <<disk, cmd>>, DiskOK',
         run' \in [pc : {"off", "state", "files"}, want : SUBSET (Ids \X Versions),
                   loaded : SUBSET (Ids \X Versions)]
  PROVE  Kept'
<1> UNCHANGED <<lock, files, state, cmd>>
  BY DEF disk
<1>1. MemoryOK'
  BY DEF Kept, MemoryOK
<1>2. Stages' /\ Trust' /\ FilesThere'
  BY DEF Kept, Stages, Trust, FilesThere, At
<1> QED
  BY <1>1, <1>2 DEF Kept

\* and when it ends a command and writes nothing.
LEMMA GivesUp ==
  ASSUME Kept, cmd' = NoCommand, UNCHANGED <<site, disk, run>>, live' \subseteq Ids
  PROVE  Kept'
<1> UNCHANGED <<lock, files, state>>
  BY DEF disk
<1>1. DiskOK'
  BY DEF Kept, DiskOK
<1>2. MemoryOK'
  BY Bounds DEF Kept, MemoryOK, NoCommand, Versions0
<1>3. Stages' /\ Trust' /\ FilesThere'
  BY DEF Kept, Stages, Trust, FilesThere, NoCommand, Placing
<1> QED
  BY <1>1, <1>2, <1>3 DEF Kept

\* A command that begins: its memory is fresh but for what it was given.
LEMMA BeginKeeps ==
  ASSUME Kept, Begin
  PROVE  Kept'
<1> UNCHANGED <<site, lock, files, state, run, live>>
  BY DEF Begin, disk, past
<1>1. DiskOK'
  BY DEF Kept, DiskOK
<1> DEFINE Memory(o, p, l, args, g) ==
             [op |-> o, pc |-> p, loc |-> l, todo |-> args, keys |-> g, serial |-> 0,
              ver |-> 0, prev |-> 0, gone |-> {}]
<1>2. PICK args \in Args, l \in Locations :
        \/ \E o \in {"install", "update"} : cmd' = Memory(o, "keys", l, args, state.gen)
        \/ cmd' = Memory("remove", "next", l, args, 1)
  <2>1. ASSUME NEW args \in Args, NEW l \in Locations, NEW o,
               cmd' = [NoCommand EXCEPT !.op = o, !.pc = "keys", !.loc = l,
                                        !.todo = args, !.keys = state.gen]
        PROVE  cmd' = Memory(o, "keys", l, args, state.gen)
    BY <2>1 DEF NoCommand
  <2>2. ASSUME NEW args \in Plain,
               cmd' = [NoCommand EXCEPT !.op = "remove", !.pc = "next", !.todo = args]
        PROVE  cmd' = Memory("remove", "next", Official, args, 1)
    BY <2>2 DEF NoCommand
  <2> HIDE DEF Memory
  <2>3. CASE \E args \in Args, l \in Locations :
               cmd' = [NoCommand EXCEPT !.op = "install", !.pc = "keys", !.loc = l,
                                        !.todo = args, !.keys = state.gen]
    BY <2>1, <2>3
  <2>4. CASE \E args \in Plain, l \in Locations :
               cmd' = [NoCommand EXCEPT !.op = "update", !.pc = "keys", !.loc = l,
                                        !.todo = args, !.keys = state.gen]
    BY <2>1, <2>4 DEF Plain
  <2>5. CASE \E args \in Plain :
               cmd' = [NoCommand EXCEPT !.op = "remove", !.pc = "next", !.todo = args]
    BY <2>2, <2>5, Bounds DEF Plain
  <2> QED
    BY <2>3, <2>4, <2>5 DEF Begin
<1>3. /\ cmd'.pc \in {"keys", "next"} /\ cmd'.gone = {} /\ cmd'.op # "none"
      /\ cmd'.op \in {"install", "update"} => cmd'.pc = "keys" /\ cmd'.keys = state.gen
      /\ cmd'.op = "remove" => cmd'.pc = "next"
      /\ cmd'.op \in {"install", "update", "remove"}
  BY <1>2
<1>4. MemoryOK'
  <2>1. state.gen \in 1 .. MaxGen
    BY DEF Kept, MemoryOK
  <2> QED
    BY <1>2, <2>1, Bounds DEF Kept, MemoryOK, NoCommand, Versions0
<1>5. Stages' /\ Trust' /\ FilesThere'
  <2>1. state.gen \in Nat
    BY DEF Kept, MemoryOK
  <2> QED
    BY <1>3, <2>1 DEF Kept, Stages, Trust, FilesThere, Placing
<1> QED
  BY <1>1, <1>4, <1>5 DEF Kept

\* The key chain is walked no further than the marketplace serves it.
LEMMA NextKeysKeeps ==
  ASSUME Kept, NextKeys
  PROVE  Kept'
<1> UNCHANGED <<site, lock, files, state, run, live>>
  BY DEF NextKeys, disk, past
<1>1. DiskOK'
  BY DEF Kept, DiskOK
<1>2. /\ cmd.loc \in Locations /\ cmd.keys \in 1 .. MaxGen /\ state.gen \in 1 .. MaxGen
      /\ site[cmd.loc].gen \in 1 .. MaxGen
  BY DEF Kept, DiskOK, MemoryOK
<1>3. CASE cmd' = [cmd EXCEPT !.keys = @ + 1] /\ site[cmd.loc].gen >= cmd.keys + 1
  <2>1. cmd.keys + 1 \in 1 .. MaxGen
    BY <1>2, <1>3, MarketAssumption DEF MarketAssumption
  <2>2. MemoryOK'
    BY <1>3, <2>1 DEF Kept, MemoryOK
  <2>3. Stages' /\ Trust' /\ FilesThere'
    BY <1>2, <1>3 DEF NextKeys, Kept, MemoryOK, Stages, Trust, FilesThere, NoCommand, Placing
  <2> QED
    BY <1>1, <2>2, <2>3 DEF Kept
<1>4. CASE cmd' = [cmd EXCEPT !.pc = "index"]
  <2>1. MemoryOK'
    BY <1>4 DEF Kept, MemoryOK
  <2>2. Stages' /\ Trust' /\ FilesThere'
    BY <1>4 DEF NextKeys, Kept, MemoryOK, Stages, Trust, FilesThere, NoCommand, Placing
  <2> QED
    BY <1>1, <2>1, <2>2 DEF Kept
<1> QED
  BY <1>3, <1>4 DEF NextKeys

\* An index accepted is the one the command goes on with.
LEMMA OpenKeeps ==
  ASSUME Kept, Open
  PROVE  Kept'
<1> UNCHANGED <<site, lock, files, run>> /\ live' \subseteq Ids
  BY SeenTyped DEF Open, Kept, DiskOK
<1>1. DiskOK'
  BY DEF Kept, DiskOK
<1>2. CASE cmd' = NoCommand /\ UNCHANGED state
  BY <1>2, GivesUp DEF disk
<1>3. CASE /\ state' = [state EXCEPT !.accepted[cmd.loc] = site[cmd.loc].serial,
                                     !.gen = cmd.keys]
           /\ cmd' = [cmd EXCEPT !.pc = "next", !.serial = site[cmd.loc].serial]
  <2>1. cmd.loc \in Locations /\ site[cmd.loc].serial \in Serials
    BY DEF Kept, DiskOK, MemoryOK
  <2>2. MemoryOK'
    BY <1>3, <2>1 DEF Kept, MemoryOK
  <2>3. 0 \notin Serials
    BY MarketAssumption DEF MarketAssumption, Serials
  <2>4. /\ cmd'.pc = "next" /\ cmd'.serial = site[cmd.loc].serial /\ cmd'.op = cmd.op
        /\ cmd'.gone = cmd.gone /\ cmd'.loc = cmd.loc /\ cmd.pc = "index" /\ cmd.op \in {"install", "update"}
        /\ state'.accepted[cmd.loc] = site[cmd.loc].serial
    BY <1>3, <2>1 DEF Open, Kept, MemoryOK, Stages, NoCommand, Placing
  <2>5. Stages' /\ Trust'
    BY <2>1, <2>3, <2>4 DEF Kept, Stages, Trust, Placing
  <2>6. FilesThere'
    BY <2>4 DEF Kept, FilesThere
  <2> QED
    BY <1>1, <2>2, <2>5, <2>6 DEF Kept
<1> QED
  BY <1>2, <1>3 DEF Open

\* `install` goes on with a version its index offers.
LEMMA ResolveKeeps ==
  ASSUME Kept, Resolve
  PROVE  Kept'
<1> UNCHANGED <<site, lock, files, state, run, live>> /\ cmd.todo # <<>> /\ cmd.pc = "next"
    /\ cmd.op = "install"
  BY DEF Resolve, disk, past
<1>1. DiskOK'
  BY DEF Kept, DiskOK
<1>2. cmd.serial \in Serials
  BY DEF Kept, MemoryOK, Trust
<1>3. CASE cmd' = NoCommand
  BY <1>3, GivesUp DEF Kept, DiskOK, disk
<1>4. CASE cmd' = [cmd EXCEPT !.todo = Tail(@)]
  <2>1. MemoryOK'
    BY <1>4, AtIsNamed DEF Kept, MemoryOK
  <2>2. Stages' /\ Trust' /\ FilesThere'
    BY <1>4 DEF Kept, MemoryOK, Stages, Trust, FilesThere, Placing, NoCommand
  <2> QED
    BY <1>1, <2>1, <2>2 DEF Kept
<1>5. ASSUME NEW v \in Listed[cmd.serial] \ Yanked[cmd.serial],
             cmd' = [cmd EXCEPT !.pc = "write", !.ver = v]
      PROVE  Kept'
  <2>1. MemoryOK'
    BY <1>2, <1>5, Bounds DEF Kept, MemoryOK, Placing, Versions0
  <2>2. Stages' /\ Trust' /\ FilesThere'
    BY <1>5 DEF Kept, MemoryOK, Stages, Trust, FilesThere, Placing, NoCommand
  <2> QED
    BY <1>1, <2>1, <2>2 DEF Kept
<1> QED
  BY <1>3, <1>4, <1>5 DEF Resolve

\* So does `update`, which marks what it finds yanked.
LEMMA ReviewKeeps ==
  ASSUME Kept, Review
  PROVE  Kept'
<1> UNCHANGED <<site, lock, files, run>> /\ cmd.todo # <<>> /\ cmd.pc = "next"
    /\ cmd.op = "update" /\ live' \subseteq Ids
  BY SeenTyped DEF Review, Kept, DiskOK
<1>1. DiskOK'
  BY DEF Kept, DiskOK
<1>2. cmd.serial \in Serials /\ At \in Ids /\ lock[At] \in Versions0
  BY AtIsNamed DEF Kept, DiskOK, MemoryOK, Trust
<1>3. PICK m \in Versions0 : state' = [state EXCEPT !.mark[At] = m]
  BY <1>2 DEF Review, Kept, MemoryOK, Versions0
<1>4. /\ state' \in [disabled : SUBSET Ids, accepted : [Locations -> Serials \cup {0}],
                     gen : 1 .. MaxGen, mark : [Ids -> Versions0]]
      /\ state'.accepted = state.accepted /\ state'.gen = state.gen
  BY <1>2, <1>3 DEF Kept, MemoryOK
<1>5. CASE cmd' = [cmd EXCEPT !.todo = Tail(@)]
  <2>1. MemoryOK'
    BY <1>4, <1>5, AtIsNamed DEF Kept, MemoryOK
  <2>2. Stages' /\ Trust' /\ FilesThere'
    BY <1>4, <1>5 DEF Kept, MemoryOK, Stages, Trust, FilesThere, Placing, NoCommand
  <2> QED
    BY <1>1, <2>1, <2>2 DEF Kept
<1>6. CASE Newest(cmd.serial) # 0 /\ cmd' = [cmd EXCEPT !.pc = "write", !.ver = Newest(cmd.serial)]
  <2>1. Newest(cmd.serial) \in Listed[cmd.serial] \ Yanked[cmd.serial]
    BY <1>2, <1>6, NewestOffered
  <2>2. MemoryOK'
    BY <1>2, <1>4, <1>6, <2>1, Bounds DEF Kept, MemoryOK, Placing, Versions0
  <2>3. Stages' /\ Trust' /\ FilesThere'
    BY <1>4, <1>6, <2>1 DEF Kept, MemoryOK, Stages, Trust, FilesThere, Placing, NoCommand
  <2> QED
    BY <1>1, <2>2, <2>3 DEF Kept
<1> QED
  BY <1>5, <1>6 DEF Review

\* The file first,
LEMMA WriteKeeps ==
  ASSUME Kept, Write
  PROVE  Kept'
<1> UNCHANGED <<site, lock, state, run>> /\ cmd.todo # <<>> /\ cmd.pc = "write"
    /\ live' \subseteq Ids
  BY SeenTyped DEF Write, Kept, DiskOK, Stages, Placing
<1>1. At \in Ids /\ lock[At] \in Versions0 /\ cmd.ver \in Versions
  <2>1. cmd.serial \in Serials
    BY DEF Kept, MemoryOK, Stages, Trust, Placing, NoCommand
  <2> QED
    BY <2>1, AtIsNamed, Bounds DEF Kept, DiskOK, Trust, Placing
<1>2. cmd' = [cmd EXCEPT !.pc = "save", !.prev = lock[At]] /\ files' = files \cup {<<At, cmd.ver>>}
  BY DEF Write
<1>3. DiskOK' /\ MemoryOK'
  <2>1. <<At, cmd.ver>> \in Ids \X Versions
    BY <1>1
  <2>2. files' \subseteq Ids \X Versions
    BY <1>2, <2>1 DEF Kept, DiskOK
  <2> QED
    BY <1>1, <1>2, <2>2 DEF Kept, DiskOK, MemoryOK, Placing
<1>4. /\ cmd'.pc = "save" /\ cmd'.prev = lock[At] /\ cmd'.todo = cmd.todo /\ cmd'.op = cmd.op
      /\ cmd'.gone = cmd.gone /\ cmd'.ver = cmd.ver /\ cmd'.serial = cmd.serial
      /\ cmd'.loc = cmd.loc
  BY <1>2 DEF Kept, MemoryOK
<1>5. Stages' /\ Trust' /\ FilesThere'
  BY <1>2, <1>4 DEF Kept, Stages, Trust, FilesThere, Placing, NoCommand, At
<1> QED
  BY <1>3, <1>5 DEF Kept

\* then its entry,
LEMMA SaveLockKeeps ==
  ASSUME Kept, SaveLock
  PROVE  Kept'
<1> UNCHANGED <<site, files, state, run>> /\ cmd.todo # <<>> /\ cmd.pc = "save"
    /\ live' \subseteq Ids
  BY SeenTyped DEF SaveLock, Kept, DiskOK, Stages, Placing
<1>1. At \in Ids /\ cmd.ver \in Versions0
  BY AtIsNamed DEF Kept, MemoryOK
<1>2. cmd' = [cmd EXCEPT !.pc = "drop"] /\ lock' = [lock EXCEPT ![At] = cmd.ver]
  BY DEF SaveLock
<1>3. DiskOK' /\ MemoryOK'
  BY <1>1, <1>2 DEF Kept, DiskOK, MemoryOK, Placing
<1>4. /\ cmd'.pc = "drop" /\ cmd'.todo = cmd.todo /\ cmd'.op = cmd.op
      /\ cmd'.gone = {} /\ cmd.gone = {} /\ cmd'.ver = cmd.ver /\ cmd'.serial = cmd.serial
      /\ cmd'.loc = cmd.loc
  BY <1>2 DEF Kept, MemoryOK, Stages, NoCommand
<1>5. /\ lock'[At] = cmd.ver /\ \A i \in Ids : i # At => lock'[i] = lock[i]
  BY <1>1, <1>2 DEF Kept, DiskOK
<1>6. Stages' /\ Trust'
  BY <1>2, <1>4 DEF Kept, Stages, Trust, Placing, NoCommand
<1>7. FilesThere'
  BY <1>1, <1>4, <1>5 DEF Kept, FilesThere, At
<1> QED
  BY <1>3, <1>6, <1>7 DEF Kept

\* then the older file goes,
LEMMA DropOldKeeps ==
  ASSUME Kept, DropOld
  PROVE  Kept'
<1> UNCHANGED <<site, lock, state, run, live>> /\ cmd.todo # <<>> /\ cmd.pc = "drop"
  BY DEF DropOld, Kept, Stages, Placing, past
<1>1. /\ cmd' = [cmd EXCEPT !.pc = "note"] /\ files' \subseteq files
      /\ \A i \in Ids : \A v : <<i, v>> \in files /\ <<i, v>> \notin files'
                                 => i = At /\ v = cmd.prev /\ cmd.prev # cmd.ver
  BY DEF DropOld
<1>2. DiskOK' /\ MemoryOK'
  BY <1>1 DEF Kept, DiskOK, MemoryOK, Placing
<1>3. /\ cmd'.pc = "note" /\ cmd'.todo = cmd.todo /\ cmd'.op = cmd.op
      /\ cmd'.gone = cmd.gone /\ cmd'.ver = cmd.ver /\ cmd'.serial = cmd.serial
      /\ cmd'.loc = cmd.loc
  BY <1>1 DEF Kept, MemoryOK
<1>4. Stages' /\ Trust'
  BY <1>3 DEF Kept, Stages, Trust, Placing, NoCommand
<1>5. FilesThere'
  BY <1>1, <1>3 DEF Kept, FilesThere, At
<1> QED
  BY <1>2, <1>4, <1>5 DEF Kept

\* and the command passes to the next package.
LEMMA NoteKeeps ==
  ASSUME Kept, Note
  PROVE  Kept'
<1> UNCHANGED <<site, lock, files, run>> /\ cmd.todo # <<>> /\ cmd.pc = "note"
    /\ live' \subseteq Ids
  BY SeenTyped DEF Note, Kept, DiskOK, Stages, Placing
<1>1. At \in Ids
  BY AtIsNamed DEF Kept
<1>2. /\ cmd' = [cmd EXCEPT !.pc = "next", !.todo = Tail(@), !.ver = 0, !.prev = 0]
      /\ state' = [state EXCEPT !.mark[At] = 0]
  BY DEF Note
<1>3. DiskOK' /\ MemoryOK'
  BY <1>1, <1>2, AtIsNamed DEF Kept, DiskOK, MemoryOK, Versions0
<1>4. /\ cmd'.pc = "next" /\ cmd'.op = cmd.op /\ cmd'.gone = cmd.gone
      /\ cmd'.serial = cmd.serial /\ cmd'.loc = cmd.loc /\ state'.accepted = state.accepted
  BY <1>1, <1>2 DEF Kept, MemoryOK
<1>5. Stages' /\ Trust' /\ FilesThere'
  BY <1>4 DEF Kept, Stages, Trust, FilesThere, Placing, NoCommand
<1> QED
  BY <1>3, <1>5 DEF Kept

\* `remove` takes the entry,
LEMMA ForgetKeeps ==
  ASSUME Kept, Forget
  PROVE  Kept'
<1> UNCHANGED <<site, files, state, run>> /\ cmd.todo # <<>> /\ cmd.pc = "next"
    /\ cmd.op = "remove" /\ live' \subseteq Ids
  BY SeenTyped DEF Forget, Kept, DiskOK
<1>1. At \in Ids
  BY AtIsNamed DEF Kept
<1>2. CASE cmd' = NoCommand /\ UNCHANGED lock
  BY <1>2, GivesUp DEF disk
<1>3. CASE /\ lock' = [lock EXCEPT ![At] = 0]
           /\ cmd' = [cmd EXCEPT !.pc = "unlink", !.prev = lock[At]]
  <2>1. DiskOK' /\ MemoryOK'
    <3>1. lock[At] \in Versions0 /\ 0 \in Versions0
      BY <1>1 DEF Kept, DiskOK, Versions0
    <3> QED
      BY <1>1, <1>3, <3>1 DEF Kept, DiskOK, MemoryOK
  <2>2. /\ cmd'.pc = "unlink" /\ cmd'.op = "remove" /\ cmd'.todo = cmd.todo
        /\ cmd'.gone = cmd.gone
    BY <1>3 DEF Kept, MemoryOK
  <2>3. lock'[At] = 0 /\ \A i \in Ids : i # At => lock'[i] = lock[i]
    BY <1>1, <1>3 DEF Kept, DiskOK
  <2>4. Stages' /\ Trust'
    BY <2>2 DEF Kept, Stages, Trust, Placing, NoCommand
  <2>5. \A i \in cmd.gone : lock'[i] = 0
    BY <2>3 DEF Kept, MemoryOK, FilesThere
  <2>6. FilesThere'
    BY <1>1, <2>2, <2>3, <2>5 DEF Kept, FilesThere, At
  <2> QED
    BY <2>1, <2>4, <2>6 DEF Kept
<1> QED
  BY <1>2, <1>3 DEF Forget

\* then the file,
LEMMA UnlinkKeeps ==
  ASSUME Kept, Unlink
  PROVE  Kept'
<1> UNCHANGED <<site, lock, state, run, live>> /\ cmd.todo # <<>> /\ cmd.pc = "unlink"
  BY DEF Unlink, Kept, Stages, past
<1>1. At \in Ids /\ lock[At] = 0 /\ cmd.op = "remove"
  BY AtIsNamed DEF Kept, MemoryOK, Stages, FilesThere, NoCommand, Placing
<1>2. /\ cmd' = [cmd EXCEPT !.pc = "next", !.todo = Tail(@), !.prev = 0,
                            !.gone = @ \cup {At}]
      /\ files' = files \ {<<At, cmd.prev>>}
  BY DEF Unlink
<1>3. DiskOK' /\ MemoryOK'
  <2>1. cmd.gone \cup {At} \in SUBSET Ids /\ Tail(cmd.todo) \in Seq(Ids \X Versions0)
    BY <1>1, AtIsNamed DEF Kept, MemoryOK
  <2>2. files' \subseteq Ids \X Versions /\ 0 \in Versions0
    BY <1>2 DEF Kept, DiskOK, Versions0
  <2> QED
    BY <1>2, <2>1, <2>2 DEF Kept, DiskOK, MemoryOK
<1>4. cmd'.pc = "next" /\ cmd'.op = cmd.op /\ cmd'.gone = cmd.gone \cup {At}
  BY <1>2 DEF Kept, MemoryOK
<1>5. Stages' /\ Trust'
  BY <1>1, <1>4 DEF Kept, Stages, Trust, Placing, NoCommand
<1>6. FilesThere'
  BY <1>1, <1>2, <1>4 DEF Kept, FilesThere
<1> QED
  BY <1>3, <1>5, <1>6 DEF Kept

\* and writes the state at the end.
LEMMA SaveRemovedKeeps ==
  ASSUME Kept, SaveRemoved
  PROVE  Kept'
<1> UNCHANGED <<site, lock, files, run>> /\ live' \subseteq Ids /\ cmd' = NoCommand
  BY SeenTyped DEF SaveRemoved, Kept, DiskOK
<1>1. PICK D \in SUBSET Ids, M \in [Ids -> Versions0] :
         state' = [state EXCEPT !.disabled = D, !.mark = M]
  <2>1. /\ state.disabled \ cmd.gone \in SUBSET Ids
        /\ [i \in Ids |-> IF i \in cmd.gone THEN 0 ELSE state.mark[i]] \in [Ids -> Versions0]
    BY DEF Kept, MemoryOK, Versions0
  <2> QED
    BY <2>1 DEF SaveRemoved
<1>2. DiskOK'
  BY DEF Kept, DiskOK
<1>3. MemoryOK'
  <2>1. state' \in [disabled : SUBSET Ids, accepted : [Locations -> Serials \cup {0}],
                    gen : 1 .. MaxGen, mark : [Ids -> Versions0]]
    BY <1>1 DEF Kept, MemoryOK
  <2> QED
    BY <2>1, Bounds DEF Kept, MemoryOK, NoCommand, Versions0
<1>4. Stages' /\ Trust' /\ FilesThere'
  BY DEF Kept, Stages, Trust, FilesThere, NoCommand, Placing
<1> QED
  BY <1>2, <1>3, <1>4 DEF Kept

\* Enabling and disabling write the state and nothing else.
LEMMA SetEnabledKeeps ==
  ASSUME Kept, NEW args \in Plain, NEW enabled \in BOOLEAN, SetEnabled(args, enabled)
  PROVE  Kept'
<1> UNCHANGED <<site, lock, files, run, cmd>> /\ live' \subseteq Ids /\ cmd = NoCommand
  BY SeenTyped DEF SetEnabled, Kept, DiskOK
<1>1. PICK D \in SUBSET Ids : state' = [state EXCEPT !.disabled = D]
  <2>1. /\ state.disabled \cup Named(args) \in SUBSET Ids
        /\ state.disabled \ Named(args) \in SUBSET Ids
    BY NamedAreIds DEF Kept, MemoryOK, Plain
  <2> QED
    BY <2>1 DEF SetEnabled
<1>2. DiskOK' /\ MemoryOK'
  BY <1>1 DEF Kept, DiskOK, MemoryOK
<1>3. Stages' /\ Trust' /\ FilesThere'
  BY DEF Kept, Stages, Trust, FilesThere, NoCommand, Placing
<1> QED
  BY <1>2, <1>3 DEF Kept

\* Every step keeps them.
LEMMA KeptStep ==
  ASSUME Kept, [Next]_vars
  PROVE  Kept'
<1> DEFINE RunOK == run' \in [pc : {"off", "state", "files"}, want : SUBSET (Ids \X Versions),
                              loaded : SUBSET (Ids \X Versions)]
<1>1. ASSUME Rotate \/ Publish \/ \E l \in Locations : Mirror(l)
      PROVE  Kept'
  <2>1. UNCHANGED <<disk, cmd, run, live>>
    BY <1>1 DEF Rotate, Publish, Mirror, past
  <2>2. RunOK
    BY <2>1 DEF Kept, MemoryOK
  <2>3. site[Official] \in [gen : 1 .. MaxGen, serial : Serials, key : 1 .. MaxGen]
    BY Bounds DEF Kept, DiskOK
  <2>4. CASE Rotate
    <3>1. site[Official].gen + 1 \in 1 .. MaxGen
      BY <2>3, <2>4, MarketAssumption DEF Rotate, MarketAssumption
    <3>2. DiskOK'
      BY <2>1, <2>3, <2>4, <3>1 DEF Kept, DiskOK, Rotate, disk
    <3> QED
      BY <2>1, <2>2, <3>2, StandsStill
  <2>5. CASE Publish
    <3>1. site[Official].serial + 1 \in Serials
      BY <2>3, <2>5, MarketAssumption DEF Publish, MarketAssumption, Serials
    <3>2. DiskOK'
      BY <2>1, <2>3, <2>5, <3>1 DEF Kept, DiskOK, Publish, disk
    <3> QED
      BY <2>1, <2>2, <3>2, StandsStill
  <2>6. CASE \E l \in Locations : Mirror(l)
    <3>1. DiskOK'
      BY <2>1, <2>3, <2>6 DEF Kept, DiskOK, Mirror, disk
    <3> QED
      BY <2>1, <2>2, <3>1, StandsStill
  <2> QED
    BY <1>1, <2>4, <2>5, <2>6
<1>2. CASE Begin
  BY <1>2, BeginKeeps
<1>3. CASE Killed \/ Fails \/ Finish
  BY <1>3, GivesUp DEF Killed, Fails, Finish, Kept, DiskOK, past, disk
<1>4. CASE NextKeys \/ Open
  BY <1>4, NextKeysKeeps, OpenKeeps
<1>5. CASE Resolve \/ Review \/ Write \/ SaveLock \/ DropOld \/ Note
  BY <1>5, ResolveKeeps, ReviewKeeps, WriteKeeps, SaveLockKeeps, DropOldKeeps, NoteKeeps
<1>6. CASE Forget \/ Unlink \/ SaveRemoved
  BY <1>6, ForgetKeeps, UnlinkKeeps, SaveRemovedKeeps
<1>7. ASSUME NEW args \in Plain, NEW enabled \in BOOLEAN, SetEnabled(args, enabled)
      PROVE  Kept'
  BY <1>7, SetEnabledKeeps
<1>8. CASE ReadLock
  <2>1. UNCHANGED <<disk, cmd, site>> /\ live' \subseteq Ids
    BY <1>8 DEF ReadLock, Live
  <2>2. {<<i, lock[i]>> : i \in {j \in Ids : lock[j] # 0}} \in SUBSET (Ids \X Versions)
    BY DEF Kept, DiskOK, Versions0
  <2>3. RunOK
    BY <1>8, <2>2 DEF ReadLock, Kept, MemoryOK
  <2>4. DiskOK'
    BY <2>1 DEF Kept, DiskOK, disk
  <2> QED
    BY <2>1, <2>3, <2>4, StandsStill
<1>9. ASSUME ReadState \/ \E p \in Ids \X Versions : Load(p)
      PROVE  Kept'
  <2>1. UNCHANGED <<disk, cmd, site, live>>
    BY <1>9 DEF ReadState, Load, past
  <2>2. /\ run.want \in SUBSET (Ids \X Versions) /\ run.loaded \in SUBSET (Ids \X Versions)
        /\ \A p \in Ids \X Versions : run.loaded \cup {p} \in SUBSET (Ids \X Versions)
    BY DEF Kept, MemoryOK
  <2>3. RunOK
    <3>1. CASE ReadState
      BY <2>2, <3>1 DEF ReadState, Kept, MemoryOK
    <3>2. CASE \E p \in Ids \X Versions : Load(p)
      <4>1. PICK W \in SUBSET (Ids \X Versions), L \in SUBSET (Ids \X Versions) :
                run' = [run EXCEPT !.want = W, !.loaded = L]
        BY <2>2, <3>2 DEF Load
      <4> QED
        BY <4>1 DEF Kept, MemoryOK
    <3> QED
      BY <1>9, <3>1, <3>2
  <2>4. DiskOK'
    BY <2>1 DEF Kept, DiskOK, disk
  <2> QED
    BY <2>1, <2>3, <2>4, StandsStill
<1>10. CASE Loaded
  <2>1. UNCHANGED <<disk, cmd, site>> /\ live' = {}
    BY <1>10 DEF Loaded
  <2>2. DiskOK' /\ RunOK
    BY <1>10, <2>1 DEF Kept, DiskOK, Loaded, NoRun, disk
  <2> QED
    BY <2>1, <2>2, StandsStill
<1>11. CASE UNCHANGED vars
  BY <1>11, StandsStill DEF vars, disk, past, Kept, DiskOK, MemoryOK
<1> QED
  BY <1>1, <1>2, <1>3, <1>4, <1>5, <1>6, <1>7, <1>8, <1>9, <1>10, <1>11 DEF Next
-----------------------------------------------------------------------------
(* The store that loads from the directory.                                  *)

\* Every entry has its file, so what is found is what the lockfile says.
LEMMA FoundIsLocked ==
  ASSUME Kept
  PROVE  [i \in Ids |-> Found(i)] = lock
<1>1. \A i \in Ids : Found(i) = lock[i]
  BY DEF Kept, FilesThere, Found
<1> QED
  BY <1>1 DEF Kept, DiskOK

\* Two steps write the lockfile, one the serials and keys that are relied on.
LEMMA StoreStep ==
  ASSUME Kept, Kept', [Next]_vars
  PROVE  [Store!Next]_(Store!vars)
<1>1. [i \in Ids |-> Found(i)] = lock /\ [i \in Ids |-> Found(i)]' = lock'
  <2>1. \A i \in Ids : Found(i)' = lock'[i]
    BY DEF Kept, FilesThere, Found
  <2>2. [i \in Ids |-> Found(i)]' = lock'
    BY <2>1 DEF Kept, DiskOK
  <2> QED
    BY <2>2, FoundIsLocked
<1>2. CASE Open /\ state' # state
  <2>1. cmd.loc \in Locations /\ site[cmd.loc].serial \in Serials
    BY DEF Kept, DiskOK, MemoryOK
  <2>2. /\ state' = [state EXCEPT !.accepted[cmd.loc] = site[cmd.loc].serial, !.gen = cmd.keys]
        /\ site[cmd.loc].serial >= state.accepted[cmd.loc] /\ lock' = lock
    BY <1>2 DEF Open, Accepts, disk
  <2>3. /\ state'.accepted = [state.accepted EXCEPT ![cmd.loc] = site[cmd.loc].serial]
        /\ state'.gen = cmd.keys
    BY <2>2 DEF Kept, MemoryOK
  <2>4. cmd.keys \in state.gen .. MaxGen
    BY <1>2 DEF Open, Kept, MemoryOK, Trust
  <2>5. Store!Accept(cmd.loc)
    BY <1>1, <2>1, <2>2, <2>3, <2>4 DEF Store!Accept
  <2> QED
    BY <2>1, <2>5 DEF Store!Next
<1>3. CASE SaveLock
  <2>1. At \in Ids /\ lock' = [lock EXCEPT ![At] = cmd.ver] /\ state' = state
    BY <1>3, AtIsNamed DEF SaveLock, Kept, Stages, Placing
  <2>2. /\ cmd.loc \in Locations /\ state.accepted[cmd.loc] # 0
        /\ cmd.ver \in Listed[state.accepted[cmd.loc]] \ Yanked[state.accepted[cmd.loc]]
    BY <1>3 DEF SaveLock, Kept, MemoryOK, Stages, Trust, Placing, NoCommand
  <2>3. cmd.ver \in Store!Offered
    BY <2>2 DEF Store!Offered
  <2>4. Store!Put(At)
    BY <1>1, <2>1, <2>3 DEF Store!Put
  <2> QED
    BY <2>1, <2>4 DEF Store!Next
<1>4. CASE Forget /\ lock[At] # 0
  <2>1. At \in Ids /\ lock' = [lock EXCEPT ![At] = 0] /\ state' = state
    BY <1>4, AtIsNamed DEF Forget, Kept
  <2>2. Store!Drop(At)
    BY <1>1, <2>1 DEF Store!Drop
  <2> QED
    BY <2>1, <2>2 DEF Store!Next
<1>5. CASE lock' = lock /\ state'.accepted = state.accepted /\ state'.gen = state.gen
  BY <1>1, <1>5 DEF Store!vars
<1>6. CASE Open /\ state' = state
  BY <1>5, <1>6 DEF Open
<1>7. CASE Forget /\ lock[At] = 0
  BY <1>5, <1>7 DEF Forget
<1>8. CASE Review \/ Note \/ SaveRemoved \/ \E args \in Plain, enabled \in BOOLEAN :
                                              SetEnabled(args, enabled)
  <2>1. /\ lock' = lock
        /\ \E D, M : state' = [state EXCEPT !.disabled = D, !.mark = M]
    <3>1. CASE Review
      <4>1. PICK v : state' = [state EXCEPT !.mark[At] = v]
        BY <3>1 DEF Review
      <4>2. state' = [state EXCEPT !.disabled = state.disabled,
                                   !.mark = [state.mark EXCEPT ![At] = v]]
        BY <4>1 DEF Kept, MemoryOK
      <4> QED
        BY <3>1, <4>2 DEF Review
    <3>2. CASE Note
      <4>1. state' = [state EXCEPT !.disabled = state.disabled,
                                   !.mark = [state.mark EXCEPT ![At] = 0]]
        BY <3>2 DEF Note, Kept, MemoryOK
      <4> QED
        BY <3>2, <4>1 DEF Note
    <3>3. CASE SaveRemoved
      BY <3>3 DEF SaveRemoved
    <3>4. ASSUME NEW args \in Plain, NEW enabled \in BOOLEAN, SetEnabled(args, enabled)
          PROVE  <2>1!2 /\ lock' = lock
      <4>1. PICK D : state' = [state EXCEPT !.disabled = D]
        BY <3>4 DEF SetEnabled
      <4>2. state' = [state EXCEPT !.disabled = D, !.mark = state.mark]
        BY <4>1 DEF Kept, MemoryOK
      <4> QED
        BY <3>4, <4>2 DEF SetEnabled
    <3> QED
      BY <1>8, <3>1, <3>2, <3>3, <3>4
  <2>2. state'.accepted = state.accepted /\ state'.gen = state.gen
    BY <2>1 DEF Kept, MemoryOK
  <2> QED
    BY <1>5, <2>1, <2>2
<1>9. CASE UNCHANGED <<lock, state>>
  BY <1>5, <1>9
<1> QED
  BY <1>2, <1>3, <1>4, <1>6, <1>7, <1>8, <1>9
  DEF Next, vars, disk, Rotate, Publish, Mirror, Begin, Killed, Fails, NextKeys, Resolve,
      Write, DropOld, Finish, Unlink, ReadLock, ReadState, Load, Loaded
-----------------------------------------------------------------------------
(* While no command was killed.                                              *)

\* No file is there that no command is about to name in the lockfile or to drop.
LEMMA NoStrayStep ==
  ASSUME Kept, NoStray, [Next]_vars
  PROVE  NoStray' \/ Killed
<1> USE DEF Kept, NoStray
<1>1. CASE UNCHANGED <<lock, files, cmd>>
  BY <1>1 DEF At
<1>2. CASE /\ UNCHANGED <<lock, files>>
           /\ cmd.pc \notin {"save", "drop", "unlink"}
  BY <1>2
<1>3. CASE Write
  <2>1. /\ cmd'.pc = "save" /\ At' = At /\ cmd'.ver = cmd.ver
        /\ files' = files \cup {<<At, cmd.ver>>} /\ lock' = lock /\ cmd.pc = "write"
    BY <1>3 DEF Write, MemoryOK, At
  <2> QED
    BY <2>1
<1>4. CASE SaveLock
  <2>1. At \in Ids /\ cmd.pc = "save" /\ cmd.prev = lock[At]
    BY <1>4, AtIsNamed DEF SaveLock, Stages, Placing, FilesThere
  <2>2. /\ cmd'.pc = "drop" /\ At' = At /\ cmd'.prev = cmd.prev /\ files' = files
        /\ lock'[At] = cmd.ver /\ \A i \in Ids : i # At => lock'[i] = lock[i]
    BY <1>4, <2>1 DEF SaveLock, MemoryOK, DiskOK, At
  <2> QED
    BY <2>1, <2>2
<1>5. CASE DropOld
  <2>1. lock[At] = cmd.ver /\ cmd.pc = "drop" /\ lock' = lock
    BY <1>5 DEF DropOld, FilesThere
  <2>2. files' = IF cmd.prev # cmd.ver THEN files \ {<<At, cmd.prev>>} ELSE files
    BY <1>5 DEF DropOld
  <2> QED
    BY <2>1, <2>2
<1>6. CASE Forget /\ lock[At] # 0
  <2>1. At \in Ids
    BY <1>6, AtIsNamed DEF Forget
  <2>2. /\ cmd.pc = "next" /\ cmd'.pc = "unlink" /\ At' = At /\ cmd'.prev = lock[At]
        /\ files' = files /\ \A i \in Ids : i # At => lock'[i] = lock[i]
    BY <1>6, <2>1 DEF Forget, MemoryOK, DiskOK, At
  <2> QED
    BY <2>1, <2>2
<1>7. CASE Unlink
  <2>1. lock' = lock /\ files' = files \ {<<At, cmd.prev>>} /\ cmd.pc = "unlink"
    BY <1>7 DEF Unlink
  <2> QED
    BY <2>1
<1> HIDE DEF Kept, NoStray
<1>8. CASE \/ Fails \/ NextKeys \/ Open \/ Resolve \/ Review \/ Note \/ Finish
           \/ SaveRemoved \/ (Forget /\ lock[At] = 0)
  BY <1>2, <1>8 DEF Fails, NextKeys, Open, Resolve, Review, Note, Finish, SaveRemoved, Forget,
                    disk
<1>9. CASE Begin
  BY <1>2, <1>9 DEF Begin, NoCommand, disk
<1>10. CASE \/ Rotate \/ Publish \/ (\E l \in Locations : Mirror(l))
            \/ (\E args \in Plain, enabled \in BOOLEAN : SetEnabled(args, enabled))
            \/ ReadLock \/ ReadState \/ (\E p \in Ids \X Versions : Load(p)) \/ Loaded
            \/ UNCHANGED vars
  BY <1>1, <1>10 DEF Rotate, Publish, Mirror, SetEnabled, ReadLock, ReadState, Load, Loaded,
                     vars, disk
<1> QED
  BY <1>3, <1>4, <1>5, <1>6, <1>7, <1>8, <1>9, <1>10 DEF Next

\* A package that is disabled is installed, or a removal is about to enable it.
LEMMA NoneDisabledStep ==
  ASSUME Kept, NoneDisabled, [Next]_vars
  PROVE  NoneDisabled' \/ Killed
<1> USE DEF Kept, NoneDisabled
<1>1. CASE UNCHANGED <<lock, state, cut, cmd>>
  BY <1>1 DEF At
<1>2. CASE /\ UNCHANGED <<lock, cut>> /\ state'.disabled = state.disabled
           /\ cmd.gone \subseteq cmd'.gone /\ cmd.pc # "unlink"
  BY <1>2
<1>3. CASE Begin \/ Fails \/ NextKeys \/ Open \/ Resolve \/ Review \/ Write \/ DropOld \/ Note
             \/ Finish
  <2> HIDE DEF Kept, NoneDisabled
  <2>1. UNCHANGED <<lock, cut>> /\ cmd.pc # "unlink"
    <3>1. CASE Begin
      BY <3>1 DEF Begin, disk, past, NoCommand
    <3> QED
      BY <1>3, <3>1 DEF Fails, NextKeys, Open, Resolve, Review, Write, DropOld, Note, Finish,
                        disk, past
  <2>2. state'.disabled = state.disabled
    BY <1>3 DEF Begin, Fails, NextKeys, Open, Resolve, Review, Write, DropOld, Note, Finish,
                disk, Kept, MemoryOK
  <2>3. cmd.gone = {}
    BY <1>3 DEF Begin, Fails, NextKeys, Open, Resolve, Review, Write, DropOld, Note, Finish,
                NoCommand, Kept, Stages, Placing
  <2> QED
    BY <1>2, <2>1, <2>2, <2>3
<1>4. CASE SaveLock
  <2>1. At \in Ids /\ cmd.ver \in Versions
    <3>1. cmd.serial \in Serials
      BY <1>4 DEF SaveLock, MemoryOK, Stages, Trust, Placing, NoCommand
    <3> QED
      BY <1>4, <3>1, AtIsNamed, Bounds DEF SaveLock, Stages, Trust, Placing
  <2>2. /\ cmd'.gone = cmd.gone /\ state' = state /\ cut' = cut /\ lock'[At] # 0 /\ cmd.pc = "save"
        /\ \A i \in Ids : i # At => lock'[i] = lock[i]
    BY <1>4, <2>1, Bounds DEF SaveLock, MemoryOK, DiskOK
  <2>3. state.disabled \subseteq Ids
    BY DEF MemoryOK
  <2> QED
    BY <2>1, <2>2, <2>3
<1>5. CASE Forget
  <2>1. At \in Ids /\ state' = state /\ cmd.pc = "next" /\ state.disabled \subseteq Ids
    BY <1>5, AtIsNamed DEF Forget, MemoryOK
  <2>2. CASE lock[At] = 0
    BY <1>5, <2>1, <2>2 DEF Forget
  <2>3. CASE lock[At] # 0
    <3>1. /\ cmd'.pc = "unlink" /\ cmd'.gone = cmd.gone /\ At' = At /\ cut' = cut
          /\ \A i \in Ids : i # At => lock'[i] = lock[i]
      BY <1>5, <2>1, <2>3 DEF Forget, MemoryOK, DiskOK, At
    <3> QED
      BY <2>1, <3>1
  <2> QED
    BY <2>2, <2>3
<1>6. CASE Unlink
  <2>1. /\ lock' = lock /\ state' = state /\ cut' = cut /\ cmd'.gone = cmd.gone \cup {At}
    BY <1>6 DEF Unlink, past, MemoryOK
  <2> QED
    BY <2>1
<1>7. CASE SaveRemoved
  <2>1. /\ lock' = lock /\ cut' = cut /\ cmd.pc = "next"
        /\ state'.disabled = state.disabled \ cmd.gone
    BY <1>7 DEF SaveRemoved, MemoryOK
  <2> QED
    BY <2>1
<1>8. ASSUME NEW args \in Plain, NEW enabled \in BOOLEAN, SetEnabled(args, enabled)
      PROVE  NoneDisabled'
  <2>1. /\ UNCHANGED <<lock, cut, cmd>> /\ cmd = NoCommand
        /\ \A i \in Named(args) : lock[i] # 0
        /\ state'.disabled \subseteq state.disabled \cup Named(args)
    BY <1>8 DEF SetEnabled, MemoryOK
  <2> QED
    BY <2>1 DEF NoCommand
<1> QED
  BY <1>1, <1>3, <1>4, <1>5, <1>6, <1>7, <1>8
  DEF Next, vars, disk, past, Rotate, Publish, Mirror, ReadLock, ReadState, Load, Loaded

\* A step of a command keeps what a run relies on, when the history follows it
\* and a package that was not live stays without its file, or disabled.
LEMMA RunWaits ==
  ASSUME Wanted, run' = run,
         run.pc # "off" => live \subseteq live' /\ Live' \subseteq live',
         \A p \in run.want :
            p[1] \notin live' =>
              /\ p[1] \in state.disabled
                   => p[1] \in state'.disabled \/ (p \notin files' /\ p[1] \notin state'.disabled)
              /\ p \notin files /\ p[1] \notin state.disabled
                   => p \notin files' /\ p[1] \notin state'.disabled
  PROVE  Wanted'
<1>1. CASE run.pc = "off"
  BY <1>1 DEF Wanted, NoRun
<1>2. CASE run.pc # "off"
  BY <1>2 DEF Wanted
<1> QED
  BY <1>1, <1>2

\* The history follows a step that says so,
LEMMA SeenFollows ==
  ASSUME Seen, run.pc # "off"
  PROVE  live \subseteq live' /\ Live' \subseteq live'
  BY DEF Seen

\* and one that makes nothing live.
LEMMA NothingLive ==
  ASSUME Wanted, run.pc # "off", UNCHANGED <<lock, live>>, state'.disabled = state.disabled,
         cmd'.pc = "save" => cmd' = cmd
  PROVE  live \subseteq live' /\ Live' \subseteq live'
<1>1. Live' \subseteq Live
  <2>1. CASE cmd'.pc = "save"
    BY <2>1 DEF Live, At
  <2>2. CASE cmd'.pc # "save"
    BY <2>2 DEF Live
  <2> QED
    BY <2>1, <2>2
<1> QED
  BY <1>1 DEF Wanted

\* What a run wants was live in it, or is not there to be loaded.
LEMMA WantedStep ==
  ASSUME Kept, NoStray, Wanted, [Next]_vars
  PROVE  Wanted' \/ Killed
<1>1. CASE Rotate \/ Publish \/ (\E l \in Locations : Mirror(l)) \/ Begin \/ Fails \/ NextKeys
             \/ Resolve \/ Finish \/ DropOld \/ Unlink \/ UNCHANGED vars
  <2>1. UNCHANGED <<run, lock, state, live>> /\ files' \subseteq files
    BY <1>1 DEF Rotate, Publish, Mirror, Begin, Fails, NextKeys, Resolve, Finish, DropOld,
                Unlink, vars, disk, past
  <2>2. cmd'.pc = "save" => cmd' = cmd
    <3> USE DEF Kept, MemoryOK
    <3>1. CASE Rotate \/ Publish \/ (\E l \in Locations : Mirror(l)) \/ UNCHANGED vars
      BY <3>1 DEF Rotate, Publish, Mirror, vars
    <3>2. CASE Begin
      <4>1. cmd'.pc \in {"keys", "next"}
        BY <3>2 DEF Begin, NoCommand
      <4> QED
        BY <4>1
    <3>3. CASE Fails \/ Finish
      BY <3>3 DEF Fails, Finish, NoCommand
    <3>4. CASE NextKeys
      BY <3>4 DEF NextKeys
    <3>5. CASE Resolve
      <4>1. CASE cmd' = NoCommand
        BY <4>1 DEF NoCommand
      <4>2. CASE cmd' = [cmd EXCEPT !.todo = Tail(@)]
        BY <3>5, <4>2 DEF Resolve
      <4>3. ASSUME NEW v, cmd' = [cmd EXCEPT !.pc = "write", !.ver = v]
            PROVE  cmd'.pc # "save"
        BY <4>3
      <4> QED
        BY <3>5, <4>1, <4>2, <4>3 DEF Resolve
    <3>6. CASE DropOld \/ Unlink
      BY <3>6 DEF DropOld, Unlink
    <3> QED
      BY <1>1, <3>1, <3>2, <3>3, <3>4, <3>5, <3>6
  <2> QED
    BY <2>1, <2>2, NothingLive, RunWaits
<1>2. CASE Open \/ Review \/ SaveLock \/ Note \/ Forget
  <2>1. UNCHANGED <<run, files>> /\ Seen
    BY <1>2 DEF Open, Review, SaveLock, Note, Forget
  <2>2. state'.disabled = state.disabled
    BY <1>2 DEF Open, Review, SaveLock, Note, Forget, Kept, MemoryOK
  <2> QED
    BY <2>1, <2>2, SeenFollows, RunWaits
<1>3. CASE Write
  <2>1. /\ UNCHANGED <<run, state>> /\ Seen /\ files' = files \cup {<<At, cmd.ver>>}
        /\ cmd'.pc = "save" /\ At' = At /\ At \in Ids
    BY <1>3, AtIsNamed DEF Write, Kept, MemoryOK, Stages, Placing, At
  <2>2. At \in state.disabled \/ At \in Live'
    BY <2>1 DEF Live
  <2>3. run.pc # "off" => At \in state.disabled \/ At \in live'
    BY <2>1, <2>2, SeenFollows
  <2>4. run.pc = "off" => run.want = {}
    BY DEF Wanted, NoRun
  <2> QED
    BY <2>1, <2>3, <2>4, SeenFollows, RunWaits
<1>4. CASE SaveRemoved
  <2>1. /\ UNCHANGED <<run, files, lock>> /\ Seen /\ cmd.pc = "next"
        /\ state'.disabled = state.disabled \ cmd.gone
    BY <1>4 DEF SaveRemoved, Kept, MemoryOK
  <2>2. \A p \in run.want : p[1] \in cmd.gone => p \notin files
    <3>1. run.want \subseteq Ids \X Versions
      BY DEF Kept, MemoryOK
    <3>2. ASSUME NEW i \in Ids, NEW v \in Versions, i \in cmd.gone PROVE <<i, v>> \notin files
      BY <2>1, <3>2, Bounds DEF NoStray, Kept, FilesThere
    <3> QED
      BY <3>1, <3>2
  <2> QED
    BY <2>1, <2>2, SeenFollows, RunWaits
<1>5. ASSUME NEW args \in Plain, NEW enabled \in BOOLEAN, SetEnabled(args, enabled)
      PROVE  Wanted'
  <2>1. /\ UNCHANGED <<run, files, lock, cmd>> /\ Seen /\ Named(args) \subseteq Ids
        /\ \A i \in Named(args) : lock[i] # 0
        /\ state'.disabled = IF enabled THEN state.disabled \ Named(args)
                                        ELSE state.disabled \cup Named(args)
    BY <1>5, NamedAreIds DEF SetEnabled, Kept, MemoryOK, Plain
  <2>2. CASE enabled
    <3>1. state.disabled \cap Named(args) \subseteq Live'
      BY <2>1, <2>2 DEF Live
    <3>2. run.pc # "off" => state.disabled \cap Named(args) \subseteq live'
      BY <2>1, <3>1, SeenFollows
    <3>3. run.pc = "off" => run.want = {}
      BY DEF Wanted, NoRun
    <3> QED
      BY <2>1, <2>2, <3>2, <3>3, SeenFollows, RunWaits
  <2>3. CASE ~enabled
    <3>1. Named(args) \ state.disabled \subseteq Live
      BY <2>1 DEF Live
    <3>2. run.pc # "off" => Named(args) \ state.disabled \subseteq live'
      BY <2>1, <3>1, SeenFollows DEF Wanted
    <3>3. run.pc = "off" => run.want = {}
      BY DEF Wanted, NoRun
    <3> QED
      BY <2>1, <2>3, <3>2, <3>3, SeenFollows, RunWaits
  <2> QED
    BY <2>2, <2>3
<1>6. CASE ReadLock
  <2>1. /\ run'.pc = "state" /\ run'.loaded = {} /\ live' = Live
        /\ run'.want = {<<i, lock[i]>> : i \in {j \in Ids : lock[j] # 0}}
        /\ UNCHANGED <<lock, files, state, cmd>>
    BY <1>6 DEF ReadLock, NoRun, disk
  <2>2. Live' = Live
    BY <2>1 DEF Live, At
  <2>3. \A i \in Ids : lock[i] # 0 => i \in Live \/ i \in state.disabled
    BY DEF Live
  <2> QED
    BY <2>1, <2>2, <2>3 DEF Wanted, NoRun
<1>7. CASE ReadState \/ (\E p \in Ids \X Versions : Load(p))
  <2>1. UNCHANGED <<lock, files, state, cmd, live>> /\ run.pc # "off"
    BY <1>7 DEF ReadState, Load, disk, past
  <2>2. Live' = Live
    BY <2>1 DEF Live, At
  <2>3. CASE ReadState
    <3>1. /\ run'.pc = "files" /\ run'.loaded = run.loaded
          /\ run'.want = {p \in run.want : p[1] \notin state.disabled}
      BY <2>3 DEF ReadState, Kept, MemoryOK
    <3> QED
      BY <2>1, <2>2, <3>1 DEF Wanted
  <2>4. ASSUME NEW p \in Ids \X Versions, Load(p) PROVE Wanted'
    <3>1. /\ run.pc = "files" /\ p \in run.want /\ run'.pc = "files" /\ run'.want = run.want \ {p}
          /\ run'.loaded = IF p \in files THEN run.loaded \cup {p} ELSE run.loaded
      BY <2>4 DEF Load, Kept, MemoryOK
    <3>2. \A q \in run'.loaded : q[1] \in live
      BY <3>1 DEF Wanted
    <3> QED
      BY <2>1, <2>2, <3>1, <3>2 DEF Wanted
  <2> QED
    BY <1>7, <2>3, <2>4
<1>8. CASE Loaded
  BY <1>8 DEF Loaded, Wanted, NoRun
<1> QED
  BY <1>1, <1>2, <1>3, <1>4, <1>5, <1>6, <1>7, <1>8 DEF Next
-----------------------------------------------------------------------------
\* In every state a command reaches, killed or not, what it holds in memory fits the
\* disk it is about to write.
THEOREM Inductive == Spec => []IInv
<1>1. Init => IInv
  <2> SUFFICES ASSUME Init PROVE IInv
    OBVIOUS
  <2>1. DiskOK
    BY Bounds DEF Init, DiskOK, Versions0
  <2>2. MemoryOK
    BY Bounds DEF Init, MemoryOK, NoState, NoCommand, NoRun, Versions0
  <2>3. Stages /\ Trust /\ FilesThere
    BY DEF Init, Stages, Trust, FilesThere, NoState, NoCommand, Placing
  <2>4. Clean
    BY DEF Init, Clean, NoStray, NoneDisabled, Wanted, NoState, NoCommand, NoRun
  <2> QED
    BY <2>1, <2>2, <2>3, <2>4 DEF Init, IInv, Kept
<1>2. IInv /\ [Next]_vars => IInv'
  <2> SUFFICES ASSUME IInv, [Next]_vars PROVE IInv'
    OBVIOUS
  <2>1. Kept'
    BY KeptStep DEF IInv
  <2>2. kills' \in Nat /\ (kills' = 0 => kills = 0 /\ ~Killed)
    <3>1. CASE Killed
      BY <3>1 DEF Killed, IInv
    <3>2. CASE ~Killed
      <4>1. kills' = kills
        BY <3>2 DEF Next, vars, count, Rotate, Publish, Mirror, Begin, Fails, NextKeys, Open,
                    Resolve, Review, Write, SaveLock, DropOld, Note, Finish, Forget, Unlink,
                    SaveRemoved, SetEnabled, ReadLock, ReadState, Load, Loaded
      <4> QED
        BY <3>2, <4>1 DEF IInv
    <3> QED
      BY <3>1, <3>2
  <2>3. Clean'
    BY <2>2, NoStrayStep, NoneDisabledStep, WantedStep DEF IInv, Clean
  <2> QED
    BY <2>1, <2>2, <2>3 DEF IInv
<1> QED
  BY <1>1, <1>2, PTL DEF Spec

\* Every variable keeps its type, whatever is killed.
THEOREM TypeCorrect == Spec => []TypeOK
<1>1. IInv => TypeOK
  BY Typed DEF IInv, Kept
<1> QED
  BY <1>1, Inductive, PTL

\* The directory implements the store at every step of every command.
THEOREM Refinement == Spec => Implements
<1>1. Init => Store!Init
  <2> SUFFICES ASSUME Init PROVE Store!Init
    OBVIOUS
  <2>1. \A i \in Ids : Found(i) = 0
    BY DEF Init, Found
  <2> QED
    BY <2>1 DEF Init, NoState, Store!Init
<1>2. IInv /\ IInv' /\ [Next]_vars => [Store!Next]_(Store!vars)
  BY StoreStep DEF IInv
<1> QED
  BY <1>1, <1>2, Inductive, PTL DEF Spec, Implements, Store!Spec

\* While no command was killed, what a run loads was live in it.
THEOREM LoadsLive == Spec => []LoadsOnlyLive
<1>1. IInv => LoadsOnlyLive
  BY DEF IInv, Clean, Wanted, LoadsOnlyLive
<1> QED
  BY <1>1, Inductive, PTL

\* Between two commands, none of them killed, no file and no mark is left over.
THEOREM RestsClean == Spec => []AtRest
<1>1. IInv => AtRest
  <2> SUFFICES ASSUME IInv, kills = 0, cmd.op = "none"
               PROVE  /\ files = {<<i, lock[i]>> : i \in {j \in Ids : lock[j] # 0}}
                      /\ cut \/ \A i \in state.disabled : lock[i] # 0
    BY DEF AtRest
  <2>1. cmd.pc = "off" /\ cmd.gone = {}
    BY DEF IInv, Kept, Stages, NoCommand
  <2>2. \A i \in Ids, v \in Versions : <<i, v>> \in files <=> lock[i] = v
    BY <2>1, Bounds DEF IInv, Kept, Clean, NoStray, FilesThere
  <2>3. files \subseteq Ids \X Versions /\ lock \in [Ids -> Versions0]
    BY DEF IInv, Kept, DiskOK
  <2>4. files = {<<i, lock[i]>> : i \in {j \in Ids : lock[j] # 0}}
    BY <2>2, <2>3, Bounds DEF Versions0
  <2>5. cut \/ \A i \in state.disabled : lock[i] # 0
    BY <2>1 DEF IInv, Clean, NoneDisabled
  <2> QED
    BY <2>4, <2>5
<1> QED
  BY <1>1, Inductive, PTL
=============================================================================
