---------------------------- MODULE PackageStore ----------------------------
(* What the plugin directory of `rich` promises whoever loads from it,       *)
(* whatever a command is in the middle of and wherever one was killed: a     *)
(* package is at one version or it is absent, a version comes only from an   *)
(* index the store accepted, and what the store trusts never goes back.      *)
(* Marketplace implements it.                                                *)
EXTENDS Naturals

CONSTANTS Ids,            \* packages
          Locations,      \* marketplaces
          Serials,        \* serials of an index
          MaxGen,         \* the last generation of keys
          Listed,         \* the versions an index lists, by its serial
          Yanked          \* those of them it marks yanked

VARIABLES installed,      \* the version of each package, 0 for none
          accepted,       \* the last serial taken from each location, or 0
          generation      \* the newest generation of keys relied on

vars == <<installed, accepted, generation>>

\* The versions some accepted index offers.
Offered ==
    UNION {Listed[accepted[l]] \ Yanked[accepted[l]] :
               l \in {k \in Locations : accepted[k] # 0}}

Init ==
    /\ installed = [i \in Ids |-> 0]
    /\ accepted = [l \in Locations |-> 0]
    /\ generation = 1

Accept(l) ==
    /\ \E s \in Serials : s >= accepted[l] /\ accepted' = [accepted EXCEPT ![l] = s]
    /\ generation' \in generation .. MaxGen
    /\ UNCHANGED installed

Put(i) ==
    /\ \E v \in Offered : installed' = [installed EXCEPT ![i] = v]
    /\ UNCHANGED <<accepted, generation>>

Drop(i) ==
    /\ installed' = [installed EXCEPT ![i] = 0]
    /\ UNCHANGED <<accepted, generation>>

Next == (\E l \in Locations : Accept(l)) \/ (\E i \in Ids : Put(i) \/ Drop(i))

Spec == Init /\ [][Next]_vars
=============================================================================
