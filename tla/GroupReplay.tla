----------------------------- MODULE GroupReplay -----------------------------
(***************************************************************************)
(* The membership tree as a gateway rebuilds it from the events of         *)
(* StakedReputationSet: reconstructGroup() of lib/root-provider.mjs.       *)
(***************************************************************************)
EXTENDS StakedReputationSet, SequencesExt

Empty == [leaf |-> [i \in Slots |-> Zero], size |-> 0, liveIndex |-> [c \in {} |-> 0], active |-> 0]

\* Map.set() and Map.delete().
With(m, key, value) == [k \in DOMAIN m \cup {key} |-> IF k = key THEN value ELSE m[k]]

Without(m, key) == [k \in DOMAIN m \ {key} |-> m[k]]

\* Mutant: the append index is the number of live members.
ApplyCompacting(g, e) ==
    LET live == e.c \in DOMAIN g.liveIndex
    IN  IF e.what = "registered" /\ ~live
        THEN [leaf |-> [g.leaf EXCEPT ![g.active] = e.c], size |-> g.size + 1,
              liveIndex |-> With(g.liveIndex, e.c, g.active), active |-> g.active + 1]
        ELSE IF e.what # "registered" /\ live
        THEN [g EXCEPT !.leaf[g.liveIndex[e.c]] = Zero, !.liveIndex = Without(@, e.c), !.active = @ - 1]
        ELSE g

\* One event.  A registration of a live commitment, and a removal of one that
\* is not live, are skipped.
Apply(g, e) ==
    LET live == e.c \in DOMAIN g.liveIndex
    IN  IF e.what = "registered" /\ ~live
        THEN [leaf |-> [g.leaf EXCEPT ![g.size] = e.c], size |-> g.size + 1,
              liveIndex |-> With(g.liveIndex, e.c, g.size), active |-> g.active + 1]
        ELSE IF e.what # "registered" /\ live
        THEN [g EXCEPT !.leaf[g.liveIndex[e.c]] = Zero, !.liveIndex = Without(@, e.c), !.active = @ - 1]
        ELSE g

reconstructGroup(logs) == FoldLeft(Apply, Empty, logs)

\* The root over all leaves of the rebuilt group, used or not.
RootOfGroup(g) == RootOf([i \in 0..(Width[Depth] - 1) |-> IF i \in Slots THEN g.leaf[i] ELSE Zero])

\* The tree on chain and the one rebuilt from its events have the same leaves
\* at the same indices, and the same root: the nodes that earlier paths left in
\* storage are never stale, whatever was undone.  The roots may differ for good
\* once the word 0 is registered: the replay has a leaf with that value, and the
\* contract takes its slot for one that was never written.
TreeIsReplay ==
    LET g == reconstructGroup(st.log)
    IN  /\ g.leaf = st.leaf /\ g.size = st.nextIndex /\ g.active = st.activeCount
        /\ (\A c \in Commitments : Exists(c) => c # Blank) => tree.root = RootOfGroup(g)

\* The contract holds exactly the bonds of its members, active or exiting.
Solvent == st.balance = FoldFunction(+, 0, [c \in Commitments |-> st.members[c].bond])
=============================================================================
