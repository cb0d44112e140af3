----------------------------- MODULE MCLayout ------------------------------
(***************************************************************************)
(* HeaderSlots and KvLayout for TLC.  They share no state: `part` says     *)
(* which a behaviour is about, and the other stays as it begins.           *)
(* The layout has four chunks of one or two units, and three stages.       *)
(***************************************************************************)
EXTENDS HeaderSlots, KvLayout

CONSTANTS a, b, c, d

MCChunks == {a, b, c, d}
MCSize == (a :> 1) @@ (b :> 2) @@ (c :> 1) @@ (d :> 1)
MCBlocks == <<1, 6, 8>>
MCCapacity == <<1, 3, 4>>

Entry(k, at) == [key |-> k, size |-> MCSize[k], at |-> at]
Hole(n) == [key |-> a, size |-> n, at |-> "void"]

\* WALs of one or two entries: shorter than the growth zone;
\* as long, with voids; longer, with the entry that straddles its end the last.
MCWals == {<<Entry(a, "buffer"), Hole(2)>>,
           <<Entry(b, "page"), Entry(c, "buffer")>>,
           <<Entry(a, "page"), Entry(b, "buffer"), Hole(2)>>,
           <<Hole(1), Entry(a, "page"), Hole(2), Entry(b, "buffer")>>,
           <<Entry(a, "page"), Hole(2), Entry(c, "buffer"), Hole(2)>>}

Mix(crash, sweep, flush, scan, read) ==
    ("crash" :> crash) @@ ("sweep" :> sweep) @@ ("flush" :> flush) @@ ("rebuild" :> scan)
        @@ ("read" :> read)

MCMixes == {Mix(2, 0, 1, 0, 0), Mix(1, 1, 1, 0, 0), Mix(1, 0, 1, 1, 0),
            Mix(0, 1, 0, 1, 0), Mix(0, 1, 0, 0, 1)}

VARIABLE part

MCInit ==
    /\ part \in {"slots", "layout"}
    /\ Init /\ LInit
    /\ part = "slots" => budget = Mix(0, 1, 0, 1, 0) /\ file = FileOf(<<Entry(a, "buffer"), Hole(2)>>)

HeaderOnly == part = "slots" /\ UNCHANGED <<lvars, part>>
LayoutOnly == part = "layout" /\ UNCHANGED <<vars, part>>

MCNext == (HeaderOnly /\ Next) \/ (LayoutOnly /\ LNext)

MCSpec == MCInit /\ [][MCNext]_<<vars, lvars, part>> /\ WF_lvars(LayoutOnly /\ Start)
============================================================================
