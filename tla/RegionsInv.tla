------------------------------ MODULE RegionsInv ------------------------------
(* The inductive invariant of Regions. *)
EXTENDS Regions

\* A context records what its exit needs: disable() is entered with the switch
\* on and turns it off, region() and cuda_graph() turn it on, PyTorch's graphs
\* leave it.  Without contexts in disable(), disable() is the innermost one.
FrameOk(f, innermost) ==
    /\ f.kind \in {"region", "graph"} => f.asked.interesting
    /\ f.kind = "plain" => f.asked = f.saved
    /\ f.kind = "disable" =>
          /\ f.saved.interesting /\ f.asked = [f.saved EXCEPT !.interesting = FALSE]
          /\ NestInDisable \/ innermost

FramesInv == \A t \in Threads : \A i \in DOMAIN frames[t] :
                 FrameOk(frames[t][i], i = Len(frames[t]))

\* Where a context puts its allocations.  A pool of graphs is for what the first
\* of them asked, if clients do not share it at will.
PlaceOk(f, first) ==
    /\ f.kind = "region" =>
          /\ f.pool = IF SwapsSetting THEN Null ELSE RegionPool(f.asked.tag, f.asked.backup)
          /\ f.stream = Null
    /\ f.kind \in {"graph", "plain"} =>
          /\ HookMode = "preload" /\ f.stream \in GraphStreams
          /\ \E g \in GraphPools : /\ f.pool = <<"graph", g>>
                                   /\ SharePools \/ first[g] = TrackingOf(f.asked)
    /\ f.kind = "disable" => f.pool = Null /\ f.stream = "untracked"

PlacesInv == \A t \in Threads : \A i \in DOMAIN frames[t] : PlaceOk(frames[t][i], purpose)

\* Only the expandable segments' setting is ever changed.
SettingInv == (SwapsSetting \/ setting = Expandable) /\ SettingRestored

\* How a block of a pool and a stream is tracked, with pools that are for what
\* they were first used for.
TrackingIn(pool, stream, first) ==
    IF stream = "untracked" THEN Untracked
    ELSE IF pool[1] = "region" THEN [tag |-> pool[2], backup |-> pool[3]]
    ELSE IF pool[1] = "graph" THEN first[pool[2]]
    ELSE IF HookMode = "preload" THEN TrackingOf(Initial)
    ELSE Untracked

\* The untracked stream has untracked blocks only, and what is allocated within
\* disable() is of that stream.
StreamInv ==
    ~NestInDisable =>
        \A b \in Blocks : blocks[b] # Null =>
            /\ blocks[b].stream = "untracked" => blocks[b].tracking = Untracked
            /\ blocks[b].user # Null /\ blocks[b].user.in = "disable" =>
                   blocks[b].stream = "untracked"

\* The pool and the stream determine how a block is tracked and what its user
\* asked for, which is why a free block of both serves.
PoolInv ==
    ~Expandable /\ ~NestInDisable /\ ~SharePools =>
        \A b \in Blocks : blocks[b] # Null =>
            /\ blocks[b].tracking = TrackingIn(blocks[b].pool, blocks[b].stream, purpose)
            /\ blocks[b].user # Null => blocks[b].user.asked = blocks[b].tracking

\* The inductive invariant: thread configurations, contexts, pools, blocks and the
\* setting of expandable segments agree with each other.
IInv == /\ TypeOK /\ ConfigFollowsFrames /\ FramesInv /\ PlacesInv
        /\ SettingInv /\ StreamInv /\ PoolInv
================================================================================
