-------------------------------- MODULE Regions --------------------------------
(***************************************************************************)
(* What decides whether an allocation is tracked, under which tag and with *)
(* which backup: region(), cuda_graph() and disable()                      *)
(* (torch_memory_saver/entrypoint.py), the thread-local configuration they *)
(* set and the hooks that read it (csrc/entrypoint.cpp).                   *)
(*                                                                         *)
(* Between the client and the hooks is PyTorch's caching allocator, which  *)
(* is external: it asks the hooks for memory only when it has no free      *)
(* block that fits the pool and the stream, so a block may serve an        *)
(* allocation made under another configuration than its own.  The          *)
(* innermost pool and stream count, which is what the code relies on.  The *)
(* pool and the stream of a graph are the caller's, and PyTorch's own      *)
(* graphs may use the same ones: SharePools says whether clients give one  *)
(* pool to graphs of different configurations.                             *)
(*                                                                         *)
(* Blocks left by an exception run the same finally clauses as others.  A  *)
(* process has one device here and reads its environment once.             *)
(***************************************************************************)
EXTENDS Naturals, Sequences

CONSTANTS Threads, Blocks,
          Tags,             \* that regions and graphs name, Default if they name none
          GraphPools,       \* that clients have for their graphs
          Backups,          \* what regions ask for, of "none", "cpu" and "disk"
          Environments,     \* under which the process may start
          MaxDepth,         \* of nested contexts
          Default, Null

\* _sanity_checks() and the check of malloc for a backup of both kinds.
ASSUME RegionsAssumption ==
    /\ Environments \subseteq [hook : {"preload", "torch"}, enable : BOOLEAN,
                               backup : {"none", "cpu", "disk"}, expandable : BOOLEAN,
                               nest : BOOLEAN, share : BOOLEAN]
    /\ \A e \in Environments : e.hook = "torch" => ~e.expandable
    /\ Backups \subseteq {"none", "cpu", "disk"}

VARIABLES
    environment,
    config,     \* thread_local_config
    frames,     \* the contexts a thread is in, the innermost last
    purpose,    \* how the first graph of a pool was to be tracked
    setting,    \* PyTorch's expandable_segments
    blocks,     \* of the caching allocator
    exited

vars == <<environment, config, frames, purpose, setting, blocks, exited>>

HookMode      == environment.hook
InitEnable    == environment.enable         \* TMS_INIT_ENABLE
InitBackup    == environment.backup         \* TMS_INIT_ENABLE_CPU_BACKUP or _DISK_BACKUP
Expandable    == environment.expandable     \* _expandable_segments_enabled()
NestInDisable == environment.nest           \* whether clients use regions or graphs within disable()
SharePools    == environment.share          \* whether they share a graph's pool at will

AllTags == Tags \cup {Default}
AllBackups == Backups \cup {e.backup : e \in Environments}
Config  == [tag : AllTags, interesting : BOOLEAN, backup : AllBackups]

\* A pool of PyTorch, of _mem_pools or of graphs; a stream.
DefaultPool == <<"default">>
Pools   == {DefaultPool} \cup ({"region"} \X AllTags \X AllBackups) \cup ({"graph"} \X GraphPools)
Streams == {"main", "capture", "untracked"}
GraphStreams == {"main", "capture"}

\* A context, with the pool and the stream it puts allocations in, if it does.
Kinds   == {"region", "graph", "plain", "disable"}
Frame   == [kind : Kinds, saved : Config, asked : Config,
            pool : Pools \cup {Null}, stream : Streams \cup {Null}]

\* How TorchMemorySaver tracks a block, if it does.
Untracked == [tag |-> Default, backup |-> "untracked"]
Tracking  == [tag : AllTags, backup : AllBackups] \cup {Untracked}
Block    == [pool : Pools, stream : Streams, expandable : BOOLEAN, tracking : Tracking,
             user : [in : Kinds \cup {"none"}, asked : Tracking] \cup {Null}]
ASSUME NullAssumption == Null \notin Frame \cup Pools \cup Streams \cup Tracking

TypeOK ==
    /\ environment \in Environments
    /\ config \in [Threads -> Config]
    /\ frames \in [Threads -> Seq(Frame)]
    /\ purpose \in [GraphPools -> Tracking \cup {Null}]
    /\ setting \in BOOLEAN
    /\ blocks \in [Blocks -> Block \cup {Null}]
    /\ exited \in {"no", "not_interesting"}

Initial == [tag |-> Default, interesting |-> InitEnable, backup |-> InitBackup]

Init ==
    /\ environment \in Environments
    /\ config = [t \in Threads |-> Initial] /\ frames = [t \in Threads |-> <<>>]
    /\ purpose = [g \in GraphPools |-> Null]
    /\ setting = Expandable
    /\ blocks = [b \in Blocks |-> Null]
    /\ exited = "no"

Top(t)         == frames[t][Len(frames[t])]
Disabled(t)    == \E i \in DOMAIN frames[t] : frames[t][i].kind = "disable"
Innermost(t, found) == frames[t][CHOOSE i \in found : \A j \in found : j <= i]

\* What a thread's i-th context asked for, and how a configuration is tracked.
Level(t, i)   == IF i = 0 THEN Initial ELSE frames[t][i].asked
TrackingOf(c) == IF c.interesting THEN [tag |-> c.tag, backup |-> c.backup] ELSE Untracked

------------------------------------------------------------------------------
(* The contexts *)

Push(t, kind, asked, pool, stream) ==
    /\ Len(frames[t]) < MaxDepth
    /\ frames' = [frames EXCEPT ![t] =
                     Append(@, [kind |-> kind, saved |-> config[t], asked |-> asked,
                                pool |-> pool, stream |-> stream])]
    /\ config' = [config EXCEPT ![t] = asked]

PopLeavesTag(t) ==
    /\ frames' = [frames EXCEPT ![t] = SubSeq(@, 1, Len(@) - 1)]
    /\ config' = [config EXCEPT ![t] = [Top(t).saved EXCEPT !.tag = config[t].tag]]

\* The tag, the switch and the backup that were found on entry.
Pop(t) ==
    /\ frames' = [frames EXCEPT ![t] = SubSeq(@, 1, Len(@) - 1)]
    /\ config' = [config EXCEPT ![t] = Top(t).saved]

SwapsSetting == HookMode = "preload" /\ Expandable

\* _mem_pools: one pool for each configuration, kept until exit.  MemPools are not
\* used with expandable segments.
RegionPoolOfTag(tag, backup) == <<"region", tag, "none">>
RegionPool(tag, backup) == <<"region", tag, backup>>

\* region(): _with_region_config within a pool.
EnterRegion(t, tag, backup) ==
    /\ Disabled(t) => NestInDisable
    /\ Push(t, "region", [tag |-> tag, interesting |-> TRUE, backup |-> backup],
            IF SwapsSetting THEN Null ELSE RegionPool(tag, backup), Null)
    /\ UNCHANGED <<environment, purpose, setting, blocks, exited>>

\* The client's rule for a pool it has for graphs, new or of an earlier graph:
\* what it was first used for.
FitsBackup(g, tracking) ==
    SharePools \/ purpose[g] \in {Null} \cup {u \in Tracking : u.backup = tracking.backup}
Fits(g, tracking) == SharePools \/ purpose[g] \in {Null, tracking}

\* A graph that is to be tracked, in the caller's pool and on the caller's stream;
\* without them PyTorch takes a new pool and a stream for captures.
Capture(t, kind, asked, g, stream) ==
    /\ HookMode = "preload"
    /\ Disabled(t) => NestInDisable
    /\ Fits(g, TrackingOf(asked))
    /\ Push(t, kind, asked, <<"graph", g>>, stream)
    /\ purpose' = [purpose EXCEPT ![g] = IF @ = Null THEN TrackingOf(asked) ELSE @]
    /\ UNCHANGED <<environment, setting, blocks, exited>>

\* cuda_graph(): _with_region_config within torch.cuda.graph.
EnterGraph(t, tag, backup, g, stream) ==
    /\ backup # "disk"
    /\ Capture(t, "graph", [tag |-> tag, interesting |-> TRUE, backup |-> backup], g, stream)

\* torch.cuda.graph of the client, which leaves the configuration alone.  In torch
\* mode the hooks see nothing of it.
EnterPlainGraph(t, g, stream) == Capture(t, "plain", config[t], g, stream)

ExitPlainGraph(t) ==
    /\ frames[t] # <<>> /\ Top(t).kind = "plain"
    /\ frames' = [frames EXCEPT ![t] = SubSeq(@, 1, Len(@) - 1)]
    /\ UNCHANGED <<environment, config, purpose, setting, blocks, exited>>

\* The assertions of _with_region_config hold, or the old values are lost.
ExitRegion(t) ==
    /\ frames[t] # <<>> /\ Top(t).kind \in {"region", "graph"}
    /\ IF config[t] = Top(t).asked
       THEN Pop(t)
       ELSE frames' = [frames EXCEPT ![t] = SubSeq(@, 1, Len(@) - 1)] /\ UNCHANGED config
    /\ UNCHANGED <<environment, purpose, setting, blocks, exited>>

EnterDisable(t) ==
    /\ config[t].interesting
    /\ Push(t, "disable", [config[t] EXCEPT !.interesting = FALSE], Null, "untracked")
    /\ setting' = IF SwapsSetting THEN FALSE ELSE setting
    /\ UNCHANGED <<environment, purpose, blocks, exited>>

\* The settings come from the environment, not from PyTorch.
SettingOutsideKept == setting
SettingOutside == IF SwapsSetting THEN TRUE ELSE setting

\* empty_cache(): the pools that are alive keep their free blocks.
EmptyCache == [b \in Blocks |->
    IF blocks[b] # Null /\ blocks[b].user = Null /\ blocks[b].pool = DefaultPool
    THEN Null ELSE blocks[b]]

\* The synchronisation, and what follows it, may fail.
ExitDisable(t) ==
    /\ frames[t] # <<>> /\ Top(t).kind = "disable"
    /\ frames' = [frames EXCEPT ![t] = SubSeq(@, 1, Len(@) - 1)]
    /\ config' = [config EXCEPT ![t].interesting = TRUE]
    /\ setting' = SettingOutside
    /\ blocks' \in {blocks, EmptyCache}
    /\ UNCHANGED <<environment, purpose, exited>>

------------------------------------------------------------------------------
(* The caching allocator and the hooks *)

Pool(t) ==
    LET found == {i \in DOMAIN frames[t] : frames[t][i].pool # Null}
    IN  IF found = {} THEN DefaultPool ELSE Innermost(t, found).pool

StreamSame(t) == "main"
Stream(t) ==
    LET found == {i \in DOMAIN frames[t] : frames[t][i].stream # Null}
    IN  IF found = {} THEN "main" ELSE Innermost(t, found).stream

\* What a client expects of an allocation: the context it is written in counts,
\* and outside of all of them TMS_INIT_ENABLE, which is for the preload mode.
Asked(t) ==
    IF frames[t] = <<>> /\ HookMode = "torch" THEN Untracked
    ELSE TrackingOf(Level(t, Len(frames[t])))

User(t) == [in |-> IF frames[t] = <<>> THEN "none" ELSE Top(t).kind, asked |-> Asked(t)]

\* A free block of the pool and the stream, an expandable one if it is enabled.
Reuse(t, b) ==
    /\ blocks[b] # Null /\ blocks[b].user = Null
    /\ blocks[b].pool = Pool(t) /\ blocks[b].stream = Stream(t)
    /\ blocks[b].expandable => setting
    /\ blocks' = [blocks EXCEPT ![b].user = User(t)]
    /\ UNCHANGED <<environment, config, frames, purpose, setting, exited>>

\* cudaMalloc, tms_cuMemCreate or, for a pool in torch mode, tms_torch_malloc.
Hooked(t) == HookMode = "preload" \/ Pool(t) # DefaultPool

Track(t)  == IF Hooked(t) THEN TrackingOf(config[t]) ELSE Untracked

NewBlock(t, b) ==
    /\ blocks[b] = Null
    /\ HookMode = "torch" /\ Hooked(t) => config[t].interesting
    /\ blocks' = [blocks EXCEPT ![b] = [pool |-> Pool(t), stream |-> Stream(t),
                     expandable |-> setting, tracking |-> Track(t), user |-> User(t)]]
    /\ UNCHANGED <<environment, config, frames, purpose, setting, exited>>

\* tms_torch_malloc: "only support interesting region".
TorchMallocRefused(t) ==
    /\ HookMode = "torch" /\ Hooked(t) /\ ~config[t].interesting
    /\ exited' = "not_interesting"
    /\ UNCHANGED <<environment, config, frames, purpose, setting, blocks>>

\* A tensor dies: its block stays with the caching allocator, until that gives
\* it back, from which thread ever.
Cache(b) ==
    /\ blocks[b] # Null /\ blocks[b].user # Null
    /\ blocks' = [blocks EXCEPT ![b].user = Null]
    /\ UNCHANGED <<environment, config, frames, purpose, setting, exited>>

GiveBack == blocks' = EmptyCache /\ UNCHANGED <<environment, config, frames, purpose, setting, exited>>

\* The graphs of a pool are gone, and so are its tensors.
DropPool(g) ==
    /\ purpose[g] # Null
    /\ \A t \in Threads : \A i \in DOMAIN frames[t] : frames[t][i].pool # <<"graph", g>>
    /\ \A b \in Blocks : blocks[b] # Null /\ blocks[b].pool = <<"graph", g>> => blocks[b].user = Null
    /\ blocks' = [b \in Blocks |-> IF blocks[b] # Null /\ blocks[b].pool = <<"graph", g>>
                                  THEN Null ELSE blocks[b]]
    /\ purpose' = [purpose EXCEPT ![g] = Null]
    /\ UNCHANGED <<environment, config, frames, setting, exited>>

Terminated == exited # "no" /\ UNCHANGED vars

Next ==
    \/ exited = "no" /\ \E t \in Threads :
          \/ \E tag \in Tags, backup \in Backups : EnterRegion(t, tag, backup)
          \/ \E g \in GraphPools, stream \in GraphStreams :
                \/ \E tag \in Tags, backup \in Backups : EnterGraph(t, tag, backup, g, stream)
                \/ EnterPlainGraph(t, g, stream)
          \/ ExitRegion(t) \/ ExitPlainGraph(t) \/ EnterDisable(t) \/ ExitDisable(t)
          \/ TorchMallocRefused(t)
          \/ \E b \in Blocks : Reuse(t, b) \/ NewBlock(t, b)
    \/ exited = "no" /\ (GiveBack \/ (\E b \in Blocks : Cache(b)) \/ \E g \in GraphPools : DropPool(g))
    \/ Terminated

Spec == Init /\ [][Next]_vars

------------------------------------------------------------------------------
(* Properties *)

\* On whatever path a context is left, and however contexts are nested, the
\* thread's configuration is what it was on entry, and no other thread's
\* contexts disturb it (entrypoint.py:184-207, 209-248).
ConfigFollowsFrames ==
    \A t \in Threads :
        /\ config[t] = Level(t, Len(frames[t]))
        /\ \A i \in DOMAIN frames[t] : frames[t][i].saved = Level(t, i - 1)

\* With pools, an allocation gets memory that is tracked as the context around
\* it asks, although most allocations are served from the cache and a graph's
\* pool goes from one graph to the next, unless clients share such a pool at will
\* or use regions or graphs within disable() (entrypoint.py:167-182;
\* test/examples/nested_region.py).
TrackedAsAsked ==
    ~Expandable /\ ~NestInDisable /\ ~SharePools =>
        \A b \in Blocks : blocks[b] # Null /\ blocks[b].user # Null =>
            blocks[b].tracking = blocks[b].user.asked

\* "Own a non-blocking stream so disable() never reuses those blocks"
\* (entrypoint.py:136): what is allocated within disable() is not paused, if
\* clients use no regions or graphs there.
DisabledUntracked ==
    ~NestInDisable =>
        \A b \in Blocks : blocks[b] # Null /\ blocks[b].user # Null =>
            (blocks[b].user.in = "disable" => blocks[b].tracking = Untracked)

\* "the expandable setting is restored afterwards" (README.md:108), by whichever
\* thread leaves disable() last.
SettingRestored == (\A t \in Threads : ~Disabled(t)) => setting = Expandable
================================================================================
