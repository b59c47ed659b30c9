---------------------------- MODULE RegionsProofs ----------------------------
(***************************************************************************)
(* The inductive invariant of Regions, for any number of threads, blocks,  *)
(* tags and pools of graphs, any environment and any depth of nesting.     *)
(***************************************************************************)
EXTENDS RegionsInv, SequenceTheorems, WellFoundedInduction, TLAPS

------------------------------------------------------------------------------
(* The innermost context *)

\* The library's order on the natural numbers is <.
LEMMA LessThan == \A x, y \in Nat : <<x, y>> \in OpToRel(<, Nat) <=> x < y
<1>1. OpToRel(<, Nat) = {ss \in Nat \X Nat : ss[1] < ss[2]}
  BY Zenon DEF OpToRel
<1> QED
  BY <1>1

\* A set of positions that is not empty has a last one.
LEMMA HasMax ==
  ASSUME NEW n \in Nat, NEW S, S \subseteq 1 .. n, S # {}
  PROVE  \E m \in S : \A j \in S : j <= m
<1> DEFINE T == {x \in 0 .. n : n - x \in S}
<1>1. T # {}
  <2>1. PICK s \in S : s \in 1 .. n
    OBVIOUS
  <2>2. n - s \in 0 .. n /\ n - (n - s) = s
    BY <2>1
  <2> QED
    BY <2>1, <2>2
<1>2. T \subseteq Nat
  OBVIOUS
<1>3. PICK x \in T : \A y \in T : ~(<<y, x>> \in OpToRel(<, Nat))
  <2> HIDE DEF T
  <2> QED
    BY <1>1, <1>2, NatLessThanWellFounded, WFMin
<1>4. \A y \in T : x <= y
  <2> SUFFICES ASSUME NEW y \in T PROVE x <= y
    OBVIOUS
  <2>1. x \in Nat /\ y \in Nat
    BY <1>2
  <2>2. ~(y < x)
    BY <1>3, <2>1, LessThan, Zenon
  <2> QED
    BY <2>1, <2>2
<1>5. n - x \in S /\ x \in 0 .. n
  OBVIOUS
<1>6. ASSUME NEW j \in S PROVE j <= n - x
  <2>1. j \in 1 .. n
    OBVIOUS
  <2>2. n - j \in 0 .. n /\ n - (n - j) = j
    BY <2>1
  <2>3. n - j \in T
    BY <2>2
  <2>4. x <= n - j
    BY <1>4, <2>3
  <2> QED
    BY <1>5, <2>1, <2>4
<1> QED
  BY <1>5, <1>6

\* Contexts are stored one by one.
LEMMA FrameTypes ==
  ASSUME TypeOK, NEW t \in Threads
  PROVE  /\ frames[t] \in Seq(Frame) /\ Len(frames[t]) \in Nat
         /\ DOMAIN frames[t] = 1 .. Len(frames[t])
         /\ \A i \in DOMAIN frames[t] : frames[t][i] \in Frame
         /\ frames[t] # <<>> => Len(frames[t]) \in DOMAIN frames[t] /\ Top(t) \in Frame
  BY DEF TypeOK, Top

\* The last context is the innermost one, if it is among those that count.
LEMMA TopIsInnermost ==
  ASSUME TypeOK, NEW t \in Threads, NEW found, found \subseteq DOMAIN frames[t],
         frames[t] # <<>>, Len(frames[t]) \in found
  PROVE  Innermost(t, found) = Top(t)
<1>1. found \subseteq 1 .. Len(frames[t]) /\ Len(frames[t]) \in Nat
  BY FrameTypes
<1>2. (CHOOSE i \in found : \A j \in found : j <= i) = Len(frames[t])
  <2>1. \A j \in found : j <= Len(frames[t])
    BY <1>1
  <2>2. \A i \in found : (\A j \in found : j <= i) => i = Len(frames[t])
    BY <1>1
  <2> QED
    BY <1>1, <2>1, <2>2
<1> QED
  BY <1>2 DEF Innermost, Top

\* The innermost context is one of those that count.
LEMMA InnermostType ==
  ASSUME TypeOK, NEW t \in Threads, NEW found, found \subseteq DOMAIN frames[t], found # {}
  PROVE  \E i \in found : Innermost(t, found) = frames[t][i]
<1> DEFINE last == CHOOSE i \in found : \A j \in found : j <= i
<1>1. found \subseteq 1 .. Len(frames[t]) /\ Len(frames[t]) \in Nat
  BY FrameTypes
<1>2. \E m \in found : \A j \in found : j <= m
  BY <1>1, HasMax
<1>3. last \in found
  BY <1>2
<1>4. Innermost(t, found) = frames[t][last]
  BY DEF Innermost
<1> HIDE DEF last
<1> QED
  BY <1>3, <1>4

------------------------------------------------------------------------------
(* Contexts *)

\* A thread whose switch is on is not in a disable() of its own, unless regions
\* are used there.
LEMMA InterestingNotDisabled ==
  ASSUME TypeOK, ConfigFollowsFrames, FramesInv, NEW t \in Threads, config[t].interesting,
         ~NestInDisable
  PROVE  ~Disabled(t)
<1> SUFFICES ASSUME NEW i \in DOMAIN frames[t], frames[t][i].kind = "disable" PROVE FALSE
  BY DEF Disabled
<1>1. i = Len(frames[t])
  BY DEF FramesInv, FrameOk
<1>2. i # 0 /\ frames[t][i] \in Frame
  BY FrameTypes
<1>3. config[t] = frames[t][i].asked
  BY <1>1, <1>2 DEF ConfigFollowsFrames, Level
<1>4. frames[t][i].asked = [frames[t][i].saved EXCEPT !.interesting = FALSE]
  BY DEF FramesInv, FrameOk
<1> QED
  BY <1>2, <1>3, <1>4 DEF Frame, Config

\* What a configuration stands for is not Null, which is no purpose.
LEMMA TrackingType == \A c \in Config : TrackingOf(c) \in Tracking /\ TrackingOf(c) # Null
  BY NullAssumption DEF TrackingOf, Tracking, Config

\* The purpose of its pool may change only where it is not set.
LEMMA PlaceKept ==
  ASSUME NEW f \in Frame, NEW first, NEW second, PlaceOk(f, first),
         \A g \in GraphPools : f.pool = <<"graph", g>> /\ first[g] # Null => second[g] = first[g]
  PROVE  PlaceOk(f, second)
<1>1. f.asked \in Config
  BY DEF Frame
<1>2. TrackingOf(f.asked) # Null
  BY <1>1, TrackingType
<1> QED
  BY <1>2, Zenon DEF PlaceOk

\* Where a context puts its allocations is about the context, the environment and
\* the purpose of its pool only.
LEMMA PlacesKept ==
  ASSUME environment' = environment,
         \A t \in Threads : \A i \in DOMAIN frames'[t] : PlaceOk(frames'[t][i], purpose')
  PROVE  PlacesInv'
  BY Zenon DEF PlacesInv, PlaceOk, SwapsSetting, RegionPool, HookMode, Expandable, SharePools,
         TrackingOf

\* Entering a context keeps what is known of contexts.
LEMMA PushKeeps ==
  ASSUME TypeOK, ConfigFollowsFrames, FramesInv, environment' = environment,
         NEW t \in Threads, NEW kind \in Kinds, NEW asked \in Config,
         NEW pool \in Pools \cup {Null}, NEW stream \in Streams \cup {Null},
         Push(t, kind, asked, pool, stream), Disabled(t) => NestInDisable,
         FrameOk([kind |-> kind, saved |-> config[t], asked |-> asked,
                  pool |-> pool, stream |-> stream], TRUE)
  PROVE  /\ frames' \in [Threads -> Seq(Frame)] /\ config' \in [Threads -> Config]
         /\ ConfigFollowsFrames' /\ FramesInv'
         /\ \A u \in Threads : \A i \in DOMAIN frames'[u] :
                \/ i \in DOMAIN frames[u] /\ frames'[u][i] = frames[u][i]
                \/ /\ u = t
                   /\ frames'[u][i] = [kind |-> kind, saved |-> config[t], asked |-> asked,
                                       pool |-> pool, stream |-> stream]
         /\ \A u \in Threads : Disabled(u) => Disabled(u)'
         /\ kind = "disable" => Disabled(t)'
<1> DEFINE At(f, i) == IF i = 0 THEN Initial ELSE f[i].asked
           n   == Len(frames[t])
           new == [kind |-> kind, saved |-> config[t], asked |-> asked,
                   pool |-> pool, stream |-> stream]
<1>1. /\ frames[t] \in Seq(Frame) /\ n \in Nat /\ DOMAIN frames[t] = 1 .. n
      /\ new \in Frame /\ config[t] \in Config
  BY FrameTypes DEF TypeOK, Frame
<1>2. frames' = [frames EXCEPT ![t] = Append(@, new)] /\ config' = [config EXCEPT ![t] = asked]
  BY DEF Push
<1>3. frames'[t] = Append(frames[t], new) /\ config'[t] = asked
  BY <1>2 DEF TypeOK
<1>4. /\ Append(frames[t], new) \in Seq(Frame)
      /\ Len(frames'[t]) = n + 1 /\ DOMAIN frames'[t] = 1 .. n + 1
      /\ \A i \in 1 .. n : frames'[t][i] = frames[t][i]
      /\ frames'[t][n + 1] = new
  BY <1>1, <1>3, AppendProperties
<1>5. frames' \in [Threads -> Seq(Frame)] /\ config' \in [Threads -> Config]
  BY <1>2, <1>4 DEF TypeOK
<1>6. \A u \in Threads : u # t => frames'[u] = frames[u] /\ config'[u] = config[u]
  BY <1>2 DEF TypeOK
<1>7. Initial' = Initial /\ NestInDisable' = NestInDisable
  BY DEF Initial, InitEnable, InitBackup, NestInDisable
<1> HIDE DEF n, new
<1>8. ConfigFollowsFrames'
  <2> SUFFICES ASSUME NEW u \in Threads
               PROVE  /\ config'[u] = At(frames'[u], Len(frames'[u]))
                      /\ \A i \in DOMAIN frames'[u] :
                           frames'[u][i].saved = At(frames'[u], i - 1)
    BY <1>7 DEF ConfigFollowsFrames, Level
  <2>1. CASE u # t
    BY <2>1, <1>6, <1>7 DEF ConfigFollowsFrames, Level
  <2>2. CASE u = t
    <3>1. config'[t] = At(frames'[t], Len(frames'[t]))
      BY <1>1, <1>3, <1>4 DEF Level, new
    <3>2. \A i \in 1 .. n : frames'[t][i].saved = At(frames'[t], i - 1)
      <4> SUFFICES ASSUME NEW i \in 1 .. n PROVE frames'[t][i].saved = At(frames'[t], i - 1)
        OBVIOUS
      <4>1. frames'[t][i] = frames[t][i] /\ frames[t][i].saved = At(frames[t], i - 1)
        BY <1>1, <1>4 DEF ConfigFollowsFrames, Level
      <4>2. i - 1 # 0 => i - 1 \in 1 .. n
        BY <1>1
      <4> QED
        BY <4>1, <4>2, <1>4
    <3>3. new.saved = Level(t, n)
      BY DEF new, ConfigFollowsFrames, n
    <3>4. frames'[t][n + 1].saved = At(frames'[t], (n + 1) - 1)
      BY <3>3, <1>1, <1>4, <1>7 DEF Level
    <3>5. \A i \in 1 .. n + 1 : i \in 1 .. n \/ i = n + 1
      BY <1>1
    <3> QED
      BY <2>2, <3>1, <3>2, <3>4, <3>5, <1>4
  <2> QED
    BY <2>1, <2>2
<1>9. FramesInv'
  <2> SUFFICES ASSUME NEW u \in Threads, NEW i \in DOMAIN frames'[u]
               PROVE  FrameOk(frames'[u][i], i = Len(frames'[u]))
    BY <1>7, Zenon DEF FramesInv, FrameOk
  <2>1. CASE u # t
    BY <2>1, <1>6 DEF FramesInv
  <2>2. CASE u = t /\ i \in 1 .. n
    <3>1. NestInDisable \/ frames[t][i].kind # "disable"
      BY <2>2, <1>1 DEF Disabled
    <3>2. FrameOk(frames[t][i], i = Len(frames[t]))
      BY <2>2, <1>1 DEF FramesInv
    <3> QED
      BY <2>2, <3>1, <3>2, <1>4 DEF FrameOk
  <2>3. CASE u = t /\ i = n + 1
    BY <2>3, <1>4 DEF new
  <2> QED
    BY <2>1, <2>2, <2>3, <1>1, <1>4
<1>10. \A u \in Threads : \A i \in DOMAIN frames'[u] :
           (i \in DOMAIN frames[u] /\ frames'[u][i] = frames[u][i]) \/ (u = t /\ frames'[u][i] = new)
  <2> SUFFICES ASSUME NEW i \in 1 .. n + 1, i \notin 1 .. n PROVE i = n + 1
    BY <1>1, <1>4, <1>6
  <2> QED
    BY <1>1
<1>11. \A u \in Threads : Disabled(u) => Disabled(u)'
  <2> SUFFICES ASSUME NEW u \in Threads, NEW i \in DOMAIN frames[u]
               PROVE  i \in DOMAIN frames'[u] /\ frames'[u][i] = frames[u][i]
    BY DEF Disabled
  <2> QED
    BY <1>1, <1>4, <1>6
<1>12. n + 1 \in DOMAIN frames'[t] /\ frames'[t][n + 1].kind = kind
  BY <1>1, <1>4 DEF new
<1> QED
  BY <1>5, <1>8, <1>9, <1>10, <1>11, <1>12 DEF new, Disabled

\* Leaving one with the configuration that was found keeps it too.
LEMMA PopKeeps ==
  ASSUME TypeOK, ConfigFollowsFrames, FramesInv, environment' = environment,
         NEW t \in Threads, frames[t] # <<>>, Pop(t)
  PROVE  /\ frames' \in [Threads -> Seq(Frame)] /\ config' \in [Threads -> Config]
         /\ ConfigFollowsFrames' /\ FramesInv'
         /\ \A u \in Threads : \A i \in DOMAIN frames'[u] :
                i \in DOMAIN frames[u] /\ frames'[u][i] = frames[u][i]
         /\ Top(t).kind # "disable" => \A u \in Threads : Disabled(u) => Disabled(u)'
<1> DEFINE At(f, i) == IF i = 0 THEN Initial ELSE f[i].asked
           n == Len(frames[t])
<1>1. /\ frames[t] \in Seq(Frame) /\ n \in Nat /\ n # 0 /\ DOMAIN frames[t] = 1 .. n
      /\ Top(t) = frames[t][n] /\ Top(t) \in Frame
  BY FrameTypes DEF Top
<1>2. /\ frames' = [frames EXCEPT ![t] = SubSeq(@, 1, n - 1)]
      /\ config' = [config EXCEPT ![t] = Top(t).saved]
  BY DEF Pop
<1>3. frames'[t] = SubSeq(frames[t], 1, n - 1) /\ config'[t] = Top(t).saved
  BY <1>2 DEF TypeOK
<1>4. /\ SubSeq(frames[t], 1, n - 1) \in Seq(Frame)
      /\ Len(frames'[t]) = n - 1 /\ DOMAIN frames'[t] = 1 .. n - 1
      /\ \A i \in 1 .. n - 1 : frames'[t][i] = frames[t][i]
  BY <1>1, <1>3, SubSeqProperties
<1>5. frames' \in [Threads -> Seq(Frame)] /\ config' \in [Threads -> Config]
  BY <1>1, <1>2, <1>4 DEF TypeOK, Frame
<1>6. \A u \in Threads : u # t => frames'[u] = frames[u] /\ config'[u] = config[u]
  BY <1>2 DEF TypeOK
<1>7. Initial' = Initial /\ NestInDisable' = NestInDisable
  BY DEF Initial, InitEnable, InitBackup, NestInDisable
<1> HIDE DEF n
<1>8. ConfigFollowsFrames'
  <2> SUFFICES ASSUME NEW u \in Threads
               PROVE  /\ config'[u] = At(frames'[u], Len(frames'[u]))
                      /\ \A i \in DOMAIN frames'[u] :
                           frames'[u][i].saved = At(frames'[u], i - 1)
    BY <1>7 DEF ConfigFollowsFrames, Level
  <2>1. CASE u # t
    BY <2>1, <1>6, <1>7 DEF ConfigFollowsFrames, Level
  <2>2. CASE u = t
    <3>1. Top(t).saved = Level(t, n - 1)
      BY <1>1 DEF ConfigFollowsFrames
    <3>2. config'[t] = At(frames'[t], Len(frames'[t]))
      BY <3>1, <1>1, <1>3, <1>4, <1>7 DEF Level
    <3>3. \A i \in 1 .. n - 1 : frames'[t][i].saved = At(frames'[t], i - 1)
      <4> SUFFICES ASSUME NEW i \in 1 .. n - 1
                   PROVE  frames'[t][i].saved = At(frames'[t], i - 1)
        OBVIOUS
      <4>1. i \in DOMAIN frames[t] /\ frames'[t][i] = frames[t][i]
        BY <1>1, <1>4
      <4>2. frames[t][i].saved = At(frames[t], i - 1)
        BY <4>1 DEF ConfigFollowsFrames, Level
      <4>3. i - 1 # 0 => i - 1 \in 1 .. n - 1
        BY <1>1
      <4> QED
        BY <4>1, <4>2, <4>3, <1>4
    <3> QED
      BY <2>2, <3>2, <3>3, <1>4
  <2> QED
    BY <2>1, <2>2
<1>9. FramesInv'
  <2> SUFFICES ASSUME NEW u \in Threads, NEW i \in DOMAIN frames'[u]
               PROVE  FrameOk(frames'[u][i], i = Len(frames'[u]))
    BY <1>7, Zenon DEF FramesInv, FrameOk
  <2>1. CASE u # t
    BY <2>1, <1>6 DEF FramesInv
  <2>2. CASE u = t
    <3>1. i \in 1 .. n /\ i # n /\ frames'[t][i] = frames[t][i]
      BY <2>2, <1>1, <1>4
    <3>2. FrameOk(frames[t][i], FALSE)
      BY <3>1, <1>1 DEF FramesInv, n
    <3> QED
      BY <2>2, <3>1, <3>2 DEF FrameOk
  <2> QED
    BY <2>1, <2>2
<1>10. \A u \in Threads : \A i \in DOMAIN frames'[u] :
           i \in DOMAIN frames[u] /\ frames'[u][i] = frames[u][i]
  BY <1>1, <1>4, <1>6
<1>11. ASSUME frames[t][n].kind # "disable", NEW u \in Threads, Disabled(u) PROVE Disabled(u)'
  <2>1. PICK i \in DOMAIN frames[u] : frames[u][i].kind = "disable"
    BY <1>11 DEF Disabled
  <2>2. CASE u # t
    BY <2>1, <2>2, <1>6 DEF Disabled
  <2>3. CASE u = t
    <3>1. i \in 1 .. n - 1
      BY <2>1, <2>3, <1>1, <1>11
    <3> QED
      BY <2>1, <2>3, <3>1, <1>4 DEF Disabled
  <2> QED
    BY <2>2, <2>3
<1> QED
  BY <1>1, <1>5, <1>8, <1>9, <1>10, <1>11

------------------------------------------------------------------------------
(* The parts of the invariant *)

\* What is known of contexts, and of the blocks.
Contexts == /\ frames \in [Threads -> Seq(Frame)] /\ config \in [Threads -> Config]
            /\ ConfigFollowsFrames /\ FramesInv /\ PlacesInv
Rest == /\ environment \in Environments /\ setting \in BOOLEAN
        /\ purpose \in [GraphPools -> Tracking \cup {Null}]
        /\ exited \in {"no", "not_interesting"}
BlocksInv == /\ blocks \in [Blocks -> Block \cup {Null}] /\ StreamInv /\ PoolInv

\* The invariant in four parts, which few actions change together.
LEMMA IInvParts ==
  /\ IInv <=> Rest /\ Contexts /\ SettingInv /\ BlocksInv
  /\ IInv' <=> Rest' /\ Contexts' /\ SettingInv' /\ BlocksInv'
  BY DEF IInv, TypeOK, Rest, Contexts, BlocksInv

\* Contexts are about the threads, the purposes and the environment only.
LEMMA ContextsKept ==
  ASSUME Contexts, UNCHANGED <<environment, frames, config, purpose>>
  PROVE  Contexts'
<1>1. ConfigFollowsFrames' /\ FramesInv'
  BY DEF Contexts, ConfigFollowsFrames, FramesInv, FrameOk, Level, Initial, InitEnable, InitBackup,
         NestInDisable
<1>2. PlacesInv'
  <2>1. \A t \in Threads : \A i \in DOMAIN frames'[t] : PlaceOk(frames'[t][i], purpose')
    BY DEF Contexts, PlacesInv
  <2> QED
    BY <2>1, PlacesKept
<1> QED
  BY <1>1, <1>2 DEF Contexts

\* The setting is restored as long as no thread leaves or enters disable().
LEMMA SettingKept ==
  ASSUME SettingInv, UNCHANGED <<environment, setting>>,
         \A t \in Threads : Disabled(t) => Disabled(t)'
  PROVE  SettingInv'
  BY DEF SettingInv, SettingRestored, SwapsSetting, HookMode, Expandable

\* How a block of a pool is tracked stays if the set purpose of its pool does.
LEMMA TrackingInKept ==
  ASSUME NEW pool \in Pools, NEW stream, NEW first, NEW second,
         TrackingIn(pool, stream, first) # Null,
         \A g \in GraphPools : pool = <<"graph", g>> /\ first[g] # Null => second[g] = first[g]
  PROVE  TrackingIn(pool, stream, second) = TrackingIn(pool, stream, first)
<1>1. pool[1] = "graph" => pool[2] \in GraphPools /\ pool = <<"graph", pool[2]>>
  BY DEF Pools, DefaultPool
<1> QED
  BY <1>1 DEF TrackingIn

\* The pools' part of the invariant is about blocks, purposes and the environment.
LEMMA PoolsKept ==
  ASSUME environment' = environment,
         ~Expandable /\ ~NestInDisable /\ ~SharePools =>
            \A b \in Blocks : blocks'[b] # Null =>
               /\ blocks'[b].tracking = TrackingIn(blocks'[b].pool, blocks'[b].stream, purpose')
               /\ blocks'[b].user # Null => blocks'[b].user.asked = blocks'[b].tracking
  PROVE  PoolInv'
  BY Zenon DEF PoolInv, TrackingIn, TrackingOf, Initial, InitEnable, InitBackup, HookMode,
               Expandable, NestInDisable, SharePools

\* Blocks that stay as they are or are freed keep their part of the invariant.
LEMMA BlocksStay ==
  ASSUME BlocksInv, environment' = environment,
         blocks' \in [Blocks -> Block \cup {Null}],
         \A b \in Blocks : blocks'[b] \in {blocks[b], Null},
         \A b \in Blocks, g \in GraphPools :
             blocks'[b] # Null /\ blocks[b].pool = <<"graph", g>> /\ purpose[g] # Null =>
                 purpose'[g] = purpose[g]
  PROVE  BlocksInv'
<1>1. NestInDisable' = NestInDisable /\ Expandable' = Expandable /\ SharePools' = SharePools
  BY DEF NestInDisable, Expandable, SharePools
<1>2. StreamInv'
  BY <1>1 DEF BlocksInv, StreamInv
<1>3. PoolInv'
  <2> SUFFICES ASSUME ~Expandable, ~NestInDisable, ~SharePools, NEW b \in Blocks, blocks'[b] # Null
               PROVE  /\ blocks'[b].tracking =
                             TrackingIn(blocks'[b].pool, blocks'[b].stream, purpose')
                      /\ blocks'[b].user # Null => blocks'[b].user.asked = blocks'[b].tracking
    BY PoolsKept
  <2>1. blocks'[b] = blocks[b] /\ blocks[b] \in Block
    BY DEF BlocksInv
  <2>2. /\ blocks[b].tracking = TrackingIn(blocks[b].pool, blocks[b].stream, purpose)
        /\ blocks[b].user # Null => blocks[b].user.asked = blocks[b].tracking
    BY <2>1 DEF BlocksInv, PoolInv
  <2>3. blocks[b].pool \in Pools /\ blocks[b].tracking # Null
    BY <2>1, NullAssumption DEF Block
  <2>4. TrackingIn(blocks[b].pool, blocks[b].stream, purpose')
            = TrackingIn(blocks[b].pool, blocks[b].stream, purpose)
    BY <2>1, <2>2, <2>3, TrackingInKept
  <2> QED
    BY <2>1, <2>2, <2>4
<1> QED
  BY <1>2, <1>3 DEF BlocksInv

\* A block's part of the invariant is about blocks, purposes that are set and the
\* environment only.
LEMMA BlocksKept ==
  ASSUME BlocksInv, UNCHANGED <<environment, blocks>>,
         \A g \in GraphPools : purpose[g] # Null => purpose'[g] = purpose[g]
  PROVE  BlocksInv'
  BY BlocksStay DEF BlocksInv

------------------------------------------------------------------------------
(* The contexts' actions *)

\* Entering a context keeps what is known of contexts and of blocks.
LEMMA PushStep ==
  ASSUME IInv, environment' = environment, blocks' = blocks,
         purpose' \in [GraphPools -> Tracking \cup {Null}],
         \A g \in GraphPools : purpose[g] # Null => purpose'[g] = purpose[g],
         NEW t \in Threads, NEW kind \in Kinds, NEW asked \in Config,
         NEW pool \in Pools \cup {Null}, NEW stream \in Streams \cup {Null},
         Push(t, kind, asked, pool, stream), Disabled(t) => NestInDisable,
         FrameOk([kind |-> kind, saved |-> config[t], asked |-> asked,
                  pool |-> pool, stream |-> stream], TRUE),
         PlaceOk([kind |-> kind, saved |-> config[t], asked |-> asked,
                  pool |-> pool, stream |-> stream], purpose')
  PROVE  /\ Contexts' /\ BlocksInv'
         /\ \A u \in Threads : Disabled(u) => Disabled(u)'
         /\ kind = "disable" => Disabled(t)'
<1>1. TypeOK /\ ConfigFollowsFrames /\ FramesInv /\ PlacesInv
  BY DEF IInv
<1>2. /\ frames' \in [Threads -> Seq(Frame)] /\ config' \in [Threads -> Config]
      /\ ConfigFollowsFrames' /\ FramesInv'
      /\ \A u \in Threads : \A i \in DOMAIN frames'[u] :
             \/ i \in DOMAIN frames[u] /\ frames'[u][i] = frames[u][i]
             \/ u = t /\ frames'[u][i] = [kind |-> kind, saved |-> config[t], asked |-> asked,
                                          pool |-> pool, stream |-> stream]
      /\ \A u \in Threads : Disabled(u) => Disabled(u)'
      /\ kind = "disable" => Disabled(t)'
  BY <1>1, PushKeeps
<1>3. \A u \in Threads : \A i \in DOMAIN frames'[u] : PlaceOk(frames'[u][i], purpose')
  <2> SUFFICES ASSUME NEW u \in Threads, NEW i \in DOMAIN frames[u]
               PROVE  PlaceOk(frames[u][i], purpose')
    BY <1>2, Zenon
  <2>1. frames[u][i] \in Frame /\ PlaceOk(frames[u][i], purpose)
    BY <1>1, FrameTypes DEF PlacesInv
  <2> QED
    BY <2>1, PlaceKept
<1>4. PlacesInv'
  BY <1>3, PlacesKept
<1>5. BlocksInv'
  BY BlocksKept, IInvParts
<1> QED
  BY <1>2, <1>4, <1>5 DEF Contexts

\* Entering a region keeps the invariant.
LEMMA EnterRegionStep ==
  ASSUME IInv, NEW t \in Threads, NEW tag \in Tags, NEW backup \in Backups,
         EnterRegion(t, tag, backup)
  PROVE  IInv'
<1> DEFINE asked == [tag |-> tag, interesting |-> TRUE, backup |-> backup]
           pool  == IF SwapsSetting THEN Null ELSE RegionPool(tag, backup)
<1>1. asked \in Config /\ asked.interesting /\ "region" \in Kinds
  BY DEF Config, AllTags, AllBackups, Kinds
<1>2. pool \in Pools \cup {Null}
  BY DEF Pools, RegionPool, AllTags, AllBackups
<1>3. Push(t, "region", asked, pool, Null)
  BY DEF EnterRegion
<1>4. FrameOk([kind |-> "region", saved |-> config[t], asked |-> asked,
               pool |-> pool, stream |-> Null], TRUE)
  BY DEF FrameOk
<1>5. PlaceOk([kind |-> "region", saved |-> config[t], asked |-> asked,
               pool |-> pool, stream |-> Null], purpose')
  BY DEF PlaceOk
<1>6. /\ UNCHANGED <<environment, purpose, setting, blocks, exited>>
      /\ Disabled(t) => NestInDisable
  BY DEF EnterRegion
<1> HIDE DEF asked, pool
<1>7. Contexts' /\ BlocksInv' /\ \A u \in Threads : Disabled(u) => Disabled(u)'
  <2>1. purpose' \in [GraphPools -> Tracking \cup {Null}]
    BY <1>6 DEF IInv, TypeOK
  <2> QED
    BY <1>1, <1>2, <1>3, <1>4, <1>5, <1>6, <2>1, PushStep
<1>8. SettingInv'
  BY <1>6, <1>7, SettingKept DEF IInv
<1> QED
  BY <1>6, <1>7, <1>8, IInvParts DEF Rest

\* So does entering a graph, the first of its pool or one that fits it.
LEMMA CaptureStep ==
  ASSUME IInv, NEW t \in Threads, NEW kind \in {"graph", "plain"}, NEW asked \in Config,
         NEW g \in GraphPools, NEW stream \in GraphStreams, Capture(t, kind, asked, g, stream),
         IF kind = "graph" THEN asked.interesting ELSE asked = config[t]
  PROVE  IInv'
<1> DEFINE pool == <<"graph", g>>
<1>1. pool \in Pools \cup {Null} /\ stream \in Streams \cup {Null} /\ kind \in Kinds
  BY DEF Pools, Streams, GraphStreams, Kinds
<1>2. /\ UNCHANGED <<environment, setting, blocks, exited>> /\ (Disabled(t) => NestInDisable)
      /\ HookMode = "preload" /\ Push(t, kind, asked, pool, stream)
      /\ SharePools \/ purpose[g] \in {Null, TrackingOf(asked)}
      /\ purpose' = [purpose EXCEPT ![g] = IF @ = Null THEN TrackingOf(asked) ELSE @]
  BY DEF Capture, Fits
<1>3. TrackingOf(asked) \in Tracking
  BY TrackingType
<1>4. /\ purpose' \in [GraphPools -> Tracking \cup {Null}]
      /\ \A h \in GraphPools : purpose[h] # Null => purpose'[h] = purpose[h]
      /\ SharePools \/ purpose'[g] = TrackingOf(asked)
  BY <1>2, <1>3 DEF IInv, TypeOK
<1>5. FrameOk([kind |-> kind, saved |-> config[t], asked |-> asked,
               pool |-> pool, stream |-> stream], TRUE)
  BY DEF FrameOk
<1>6. PlaceOk([kind |-> kind, saved |-> config[t], asked |-> asked,
               pool |-> pool, stream |-> stream], purpose')
  BY <1>2, <1>4 DEF PlaceOk
<1> HIDE DEF pool
<1>7. Contexts' /\ BlocksInv' /\ \A u \in Threads : Disabled(u) => Disabled(u)'
  BY <1>1, <1>2, <1>4, <1>5, <1>6, PushStep
<1>8. SettingInv'
  BY <1>2, <1>7, SettingKept DEF IInv
<1> QED
  BY <1>2, <1>4, <1>7, <1>8, IInvParts DEF Rest

\* Entering disable() turns expandable segments off, where the code swaps them.
LEMMA EnterDisableStep ==
  ASSUME IInv, NEW t \in Threads, EnterDisable(t)
  PROVE  IInv'
<1> DEFINE asked == [config[t] EXCEPT !.interesting = FALSE]
<1>1. asked \in Config /\ "disable" \in Kinds
  BY DEF IInv, TypeOK, Config, Kinds
<1>2. /\ UNCHANGED <<environment, purpose, blocks, exited>>
      /\ config[t].interesting /\ Push(t, "disable", asked, Null, "untracked")
  BY DEF EnterDisable
<1>3. Disabled(t) => NestInDisable
  BY <1>2, InterestingNotDisabled DEF IInv
<1>4. FrameOk([kind |-> "disable", saved |-> config[t], asked |-> asked,
               pool |-> Null, stream |-> "untracked"], TRUE)
  BY <1>2 DEF FrameOk
<1>5. PlaceOk([kind |-> "disable", saved |-> config[t], asked |-> asked,
               pool |-> Null, stream |-> "untracked"], purpose')
  BY DEF PlaceOk
<1> HIDE DEF asked
<1>6. Contexts' /\ BlocksInv' /\ Disabled(t)'
  <2>1. purpose' \in [GraphPools -> Tracking \cup {Null}] /\ "untracked" \in Streams
    BY <1>2 DEF IInv, TypeOK, Streams
  <2> QED
    BY <1>1, <1>2, <1>3, <1>4, <1>5, <2>1, PushStep
<1>7. SettingInv' /\ setting' \in BOOLEAN
  BY <1>6 DEF IInv, TypeOK, SettingInv, SettingRestored, SwapsSetting, HookMode, Expandable,
              EnterDisable
<1> QED
  BY <1>2, <1>6, <1>7, IInvParts DEF Rest, EnterDisable

\* Leaving a context with the configuration that was found keeps what is known of
\* contexts.
LEMMA PopStep ==
  ASSUME IInv, environment' = environment, purpose' = purpose,
         NEW t \in Threads, frames[t] # <<>>, Pop(t)
  PROVE  /\ Contexts'
         /\ Top(t).kind # "disable" => \A u \in Threads : Disabled(u) => Disabled(u)'
<1>1. TypeOK /\ ConfigFollowsFrames /\ FramesInv /\ PlacesInv
  BY DEF IInv
<1>2. /\ frames' \in [Threads -> Seq(Frame)] /\ config' \in [Threads -> Config]
      /\ ConfigFollowsFrames' /\ FramesInv'
      /\ \A u \in Threads : \A i \in DOMAIN frames'[u] :
             i \in DOMAIN frames[u] /\ frames'[u][i] = frames[u][i]
      /\ Top(t).kind # "disable" => \A u \in Threads : Disabled(u) => Disabled(u)'
  BY <1>1, PopKeeps
<1>3. \A u \in Threads : \A i \in DOMAIN frames'[u] : PlaceOk(frames'[u][i], purpose')
  BY <1>1, <1>2 DEF PlacesInv
<1>4. PlacesInv'
  BY <1>3, PlacesKept
<1> QED
  BY <1>2, <1>4 DEF Contexts

\* The innermost context's configuration is the thread's.
LEMMA TopConfig ==
  ASSUME IInv, NEW t \in Threads, frames[t] # <<>>
  PROVE  /\ config[t] = Top(t).asked /\ Top(t) \in Frame
         /\ Level(t, Len(frames[t])) = Top(t).asked
         /\ FrameOk(Top(t), TRUE) /\ PlaceOk(Top(t), purpose)
<1>1. /\ Len(frames[t]) \in DOMAIN frames[t] /\ Len(frames[t]) # 0 /\ Top(t) \in Frame
      /\ Top(t) = frames[t][Len(frames[t])]
  BY FrameTypes DEF IInv, Top
<1>2. config[t] = Top(t).asked /\ Level(t, Len(frames[t])) = Top(t).asked
  BY <1>1 DEF IInv, ConfigFollowsFrames, Level
<1>3. PlaceOk(Top(t), purpose)
  BY <1>1 DEF IInv, PlacesInv
<1>4. FrameOk(Top(t), Len(frames[t]) = Len(frames[t]))
  BY <1>1, Zenon DEF IInv, FramesInv
<1>5. FrameOk(Top(t), TRUE)
  BY <1>4 DEF FrameOk
<1> QED
  BY <1>1, <1>2, <1>3, <1>5

\* Leaving a region or a graph keeps the invariant; the code's assertions hold.
LEMMA ExitRegionStep ==
  ASSUME IInv, NEW t \in Threads, ExitRegion(t)
  PROVE  IInv'
<1>1. frames[t] # <<>> /\ Top(t).kind # "disable" /\ UNCHANGED <<environment, purpose>>
  BY DEF ExitRegion
<1>2. Pop(t)
  BY <1>1, TopConfig DEF ExitRegion
<1>3. Contexts' /\ \A u \in Threads : Disabled(u) => Disabled(u)'
  BY <1>1, <1>2, PopStep
<1>4. SettingInv'
  BY <1>3, SettingKept DEF IInv, ExitRegion
<1>5. BlocksInv'
  BY BlocksKept, IInvParts DEF ExitRegion
<1> QED
  BY <1>3, <1>4, <1>5, IInvParts DEF Rest, ExitRegion

\* So does leaving a graph of PyTorch's, which changed no configuration.
LEMMA ExitPlainGraphStep ==
  ASSUME IInv, NEW t \in Threads, ExitPlainGraph(t)
  PROVE  IInv'
<1>1. /\ frames[t] # <<>> /\ Top(t).kind = "plain" /\ UNCHANGED <<environment, config, purpose>>
  BY DEF ExitPlainGraph
<1>2. config[t] = Top(t).saved
  BY <1>1, TopConfig DEF FrameOk
<1>3. Pop(t)
  BY <1>1, <1>2 DEF ExitPlainGraph, Pop, IInv, TypeOK
<1>4. Contexts' /\ \A u \in Threads : Disabled(u) => Disabled(u)'
  BY <1>1, <1>3, PopStep
<1>5. SettingInv'
  BY <1>4, SettingKept DEF IInv, ExitPlainGraph
<1>6. BlocksInv'
  BY BlocksKept, IInvParts DEF ExitPlainGraph
<1> QED
  BY <1>4, <1>5, <1>6, IInvParts DEF Rest, ExitPlainGraph

\* empty_cache() leaves a block as it is or frees it.
LEMMA EmptyCacheKeeps ==
  ASSUME BlocksInv, UNCHANGED <<environment, purpose>>, blocks' \in {blocks, EmptyCache}
  PROVE  BlocksInv'
<1>1. \A b \in Blocks : blocks'[b] \in {blocks[b], Null}
  BY DEF EmptyCache
<1>2. blocks' \in [Blocks -> Block \cup {Null}]
  BY DEF BlocksInv, EmptyCache
<1> QED
  BY <1>1, <1>2, BlocksStay

\* Leaving disable() restores the configuration and the setting, whichever
\* thread it is.
LEMMA ExitDisableStep ==
  ASSUME IInv, NEW t \in Threads, ExitDisable(t)
  PROVE  IInv'
<1>1. /\ frames[t] # <<>> /\ Top(t).kind = "disable" /\ UNCHANGED <<environment, purpose>>
  BY DEF ExitDisable
<1>2. config[t] = Top(t).asked /\ Top(t) \in Frame
  BY <1>1, TopConfig
<1>3. Top(t).saved.interesting /\ Top(t).asked = [Top(t).saved EXCEPT !.interesting = FALSE]
  BY <1>1, TopConfig DEF FrameOk
<1>4. [config[t] EXCEPT !.interesting = TRUE] = Top(t).saved
  BY <1>2, <1>3 DEF Frame, Config
<1>5. Pop(t)
  BY <1>4 DEF ExitDisable, Pop
<1>6. Contexts'
  BY <1>1, <1>5, PopStep
<1>7. SettingInv' /\ setting' \in BOOLEAN
  BY DEF IInv, TypeOK, SettingInv, SettingRestored, SettingOutside, SwapsSetting, HookMode,
         Expandable, ExitDisable
<1>8. BlocksInv'
  BY EmptyCacheKeeps, IInvParts DEF ExitDisable
<1> QED
  BY <1>6, <1>7, <1>8, IInvParts DEF Rest, ExitDisable

------------------------------------------------------------------------------
(* The caching allocator *)

\* The contexts that have a pool, and those that have a stream.
Pooled(t)   == {i \in DOMAIN frames[t] : frames[t][i].pool # Null}
Streamed(t) == {i \in DOMAIN frames[t] : frames[t][i].stream # Null}

\* Without contexts in disable(), a thread's allocations are of the untracked
\* stream exactly within disable(), where its switch is off.
LEMMA StreamWithin ==
  ASSUME IInv, NEW t \in Threads, ~NestInDisable
  PROVE  /\ Stream(t) = "untracked" => frames[t] # <<>> /\ Top(t).kind = "disable"
         /\ frames[t] # <<>> /\ Top(t).kind = "disable" =>
                Stream(t) = "untracked" /\ ~config[t].interesting
<1>1. ASSUME Stream(t) = "untracked" PROVE frames[t] # <<>> /\ Top(t).kind = "disable"
  <2>1. Streamed(t) # {} /\ Innermost(t, Streamed(t)).stream = "untracked"
    BY <1>1 DEF Stream, Streamed
  <2>2. PICK i \in Streamed(t) : Innermost(t, Streamed(t)) = frames[t][i]
    BY <2>1, InnermostType DEF IInv, Streamed
  <2>3. /\ i \in DOMAIN frames[t] /\ frames[t][i] \in Frame /\ frames[t][i].stream # Null
        /\ frames[t][i].stream = "untracked" /\ PlaceOk(frames[t][i], purpose)
    BY <2>1, <2>2, FrameTypes DEF IInv, PlacesInv, Streamed
  <2>4. frames[t][i].kind = "disable"
    BY <2>3 DEF PlaceOk, Frame, Kinds, GraphStreams
  <2>5. FrameOk(frames[t][i], i = Len(frames[t]))
    BY <2>3 DEF IInv, FramesInv
  <2>6. i = Len(frames[t])
    BY <2>4, <2>5 DEF FrameOk
  <2> QED
    BY <2>3, <2>4, <2>6, FrameTypes DEF IInv, Top
<1>2. ASSUME frames[t] # <<>>, Top(t).kind = "disable"
      PROVE  Stream(t) = "untracked" /\ ~config[t].interesting
  <2>1. /\ config[t] = Top(t).asked /\ Top(t) \in Frame
        /\ Top(t).asked = [Top(t).saved EXCEPT !.interesting = FALSE]
        /\ Top(t).stream = "untracked"
    BY <1>2, TopConfig DEF FrameOk, PlaceOk
  <2>2. Len(frames[t]) \in Streamed(t) /\ Streamed(t) \subseteq DOMAIN frames[t]
    <3>1. "untracked" # Null
      BY NullAssumption DEF Streams
    <3> QED
      BY <1>2, <2>1, <3>1, FrameTypes DEF IInv, Streamed, Top
  <2>3. Innermost(t, Streamed(t)) = Top(t)
    BY <1>2, <2>2, TopIsInnermost DEF IInv
  <2>4. Stream(t) = "untracked"
    BY <2>1, <2>2, <2>3 DEF Stream, Streamed
  <2> QED
    BY <2>1, <2>4 DEF Frame, Config
<1> QED
  BY <1>1, <1>2

\* A pool and a stream are those there are.
LEMMA PoolTypes ==
  ASSUME IInv, NEW t \in Threads
  PROVE  Pool(t) \in Pools /\ Stream(t) \in Streams
<1>1. Pool(t) \in Pools
  <2>1. CASE Pooled(t) = {}
    BY <2>1 DEF Pool, Pooled, Pools
  <2>2. CASE Pooled(t) # {}
    <3>1. PICK i \in Pooled(t) : Innermost(t, Pooled(t)) = frames[t][i]
      BY <2>2, InnermostType DEF IInv, Pooled
    <3>2. frames[t][i].pool \in Pools
      BY <3>1, FrameTypes DEF IInv, Pooled, Frame
    <3>3. Pool(t) = frames[t][i].pool
      BY <2>2, <3>1 DEF Pool, Pooled
    <3> QED
      BY <3>2, <3>3
  <2> QED
    BY <2>1, <2>2
<1>2. Stream(t) \in Streams
  <2>1. CASE Streamed(t) = {}
    BY <2>1 DEF Stream, Streamed, Streams
  <2>2. CASE Streamed(t) # {}
    <3>1. PICK i \in Streamed(t) : Innermost(t, Streamed(t)) = frames[t][i]
      BY <2>2, InnermostType DEF IInv, Streamed
    <3>2. frames[t][i].stream \in Streams
      BY <3>1, FrameTypes DEF IInv, Streamed, Frame
    <3>3. Stream(t) = frames[t][i].stream
      BY <2>2, <3>1 DEF Stream, Streamed
    <3> QED
      BY <3>2, <3>3
  <2> QED
    BY <2>1, <2>2
<1> QED
  BY <1>1, <1>2

\* What is tracked, and what is asked for, is of the tags and backups there are.
LEMMA TrackTypes ==
  ASSUME IInv, NEW t \in Threads
  PROVE  /\ Track(t) \in Tracking
         /\ User(t) \in [in : Kinds \cup {"none"}, asked : Tracking]
<1>1. config[t] \in Config /\ Untracked \in Tracking
  BY DEF IInv, TypeOK, Tracking
<1>2. Track(t) \in Tracking
  BY <1>1, TrackingType DEF Track
<1>3. Level(t, Len(frames[t])) \in Config
  BY <1>1 DEF IInv, ConfigFollowsFrames
<1>4. Asked(t) \in Tracking
  BY <1>1, <1>3, TrackingType DEF Asked
<1>5. frames[t] # <<>> => Top(t).kind \in Kinds
  BY FrameTypes DEF IInv, Frame
<1> QED
  BY <1>2, <1>4, <1>5 DEF User

\* With pools, what is asked for and what a new block is tracked as are what the
\* pool and the stream say.
LEMMA PoolDetermines ==
  ASSUME IInv, NEW t \in Threads, ~Expandable, ~NestInDisable, ~SharePools
  PROVE  /\ Asked(t) = TrackingIn(Pool(t), Stream(t), purpose)
         /\ Track(t) = TrackingIn(Pool(t), Stream(t), purpose)
<1>1. CASE frames[t] = <<>>
  <2>1. Pooled(t) = {}
    BY <1>1 DEF Pooled
  <2>2. Pool(t) = DefaultPool /\ Stream(t) # "untracked"
    BY <1>1, <2>1, StreamWithin DEF Pool, Pooled
  <2>3. config[t] = Initial /\ Level(t, Len(frames[t])) = Initial
    BY <1>1 DEF IInv, ConfigFollowsFrames, Level
  <2>4. DefaultPool[1] # "region" /\ DefaultPool[1] # "graph"
    BY DEF DefaultPool
  <2>5. HookMode \in {"preload", "torch"}
    BY RegionsAssumption DEF HookMode, IInv, TypeOK
  <2> QED
    BY <1>1, <2>2, <2>3, <2>4, <2>5 DEF Asked, Track, TrackingIn, Hooked
<1>2. CASE frames[t] # <<>> /\ Top(t).kind = "disable"
  <2>1. Stream(t) = "untracked" /\ ~config[t].interesting
    BY <1>2, StreamWithin
  <2>2. Level(t, Len(frames[t])) = config[t]
    BY <1>2, TopConfig
  <2> QED
    BY <1>2, <2>1, <2>2 DEF Asked, Track, TrackingIn, TrackingOf
<1>3. CASE frames[t] # <<>> /\ Top(t).kind # "disable"
  <2>1. /\ config[t] = Top(t).asked /\ Level(t, Len(frames[t])) = Top(t).asked
        /\ Top(t) \in Frame /\ FrameOk(Top(t), TRUE) /\ PlaceOk(Top(t), purpose)
    BY <1>3, TopConfig
  <2>2. Stream(t) # "untracked"
    BY <1>3, StreamWithin
  <2>3. ASSUME Top(t).pool # Null PROVE Pool(t) = Top(t).pool
    <3>1. Len(frames[t]) \in Pooled(t) /\ Pooled(t) \subseteq DOMAIN frames[t]
      BY <1>3, <2>3, FrameTypes DEF IInv, Pooled, Top
    <3>2. Innermost(t, Pooled(t)) = Top(t)
      BY <1>3, <3>1, TopIsInnermost DEF IInv
    <3> QED
      BY <3>1, <3>2 DEF Pool, Pooled
  <2>4. CASE Top(t).kind = "region"
    <3>1. Top(t).asked.interesting /\ Top(t).pool = RegionPool(Top(t).asked.tag, Top(t).asked.backup)
      BY <2>1, <2>4 DEF FrameOk, PlaceOk, SwapsSetting
    <3>2. RegionPool(Top(t).asked.tag, Top(t).asked.backup) \in Pools
      BY <2>1 DEF Frame, Config, Pools, RegionPool
    <3>3. Pool(t) = <<"region", Top(t).asked.tag, Top(t).asked.backup>>
      BY <2>3, <3>1, <3>2, NullAssumption DEF RegionPool
    <3>4. /\ Pool(t) # DefaultPool /\ Pool(t)[1] = "region"
          /\ Pool(t)[2] = Top(t).asked.tag /\ Pool(t)[3] = Top(t).asked.backup
      BY <3>3 DEF DefaultPool
    <3> QED
      BY <1>3, <2>1, <2>2, <3>1, <3>4 DEF Asked, Track, TrackingIn, TrackingOf, Hooked
  <2>5. CASE Top(t).kind \in {"graph", "plain"}
    <3>1. HookMode = "preload"
      BY <2>1, <2>5 DEF PlaceOk
    <3>2. PICK g \in GraphPools : /\ Top(t).pool = <<"graph", g>>
                                  /\ purpose[g] = TrackingOf(Top(t).asked)
      BY <2>1, <2>5 DEF PlaceOk
    <3>3. <<"graph", g>> \in Pools
      BY DEF Pools
    <3>4. Pool(t) = <<"graph", g>>
      BY <2>3, <3>2, <3>3, NullAssumption
    <3>5. Pool(t)[1] = "graph" /\ Pool(t)[2] = g
      BY <3>4
    <3> QED
      BY <1>3, <2>1, <2>2, <3>1, <3>2, <3>5 DEF Asked, Track, TrackingIn, Hooked
  <2> QED
    BY <1>3, <2>1, <2>4, <2>5 DEF Frame, Kinds
<1> QED
  BY <1>1, <1>2, <1>3

\* A block that has no user fits whoever has its pool and its stream.
LEMMA ReuseStep ==
  ASSUME IInv, NEW t \in Threads, NEW b \in Blocks, Reuse(t, b)
  PROVE  IInv'
<1>1. /\ blocks[b] \in Block /\ blocks[b].pool = Pool(t) /\ blocks[b].stream = Stream(t)
      /\ UNCHANGED <<environment, config, frames, purpose, setting, exited>>
  BY DEF IInv, TypeOK, Reuse
<1>2. blocks' = [blocks EXCEPT ![b] = [blocks[b] EXCEPT !.user = User(t)]]
  BY DEF Reuse
<1>3. [blocks[b] EXCEPT !.user = User(t)] \in Block
  BY <1>1, TrackTypes DEF Block
<1>4. blocks' \in [Blocks -> Block \cup {Null}]
  BY <1>2, <1>3 DEF IInv, TypeOK
<1>5. /\ blocks'[b].pool = Pool(t) /\ blocks'[b].stream = Stream(t)
      /\ blocks'[b].tracking = blocks[b].tracking /\ blocks'[b].user = User(t)
      /\ \A c \in Blocks : c # b => blocks'[c] = blocks[c]
  BY <1>1, <1>2 DEF IInv, TypeOK, Block
<1>6. blocks[b] # Null
  BY DEF Reuse
<1>7. StreamInv'
  <2>1. ~NestInDisable => /\ Stream(t) = "untracked" => blocks[b].tracking = Untracked
                          /\ User(t).in = "disable" => Stream(t) = "untracked"
    BY <1>1, <1>6, StreamWithin DEF IInv, StreamInv, User
  <2>2. NestInDisable' = NestInDisable
    BY <1>1 DEF NestInDisable
  <2> QED
    BY <1>5, <2>1, <2>2 DEF IInv, StreamInv
<1>8. PoolInv'
  <2> SUFFICES ASSUME ~Expandable, ~NestInDisable, ~SharePools, NEW c \in Blocks, blocks'[c] # Null
               PROVE  /\ blocks'[c].tracking =
                             TrackingIn(blocks'[c].pool, blocks'[c].stream, purpose')
                      /\ blocks'[c].user # Null => blocks'[c].user.asked = blocks'[c].tracking
    BY <1>1, PoolsKept
  <2>1. CASE c # b
    BY <1>1, <1>5, <2>1 DEF IInv, PoolInv
  <2>2. CASE c = b
    <3>1. blocks[b].tracking = TrackingIn(Pool(t), Stream(t), purpose)
      BY <1>1, <1>6 DEF IInv, PoolInv
    <3>2. User(t).asked = TrackingIn(Pool(t), Stream(t), purpose)
      BY PoolDetermines DEF User
    <3> QED
      BY <1>1, <1>5, <2>2, <3>1, <3>2
  <2> QED
    BY <2>1, <2>2
<1>9. SettingInv'
  BY <1>1, SettingKept DEF IInv, Disabled
<1> QED
  BY <1>1, <1>4, <1>7, <1>8, <1>9, IInvParts, ContextsKept DEF Rest, BlocksInv

\* A new block is tracked as its pool and its stream say.
LEMMA NewBlockStep ==
  ASSUME IInv, NEW t \in Threads, NEW b \in Blocks, NewBlock(t, b)
  PROVE  IInv'
<1> DEFINE new == [pool |-> Pool(t), stream |-> Stream(t), expandable |-> setting,
                   tracking |-> Track(t), user |-> User(t)]
<1>1. /\ blocks' = [blocks EXCEPT ![b] = new]
      /\ UNCHANGED <<environment, config, frames, purpose, setting, exited>>
  BY DEF NewBlock
<1>2. new \in Block
  BY PoolTypes, TrackTypes DEF IInv, TypeOK, Block
<1>3. blocks' \in [Blocks -> Block \cup {Null}]
  BY <1>1, <1>2 DEF IInv, TypeOK
<1>4. /\ blocks'[b].pool = Pool(t) /\ blocks'[b].stream = Stream(t)
      /\ blocks'[b].tracking = Track(t) /\ blocks'[b].user = User(t)
      /\ \A c \in Blocks : c # b => blocks'[c] = blocks[c]
  BY <1>1 DEF IInv, TypeOK
<1>5. StreamInv'
  <2>1. ~NestInDisable => /\ Stream(t) = "untracked" => Track(t) = Untracked
                          /\ User(t).in = "disable" => Stream(t) = "untracked"
    BY StreamWithin DEF Track, TrackingOf, User
  <2>2. NestInDisable' = NestInDisable
    BY <1>1 DEF NestInDisable
  <2> QED
    BY <1>4, <2>1, <2>2 DEF IInv, StreamInv
<1>6. PoolInv'
  <2> SUFFICES ASSUME ~Expandable, ~NestInDisable, ~SharePools, NEW c \in Blocks, blocks'[c] # Null
               PROVE  /\ blocks'[c].tracking =
                             TrackingIn(blocks'[c].pool, blocks'[c].stream, purpose')
                      /\ blocks'[c].user # Null => blocks'[c].user.asked = blocks'[c].tracking
    BY <1>1, PoolsKept
  <2>1. CASE c # b
    BY <1>1, <1>4, <2>1 DEF IInv, PoolInv
  <2>2. CASE c = b
    <3>1. /\ User(t).asked = TrackingIn(Pool(t), Stream(t), purpose)
          /\ Track(t) = TrackingIn(Pool(t), Stream(t), purpose)
      BY PoolDetermines DEF User
    <3> QED
      BY <1>1, <1>4, <2>2, <3>1
  <2> QED
    BY <2>1, <2>2
<1>7. SettingInv'
  BY <1>1, SettingKept DEF IInv, Disabled
<1> QED
  BY <1>1, <1>3, <1>5, <1>6, <1>7, IInvParts, ContextsKept DEF Rest, BlocksInv

\* A block whose tensor died waits for the next one.
LEMMA CacheStep ==
  ASSUME IInv, NEW b \in Blocks, Cache(b)
  PROVE  IInv'
<1>1. /\ blocks[b] \in Block /\ blocks[b] # Null
      /\ blocks' = [blocks EXCEPT ![b] = [blocks[b] EXCEPT !.user = Null]]
      /\ UNCHANGED <<environment, config, frames, purpose, setting, exited>>
  BY DEF IInv, TypeOK, Cache
<1>2. [blocks[b] EXCEPT !.user = Null] \in Block
  BY <1>1 DEF Block
<1>3. blocks' \in [Blocks -> Block \cup {Null}]
  BY <1>1, <1>2 DEF IInv, TypeOK
<1>4. /\ blocks'[b].pool = blocks[b].pool /\ blocks'[b].stream = blocks[b].stream
      /\ blocks'[b].tracking = blocks[b].tracking /\ blocks'[b].user = Null
      /\ \A c \in Blocks : c # b => blocks'[c] = blocks[c]
  BY <1>1 DEF IInv, TypeOK, Block
<1>5. StreamInv'
  <2>1. NestInDisable' = NestInDisable
    BY <1>1 DEF NestInDisable
  <2> QED
    BY <1>1, <1>4, <2>1 DEF IInv, StreamInv
<1>6. PoolInv'
  <2> SUFFICES ASSUME ~Expandable, ~NestInDisable, ~SharePools, NEW c \in Blocks, blocks'[c] # Null
               PROVE  /\ blocks'[c].tracking =
                             TrackingIn(blocks'[c].pool, blocks'[c].stream, purpose')
                      /\ blocks'[c].user # Null => blocks'[c].user.asked = blocks'[c].tracking
    BY <1>1, PoolsKept
  <2> QED
    BY <1>1, <1>4 DEF IInv, PoolInv
<1>7. SettingInv'
  BY <1>1, SettingKept DEF IInv, Disabled
<1> QED
  BY <1>1, <1>3, <1>5, <1>6, <1>7, IInvParts, ContextsKept DEF Rest, BlocksInv

\* A pool of graphs goes with its blocks, and may then be for something else.
LEMMA DropPoolStep ==
  ASSUME IInv, NEW g \in GraphPools, DropPool(g)
  PROVE  IInv'
<1>1. /\ UNCHANGED <<environment, config, frames, setting, exited>>
      /\ purpose' = [purpose EXCEPT ![g] = Null]
      /\ \A t \in Threads : \A i \in DOMAIN frames[t] : frames[t][i].pool # <<"graph", g>>
      /\ blocks' = [b \in Blocks |-> IF blocks[b] # Null /\ blocks[b].pool = <<"graph", g>>
                                    THEN Null ELSE blocks[b]]
  BY DEF DropPool
<1>2. /\ purpose' \in [GraphPools -> Tracking \cup {Null}]
      /\ \A h \in GraphPools : h # g => purpose'[h] = purpose[h]
  BY <1>1 DEF IInv, TypeOK
<1>3. PlacesInv'
  <2>1. ASSUME NEW t \in Threads, NEW i \in DOMAIN frames[t] PROVE PlaceOk(frames[t][i], purpose')
    <3>1. /\ frames[t][i] \in Frame /\ PlaceOk(frames[t][i], purpose)
          /\ frames[t][i].pool # <<"graph", g>>
      BY <1>1, FrameTypes DEF IInv, PlacesInv
    <3>2. \A h \in GraphPools : frames[t][i].pool = <<"graph", h>> /\ purpose[h] # Null =>
              purpose'[h] = purpose[h]
      BY <1>2, <3>1
    <3> QED
      BY <3>1, <3>2, PlaceKept
  <2>2. \A t \in Threads : \A i \in DOMAIN frames'[t] : PlaceOk(frames'[t][i], purpose')
    BY <1>1, <2>1
  <2> QED
    BY <1>1, <2>2, PlacesKept
<1>4. ConfigFollowsFrames' /\ FramesInv'
  BY <1>1 DEF IInv, ConfigFollowsFrames, FramesInv, FrameOk, Level, Initial, InitEnable,
              InitBackup, NestInDisable
<1>5. BlocksInv'
  <2>1. blocks' \in [Blocks -> Block \cup {Null}] /\ \A b \in Blocks : blocks'[b] \in {blocks[b], Null}
    BY <1>1 DEF IInv, TypeOK
  <2>2. \A b \in Blocks, h \in GraphPools :
            blocks'[b] # Null /\ blocks[b].pool = <<"graph", h>> /\ purpose[h] # Null =>
                purpose'[h] = purpose[h]
    BY <1>1, <1>2
  <2> QED
    BY <1>1, <2>1, <2>2, IInvParts, BlocksStay
<1>6. SettingInv'
  BY <1>1, SettingKept DEF IInv, Disabled
<1> QED
  BY <1>1, <1>2, <1>3, <1>4, <1>5, <1>6, IInvParts DEF Rest, Contexts, IInv, TypeOK

------------------------------------------------------------------------------
(* The theorems *)

\* The process starts without contexts and without blocks.
LEMMA InitIInv == Init => IInv
<1> SUFFICES ASSUME Init PROVE IInv
  OBVIOUS
<1>1. environment \in Environments /\ environment.enable \in BOOLEAN /\ environment.expandable \in BOOLEAN
  BY RegionsAssumption DEF Init
<1>2. Initial \in Config
  BY <1>1 DEF Initial, Config, AllTags, AllBackups, InitEnable, InitBackup
<1>3. TypeOK
  BY <1>1, <1>2 DEF Init, TypeOK, Expandable
<1>4. ConfigFollowsFrames /\ FramesInv /\ PlacesInv
  BY DEF Init, ConfigFollowsFrames, FramesInv, PlacesInv, Level
<1>5. SettingInv /\ StreamInv /\ PoolInv
  BY DEF Init, SettingInv, SettingRestored, StreamInv, PoolInv
<1> QED
  BY <1>3, <1>4, <1>5 DEF IInv

\* Every step keeps the invariant.
LEMMA NextIInv == IInv /\ [Next]_vars => IInv'
<1> SUFFICES ASSUME IInv, [Next]_vars PROVE IInv'
  OBVIOUS
<1>1. ASSUME NEW t \in Threads, NEW tag \in Tags, NEW backup \in Backups,
             EnterRegion(t, tag, backup)
      PROVE  IInv'
  BY <1>1, EnterRegionStep
<1>2. ASSUME NEW t \in Threads, NEW tag \in Tags, NEW backup \in Backups, NEW g \in GraphPools,
             NEW stream \in GraphStreams, EnterGraph(t, tag, backup, g, stream)
      PROVE  IInv'
  <2> DEFINE asked == [tag |-> tag, interesting |-> TRUE, backup |-> backup]
  <2>1. asked \in Config /\ asked.interesting /\ Capture(t, "graph", asked, g, stream)
    BY <1>2 DEF EnterGraph, Config, AllTags, AllBackups
  <2> HIDE DEF asked
  <2> QED
    BY <2>1, CaptureStep
<1>3. ASSUME NEW t \in Threads, NEW g \in GraphPools, NEW stream \in GraphStreams,
             EnterPlainGraph(t, g, stream)
      PROVE  IInv'
  <2>1. config[t] \in Config
    BY DEF IInv, TypeOK
  <2> QED
    BY <1>3, <2>1, CaptureStep DEF EnterPlainGraph
<1>4. ASSUME NEW t \in Threads, ExitRegion(t) \/ ExitPlainGraph(t) PROVE IInv'
  BY <1>4, ExitRegionStep, ExitPlainGraphStep
<1>5. ASSUME NEW t \in Threads, EnterDisable(t) \/ ExitDisable(t) PROVE IInv'
  BY <1>5, EnterDisableStep, ExitDisableStep
<1>6. ASSUME NEW t \in Threads, TorchMallocRefused(t) PROVE IInv'
  BY <1>6, IInvParts, ContextsKept, BlocksKept, SettingKept DEF Rest, TorchMallocRefused, Disabled
<1>7. ASSUME NEW t \in Threads, NEW b \in Blocks, Reuse(t, b) \/ NewBlock(t, b) PROVE IInv'
  BY <1>7, ReuseStep, NewBlockStep
<1>8. CASE GiveBack
  <2>1. BlocksInv'
    BY <1>8, IInvParts, EmptyCacheKeeps DEF GiveBack
  <2> QED
    BY <1>8, <2>1, IInvParts, ContextsKept, SettingKept DEF Rest, GiveBack, Disabled
<1>9. ASSUME NEW b \in Blocks, Cache(b) PROVE IInv'
  BY <1>9, CacheStep
<1>10. ASSUME NEW g \in GraphPools, DropPool(g) PROVE IInv'
  BY <1>10, DropPoolStep
<1>11. CASE UNCHANGED vars
  BY <1>11, IInvParts, ContextsKept, BlocksKept, SettingKept DEF Rest, vars, Disabled
<1> QED
  BY <1>1, <1>2, <1>3, <1>4, <1>5, <1>6, <1>7, <1>8, <1>9, <1>10, <1>11 DEF Next, Terminated

\* The inductive invariant holds in every state: the configuration, contexts,
\* setting and blocks of entrypoint.py and csrc/entrypoint.cpp agree, also when
\* clients pass a graph's pool from one graph to the next (entrypoint.py:177-182).
THEOREM Invariance == Spec => []IInv
<1> QED
  BY InitIInv, NextIInv, PTL DEF Spec

\* A thread's configuration is the one its innermost context asked for, however
\* contexts of several threads are nested and left (entrypoint.py:184-248).
THEOREM ConfigCorrect == Spec => []ConfigFollowsFrames
<1>1. IInv => ConfigFollowsFrames
  BY DEF IInv
<1> QED
  BY <1>1, Invariance, PTL

\* With pools, every block is tracked as the context of its user asks, also when
\* it was allocated for another one, for clients that use a graph's pool for one
\* configuration only (entrypoint.py:167-182).
THEOREM TrackingCorrect == Spec => []TrackedAsAsked
<1>1. IInv => TrackedAsAsked
  BY DEF IInv, PoolInv, TrackedAsAsked
<1> QED
  BY <1>1, Invariance, PTL

\* What is allocated within disable() is not tracked, with expandable segments
\* or without (entrypoint.py:136, 209-248).
THEOREM DisableCorrect == Spec => []DisabledUntracked
<1>1. IInv => DisabledUntracked
  BY DEF IInv, StreamInv, DisabledUntracked
<1> QED
  BY <1>1, Invariance, PTL

\* PyTorch's expandable_segments is as the process started it whenever no thread
\* is in disable() (entrypoint.py:209-248).
THEOREM SettingCorrect == Spec => []SettingRestored
<1>1. IInv => SettingRestored
  BY DEF IInv, SettingInv
<1> QED
  BY <1>1, Invariance, PTL
==============================================================================
