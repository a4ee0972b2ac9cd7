------------------------- MODULE ConfigStoreProofs -------------------------
(***************************************************************************)
(* Proofs about ConfigStore, for any number of handlers, settings and      *)
(* keys: types, KeyKept and SavesKept.                                     *)
(*                                                                         *)
(* The properties speak of the moments when no save of a part runs.  The   *)
(* inductive invariant says what holds in between, at each step of a save  *)
(* that no other save of its part overlaps: what it was made from and the  *)
(* files it has replaced by then (AppSave, KeySave), and that the files it *)
(* has not touched still agree with the acknowledged saves (AppAgrees and  *)
(* the others).  Nothing but types and Shapes holds of a part whose saves  *)
(* overlapped or were cut short by a crash.  A step of a save of one part  *)
(* leaves all that is said of the other one: AppFrame and KeyFrame.        *)
(***************************************************************************)
EXTENDS ConfigStore, TLAPS

Saving == {"truncate", "write", "publish"}

\* What h's variables hold at each of its steps.
Shape(h) ==
  /\ pc[h] # "idle" => <<kind[h], posted[h]>> \in Posts
  /\ pc[h] = "read" => todo[h] = FilesOf[kind[h]]
  /\ pc[h] \in {"truncate", "write"} =>
       \/ todo[h] = FilesOf[kind[h]]
       \/ kind[h] = "bird" /\ todo[h] = <<"app">>
  /\ pc[h] = "publish" => kind[h] # "wg" /\ todo[h] = <<>>
  /\ pc[h] \in Saving /\ kind[h] = "wg" => new[h] \in Keys
  /\ pc[h] \in Saving /\ kind[h] # "wg" => new[h] \in Apps
  /\ pc[h] \in Saving /\ kind[h] = "bird" => new[h].bird = posted[h]

Shapes == (~alive => Quiet) /\ \A h \in Handlers : Shape(h)

\* h saves settings, or wg0.conf.
InApp(h) == pc[h] # "idle" /\ kind[h] # "wg"
InKey(h) == pc[h] # "idle" /\ kind[h] = "wg"

\* No two saves of a part overlap.
AppAlone == \A g, h \in Handlers : InApp(g) /\ InApp(h) => g = h
KeyAlone == \A g, h \in Handlers : InKey(g) /\ InKey(h) => g = h

\* h's save has begun to change the file.
AppTouched(h) == kind[h] # "wg" /\ \/ pc[h] = "publish"
                                   \/ pc[h] = "write" /\ todo[h] = <<"app">>
BirdTouched(h) == kind[h] = "bird" /\ \/ pc[h] \in {"write", "publish"}
                                      \/ pc[h] = "truncate" /\ todo[h] = <<"app">>
KeyTouched(h) == kind[h] = "wg" /\ pc[h] = "write"

\* What h is saving differs from s.cfg by what it was sent; and the files that
\* it has truncated and the ones it has written.
AppSave(h) ==
  /\ pc[h] \in Saving /\ kind[h] = "bird" => new[h].run = mem.run
  /\ pc[h] \in Saving /\ kind[h] = "run" => new[h].bird = mem.bird /\ new[h].run = posted[h]
  /\ kind[h] # "wg" /\ pc[h] = "write" => /\ todo[h] = <<"app">> => file["app"] = Empty
                                          /\ todo[h] # <<"app">> => file["bird"] = Empty
  /\ kind[h] # "wg" /\ pc[h] = "publish" => file["app"] = new[h]
  /\ kind[h] = "bird" /\ pc[h] = "publish" => file["bird"] = new[h].bird
  /\ kind[h] = "bird" /\ pc[h] \in {"truncate", "write"} /\ todo[h] = <<"app">> =>
       file["bird"] = new[h].bird

\* The same for wg0.conf: h saves what it was sent or the key that was there.
KeySave(h) ==
  /\ kind[h] = "wg" /\ pc[h] \in Saving =>
       IF posted[h] # Placeholder THEN new[h] = posted[h]
       ELSE "wg" \notin bad => new[h] = want.key
  /\ kind[h] = "wg" /\ pc[h] = "write" => file["wg"] = Empty

\* A file that no save is changing, and that the last one did not spoil, is
\* what the acknowledged saves made it.
AppAgrees ==
  "app" \notin bad /\ (\A h \in Handlers : ~AppTouched(h)) => Load(file["app"]) = mem
BirdAgrees ==
  "bird" \notin bad /\ (\A h \in Handlers : ~BirdTouched(h)) =>
    file["bird"] = mem.bird \/ (file["bird"] = Missing /\ mem.bird = Default)
KeyAgrees ==
  "wg" \notin bad /\ (\A h \in Handlers : ~KeyTouched(h)) => file["wg"] = want.key

OrderlyApp ==
  "app" \in orderly =>
    /\ AppAlone
    /\ mem = want.app
    /\ ~alive => "app" \notin bad
    /\ \A h \in Handlers : AppSave(h)
    /\ AppAgrees /\ BirdAgrees

OrderlyKey ==
  "key" \in orderly =>
    /\ KeyAlone
    /\ want.key # Mixed
    /\ \A h \in Handlers : KeySave(h)
    /\ KeyAgrees

Inv == TypeOK /\ Shapes /\ OrderlyApp /\ OrderlyKey

----------------------------------------------------------------------------
(* Sequences and records of the model *)

\* The files of each save, and how a handler walks through them.
LEMMA Sequencing ==
  /\ FilesOf["bird"] = <<"bird", "app">>
  /\ FilesOf["run"] = <<"app">>
  /\ FilesOf["wg"] = <<"wg">>
  /\ Head(<<"bird", "app">>) = "bird" /\ Tail(<<"bird", "app">>) = <<"app">>
  /\ Head(<<"app">>) = "app" /\ Tail(<<"app">>) = <<>>
  /\ Head(<<"wg">>) = "wg" /\ Tail(<<"wg">>) = <<>>
  /\ <<"bird", "app">> # <<"app">> /\ <<"wg">> # <<"app">> /\ <<"app">> # <<>>
  /\ <<"wg">> # <<>> /\ <<"bird", "app">> # <<>> /\ <<"wg">> # <<"bird", "app">>
  BY SMT DEF FilesOf

\* The same files as sets.
LEMMA Ranges ==
  /\ Range(<<"bird", "app">>) = {"bird", "app"}
  /\ Range(<<"app">>) = {"app"}
  /\ Range(<<"wg">>) = {"wg"}
  /\ Range(<<>>) = {}
  BY SMT DEF Range

\* What is posted fits the kind of the save.
LEMMA Posted ==
  ASSUME NEW k, NEW v
  PROVE  <<k, v>> \in Posts <=> \/ k = "bird" /\ v \in Birds
                                \/ k = "run" /\ v \in Runs
                                \/ k = "wg" /\ v \in Keys \cup {Placeholder}
  BY DEF Posts

\* Saving one part of the App config leaves the other.
LEMMA ReplaceBird ==
  ASSUME NEW a \in Apps, NEW v \in Birds, NEW k, k = "bird"
  PROVE  /\ [a EXCEPT ![k] = v] \in Apps
         /\ [a EXCEPT ![k] = v].bird = v /\ [a EXCEPT ![k] = v].run = a.run
  BY DEF Apps

LEMMA ReplaceRun ==
  ASSUME NEW a \in Apps, NEW v \in Runs, NEW k, k = "run"
  PROVE  /\ [a EXCEPT ![k] = v] \in Apps
         /\ [a EXCEPT ![k] = v].run = v /\ [a EXCEPT ![k] = v].bird = a.bird
  BY DEF Apps

\* An App config is its two parts.
LEMMA SameApp ==
  ASSUME NEW a \in Apps, NEW b \in Apps, a.bird = b.bird, a.run = b.run
  PROVE  a = b
  BY DEF Apps

\* A whole app.yaml is loaded as it is.
LEMMA Loads ==
  /\ \A a \in Apps : Load(a) = a
  /\ Load(Missing) = DefaultApp /\ Load(Empty) = DefaultApp
  /\ DefaultApp \in Apps /\ DefaultApp.bird = Default
  /\ \A c : Load(c) \in Apps => c # Mixed
  BY ContentsAssumption DEF Load, DefaultApp, Apps

\* The key that a save goes on with.
LEMMA Merged ==
  ASSUME NEW existing, NEW v \in Keys \cup {Placeholder}, NEW k \in Mergeable(existing, v)
  PROVE  /\ k \in Keys
         /\ v # Placeholder => k = v
         /\ v = Placeholder => k = existing \/ existing = Mixed
<1>1. CASE v # Placeholder
  <2>1. Mergeable(existing, v) = {v}
    BY <1>1 DEF Mergeable
  <2> QED
    BY <1>1, <2>1
<1>2. CASE v = Placeholder /\ existing \in Keys
  <2>1. Mergeable(existing, v) = {existing}
    BY <1>2, ContentsAssumption DEF Mergeable
  <2> QED
    BY <1>2, <2>1
<1>3. CASE v = Placeholder /\ existing = Mixed
  BY <1>3, ContentsAssumption DEF Mergeable
<1>4. CASE v = Placeholder /\ existing \notin Keys \cup {Mixed}
  <2>1. Mergeable(existing, v) = {}
    BY <1>4 DEF Mergeable
  <2> QED
    BY <2>1
<1> QED
  BY <1>1, <1>2, <1>3, <1>4

\* What each file may hold.
LEMMA ContentsAre ==
  /\ Contents("app") = {Missing, Empty, Mixed} \cup Apps
  /\ Contents("bird") = {Missing, Empty, Mixed} \cup Birds
  /\ Contents("wg") = {Missing, Empty, Mixed} \cup Keys
  BY DEF Contents

----------------------------------------------------------------------------
(* The two parts *)

\* A part is busy when one of its saves is under way.
LEMMA BusyParts ==
  /\ Busy("app") <=> \E h \in Handlers : InApp(h)
  /\ Busy("key") <=> \E h \in Handlers : InKey(h)
  BY DEF Busy, Part, InApp, InKey

\* Handlers other than h are as they were.
Others(h) ==
  \A g \in Handlers \ {h} : /\ kind'[g] = kind[g] /\ posted'[g] = posted[g] /\ pc'[g] = pc[g]
                            /\ todo'[g] = todo[g] /\ new'[g] = new[g]

\* A step of a save of wg0.conf leaves what is said of the settings.
LEMMA AppFrame ==
  ASSUME OrderlyApp, NEW h \in Handlers, ~InApp(h), ~InApp(h)', Others(h),
         "app" \in orderly' => "app" \in orderly,
         mem' = mem, want'.app = want.app, alive' = alive,
         file'["app"] = file["app"], file'["bird"] = file["bird"],
         "app" \in bad' <=> "app" \in bad, "bird" \in bad' <=> "bird" \in bad
  PROVE  OrderlyApp'
<1> SUFFICES ASSUME "app" \in orderly' PROVE OrderlyApp'
  BY DEF OrderlyApp
<1>0. OrderlyApp /\ "app" \in orderly
  OBVIOUS
<1>1. AppAlone'
  BY <1>0 DEF OrderlyApp, AppAlone, InApp, Others
<1>2. \A g \in Handlers : AppSave(g)'
  <2>1. AppSave(h)'
    BY DEF AppSave, InApp, Saving
  <2>2. ASSUME NEW g \in Handlers \ {h} PROVE AppSave(g)'
    BY <1>0, <2>2 DEF OrderlyApp, AppSave, Others
  <2> QED
    BY <2>1, <2>2
<1>3. \A g \in Handlers : (AppTouched(g)' <=> AppTouched(g)) /\ (BirdTouched(g)' <=> BirdTouched(g))
  <2>1. /\ ~AppTouched(h) /\ ~BirdTouched(h)
        /\ ~AppTouched(h)' /\ ~BirdTouched(h)'
    BY DEF AppTouched, BirdTouched, InApp
  <2>2. ASSUME NEW g \in Handlers \ {h}
        PROVE  (AppTouched(g)' <=> AppTouched(g)) /\ (BirdTouched(g)' <=> BirdTouched(g))
    BY <2>2 DEF AppTouched, BirdTouched, Others
  <2> QED
    BY <2>1, <2>2
<1>4. AppAgrees' /\ BirdAgrees'
  BY <1>0, <1>3 DEF OrderlyApp, AppAgrees, BirdAgrees
<1> QED
  BY <1>0, <1>1, <1>2, <1>4 DEF OrderlyApp

\* A step of a save of settings leaves what is said of wg0.conf.
LEMMA KeyFrame ==
  ASSUME OrderlyKey, NEW h \in Handlers, ~InKey(h), ~InKey(h)', Others(h),
         "key" \in orderly' => "key" \in orderly,
         want'.key = want.key, file'["wg"] = file["wg"], "wg" \in bad' <=> "wg" \in bad
  PROVE  OrderlyKey'
<1> SUFFICES ASSUME "key" \in orderly' PROVE OrderlyKey'
  BY DEF OrderlyKey
<1>0. OrderlyKey /\ "key" \in orderly
  OBVIOUS
<1>1. KeyAlone'
  BY <1>0 DEF OrderlyKey, KeyAlone, InKey, Others
<1>2. \A g \in Handlers : KeySave(g)'
  <2>1. KeySave(h)'
    BY DEF KeySave, InKey, Saving
  <2>2. ASSUME NEW g \in Handlers \ {h} PROVE KeySave(g)'
    BY <1>0, <2>2 DEF OrderlyKey, KeySave, Others
  <2> QED
    BY <2>1, <2>2
<1>3. \A g \in Handlers : KeyTouched(g)' <=> KeyTouched(g)
  BY DEF KeyTouched, InKey, Others
<1>4. KeyAgrees'
  BY <1>0, <1>3 DEF OrderlyKey, KeyAgrees
<1> QED
  BY <1>0, <1>1, <1>2, <1>4 DEF OrderlyKey

\* With no save of settings under way, OrderlyApp is what it says of s.cfg,
\* want and the files.
LEMMA AppIdle ==
  ASSUME \A g \in Handlers : ~InApp(g)',
         "app" \in orderly' => /\ (mem = want.app)' /\ (alive' \/ "app" \notin bad')
                               /\ AppAgrees' /\ BirdAgrees'
  PROVE  OrderlyApp'
<1>1. AppAlone'
  BY DEF AppAlone
<1>2. \A g \in Handlers : AppSave(g)'
  BY DEF AppSave, InApp, Saving
<1> QED
  BY <1>1, <1>2 DEF OrderlyApp

\* The same for wg0.conf.
LEMMA KeyIdle ==
  ASSUME \A g \in Handlers : ~InKey(g)',
         "key" \in orderly' => (want.key # Mixed)' /\ KeyAgrees'
  PROVE  OrderlyKey'
<1>1. KeyAlone'
  BY DEF KeyAlone
<1>2. \A g \in Handlers : KeySave(g)'
  BY DEF KeySave, InKey, Saving
<1> QED
  BY <1>1, <1>2 DEF OrderlyKey

\* A file of settings that no save is at is untouched.
LEMMA AppQuiet ==
  ASSUME NEW g \in Handlers, ~InApp(g)
  PROVE  ~AppTouched(g) /\ ~BirdTouched(g)
  BY DEF AppTouched, BirdTouched, InApp

LEMMA KeyQuiet ==
  ASSUME NEW g \in Handlers, ~InKey(g)
  PROVE  ~KeyTouched(g)
  BY DEF KeyTouched, InKey

----------------------------------------------------------------------------
(* Preservation *)

\* The process starts with no file and no handler.
LEMMA Initially == Init => Inv
<1> SUFFICES ASSUME Init PROVE Inv
  OBVIOUS
<1> USE DEF Init
<1>1. TypeOK
  BY ContentsAre, Loads DEF TypeOK, Files
<1>2. Shapes
  BY DEF Shapes, Shape, Quiet, Saving
<1>3. OrderlyApp
  BY Loads, ContentsAssumption
     DEF OrderlyApp, AppAlone, InApp, AppSave, AppAgrees, BirdAgrees, Saving, Files
<1>4. OrderlyKey
  BY ContentsAssumption DEF OrderlyKey, KeyAlone, InKey, KeySave, KeyAgrees, Saving, Files
<1> QED
  BY <1>1, <1>2, <1>3, <1>4 DEF Inv

\* A request is only accepted: nothing is read or written.
LEMMA PostKeeps ==
  ASSUME Inv, NEW h \in Handlers, NEW k, NEW v, <<k, v>> \in Posts, Post(h, k, v)
  PROVE  Inv'
<1> USE DEF Inv, Post
<1>1. k \in {"bird", "run", "wg"} /\ v \in Birds \cup Runs \cup Keys \cup {Placeholder}
  BY Posted
<1>2. TypeOK'
  <2>1. orderly' \subseteq Parts
    BY DEF TypeOK
  <2> QED
    BY <1>1, <2>1, Sequencing DEF TypeOK
<1>3. Shapes'
  BY <1>1 DEF Shapes, Shape, Quiet, Saving, TypeOK
<1>4. Others(h) /\ pc'[h] = "read" /\ kind'[h] = k /\ pc[h] = "idle"
  BY DEF Others, TypeOK
<1>5. OrderlyApp' /\ OrderlyKey'
  <2>1. CASE k = "wg"
    <3>1. OrderlyApp'
      BY <1>4, <2>1, AppFrame DEF InApp, Part
    <3>2. ASSUME "key" \in orderly' PROVE OrderlyKey'
      <4>1. "key" \in orderly /\ ~Busy("key")
        BY <2>1, <3>2 DEF Part
      <4>2. \A g \in Handlers : ~InKey(g)
        BY <4>1, BusyParts
      <4>3. \A g \in Handlers : g # h => ~InKey(g)'
        BY <1>4, <4>2 DEF InKey, Others
      <4>4. KeyAlone'
        BY <4>3 DEF KeyAlone
      <4>5. \A g \in Handlers : KeySave(g)'
        BY <1>4, <4>3 DEF KeySave, InKey, Saving
      <4>6. KeyAgrees'
        BY <4>1, <4>2, KeyQuiet DEF OrderlyKey, KeyAgrees
      <4> QED
        BY <4>1, <4>4, <4>5, <4>6 DEF OrderlyKey
    <3> QED
      BY <3>1, <3>2 DEF OrderlyKey
  <2>2. CASE k # "wg"
    <3>1. OrderlyKey'
      BY <1>4, <2>2, KeyFrame DEF InKey, Part
    <3>2. ASSUME "app" \in orderly' PROVE OrderlyApp'
      <4>1. "app" \in orderly /\ ~Busy("app")
        BY <2>2, <3>2 DEF Part
      <4>2. \A g \in Handlers : ~InApp(g)
        BY <4>1, BusyParts
      <4>3. \A g \in Handlers : g # h => ~InApp(g)'
        BY <1>4, <4>2 DEF InApp, Others
      <4>4. AppAlone'
        BY <4>3 DEF AppAlone
      <4>5. \A g \in Handlers : AppSave(g)'
        BY <1>4, <4>3 DEF AppSave, InApp, Saving
      <4>6. AppAgrees' /\ BirdAgrees'
        BY <4>1, <4>2, AppQuiet DEF OrderlyApp, AppAgrees, BirdAgrees
      <4> QED
        BY <4>1, <4>4, <4>5, <4>6 DEF OrderlyApp
    <3> QED
      BY <3>1, <3>2 DEF OrderlyApp
  <2> QED
    BY <2>1, <2>2
<1> QED
  BY <1>2, <1>3, <1>5

\* The snapshot of s.cfg is what the save goes on from.
LEMMA SnapshotKeeps ==
  ASSUME Inv, NEW h \in Handlers, Snapshot(h)
  PROVE  Inv'
<1> USE DEF Inv, historyVars
<1> DEFINE a == [mem EXCEPT ![kind[h]] = posted[h]]
<1>1. /\ a \in Apps
      /\ kind[h] = "bird" => a.bird = posted[h] /\ a.run = mem.run
      /\ kind[h] = "run" => a.run = posted[h] /\ a.bird = mem.bird
      /\ kind[h] \in {"bird", "run"}
  <2>1. /\ \/ kind[h] = "bird" /\ posted[h] \in Birds
           \/ kind[h] = "run" /\ posted[h] \in Runs
        /\ mem \in Apps
    <3>1. pc[h] = "read" /\ kind[h] # "wg"
      BY DEF Snapshot
    <3>2. Shape(h)
      BY DEF Shapes
    <3>3. <<kind[h], posted[h]>> \in Posts
      BY <3>1, <3>2, Zenon DEF Shape
    <3>4. mem \in Apps
      BY DEF TypeOK
    <3> QED
      BY <3>1, <3>3, <3>4, Posted
  <2>2. CASE kind[h] = "bird"
    BY <2>1, <2>2, ReplaceBird
  <2>3. CASE kind[h] = "run"
    BY <2>1, <2>3, ReplaceRun
  <2> QED
    BY <2>1, <2>2, <2>3
<1>2. /\ new' = [new EXCEPT ![h] = a] /\ pc' = [pc EXCEPT ![h] = "truncate"]
      /\ UNCHANGED <<mem, file, alive, kind, posted, todo, historyVars>>
      /\ pc[h] = "read"
  BY DEF Snapshot
<1> HIDE DEF a
<1>3. TypeOK'
  <2>1. new' \in [Handlers -> Apps \cup Keys \cup {Default}]
    BY <1>1, <1>2 DEF TypeOK
  <2>2. pc' \in [Handlers -> {"idle", "read", "truncate", "write", "publish"}]
    BY <1>2 DEF TypeOK
  <2> QED
    BY <1>2, <2>1, <2>2 DEF TypeOK
<1>5. /\ Others(h) /\ pc'[h] = "truncate" /\ new'[h] = a /\ kind'[h] = kind[h]
      /\ todo'[h] = FilesOf[kind[h]] /\ pc[h] = "read"
  <2>1. todo[h] = FilesOf[kind[h]]
    BY <1>2 DEF Shapes, Shape
  <2>2. pc'[h] = "truncate" /\ new'[h] = a
    BY <1>2 DEF TypeOK
  <2>3. Others(h)
    BY <1>2 DEF TypeOK, Others
  <2> QED
    BY <1>2, <2>1, <2>2, <2>3
<1>4. Shapes'
  <2>1. Shape(h)'
    <3>1. Shape(h)
      BY DEF Shapes
    <3> QED
      BY <1>1, <1>2, <1>5, <3>1 DEF Shape, Saving
  <2>2. ASSUME NEW g \in Handlers \ {h} PROVE Shape(g)'
    <3>1. Shape(g)
      BY <2>2 DEF Shapes
    <3> QED
      BY <1>5, <2>2, <3>1 DEF Shape, Others
  <2>3. alive'
    BY <1>2 DEF Shapes, Quiet
  <2> QED
    BY <2>1, <2>2, <2>3 DEF Shapes
<1>6. OrderlyKey'
  BY <1>1, <1>2, <1>5, KeyFrame DEF InKey
<1>7. OrderlyApp'
  <2> SUFFICES ASSUME "app" \in orderly' PROVE OrderlyApp'
    BY DEF OrderlyApp
  <2>0. "app" \in orderly /\ InApp(h)
    BY <1>1, <1>2 DEF InApp
  <2>1. \A g \in Handlers : g # h => ~InApp(g) /\ ~InApp(g)'
    <3>1. \A g \in Handlers : g # h => ~InApp(g)
      BY <2>0 DEF OrderlyApp, AppAlone
    <3> QED
      BY <1>5, <3>1 DEF InApp, Others
  <2>2. \A g \in Handlers : AppSave(g)'
    <3>1. AppSave(h)'
      BY <1>1, <1>2, <1>5, Sequencing DEF AppSave, Saving
    <3>2. ASSUME NEW g \in Handlers \ {h} PROVE AppSave(g)'
      BY <2>1, <3>2 DEF AppSave, InApp, Saving
    <3> QED
      BY <3>1, <3>2
  <2>3. \A g \in Handlers : ~AppTouched(g) /\ ~BirdTouched(g)
    BY <1>2, <2>1, AppQuiet DEF AppTouched, BirdTouched
  <2>4. AppAgrees' /\ BirdAgrees'
    BY <1>2, <2>0, <2>3 DEF OrderlyApp, AppAgrees, BirdAgrees
  <2>5. AppAlone'
    BY <2>1 DEF AppAlone
  <2> QED
    BY <1>2, <2>0, <2>2, <2>4, <2>5 DEF OrderlyApp
<1> QED
  BY <1>3, <1>4, <1>6, <1>7

\* A handler that returns is idle, and the others are as they were.
LEMMA Returns ==
  ASSUME TypeOK, Shapes, NEW h \in Handlers, Return(h), alive' = alive
  PROVE  /\ kind' \in [Handlers -> {"bird", "run", "wg"}]
         /\ posted' \in [Handlers -> Birds \cup Runs \cup Keys \cup {Default, Placeholder}]
         /\ pc' \in [Handlers -> {"idle", "read", "truncate", "write", "publish"}]
         /\ todo' \in [Handlers -> {<<>>, <<"app">>, <<"bird", "app">>, <<"wg">>}]
         /\ new' \in [Handlers -> Apps \cup Keys \cup {Default}]
         /\ Shapes'
         /\ pc'[h] = "idle" /\ Others(h)
  BY DEF Return, TypeOK, Shapes, Shape, Quiet, Saving, Others

\* Without overlap, a handler that returns leaves its part idle.
LEMMA AppReturns ==
  ASSUME TypeOK, OrderlyApp, "app" \in orderly, NEW h \in Handlers, InApp(h), Return(h)
  PROVE  /\ \A g \in Handlers : g # h => ~InApp(g)
         /\ \A g \in Handlers : ~InApp(g)'
<1>1. \A g \in Handlers : g # h => ~InApp(g)
  BY DEF OrderlyApp, AppAlone
<1> QED
  BY <1>1 DEF Return, TypeOK, InApp

LEMMA KeyReturns ==
  ASSUME TypeOK, OrderlyKey, "key" \in orderly, NEW h \in Handlers, InKey(h), Return(h)
  PROVE  /\ \A g \in Handlers : g # h => ~InKey(g)
         /\ \A g \in Handlers : ~InKey(g)'
<1>1. \A g \in Handlers : g # h => ~InKey(g)
  BY DEF OrderlyKey, KeyAlone
<1> QED
  BY <1>1 DEF Return, TypeOK, InKey

\* The key is merged from wg0.conf, or the save is refused.
LEMMA MergeKeyKeeps ==
  ASSUME Inv, NEW h \in Handlers, MergeKey(h)
  PROVE  Inv'
<1> USE DEF Inv
<1>0. /\ pc[h] = "read" /\ kind[h] = "wg" /\ posted[h] \in Keys \cup {Placeholder} /\ alive
      /\ InKey(h) /\ ~InApp(h)
  BY Posted DEF MergeKey, Shapes, Shape, Quiet, InKey, InApp
<1>1. CASE posted[h] = Placeholder /\ file["wg"] \notin Keys /\ Fail(h, {}) /\ file' = file
  <2> USE DEF Fail
  <2>1. TypeOK' /\ Shapes' /\ Others(h) /\ ~InApp(h)'
    BY <1>1, Returns DEF TypeOK, InApp
  <2>2. OrderlyApp'
    BY <1>0, <1>1, <2>1, AppFrame
  <2>3. ASSUME "key" \in orderly' PROVE OrderlyKey'
    <3>1. "key" \in orderly
      BY <1>1, <2>3
    <3>2. /\ \A g \in Handlers : g # h => ~InKey(g)
          /\ \A g \in Handlers : ~InKey(g)'
      BY <1>0, <1>1, <3>1, KeyReturns
    <3>3. \A g \in Handlers : ~KeyTouched(g)
      BY <1>0, <3>2, KeyQuiet DEF KeyTouched
    <3>4. KeyAgrees'
      BY <1>1, <3>1, <3>3 DEF OrderlyKey, KeyAgrees
    <3> QED
      BY <1>1, <3>1, <3>2, <3>4, KeyIdle DEF OrderlyKey
  <2> QED
    BY <1>1, <2>1, <2>2, <2>3 DEF OrderlyKey
<1>2. ASSUME NEW k \in Mergeable(file["wg"], posted[h]),
             new' = [new EXCEPT ![h] = k],
             pc' = [pc EXCEPT ![h] = "truncate"],
             UNCHANGED <<mem, file, alive, kind, posted, todo, historyVars>>
      PROVE  Inv'
  <2> USE DEF historyVars
  <2>1. /\ k \in Keys
        /\ posted[h] # Placeholder => k = posted[h]
        /\ posted[h] = Placeholder => k = file["wg"] \/ file["wg"] = Mixed
    BY <1>0, <1>2, Merged
  <2>2. TypeOK'
    BY <1>2, <2>1 DEF TypeOK
  <2>3. Shapes'
    BY <1>0, <1>2, <2>1 DEF Shapes, Shape, Quiet, Saving, TypeOK
  <2>4. Others(h) /\ pc'[h] = "truncate" /\ new'[h] = k
    BY <1>2 DEF Others, TypeOK
  <2>5. OrderlyApp'
    BY <1>0, <1>2, <2>4, AppFrame DEF InApp
  <2>6. OrderlyKey'
    <3> SUFFICES ASSUME "key" \in orderly' PROVE OrderlyKey'
      BY DEF OrderlyKey
    <3>0. "key" \in orderly
      BY <1>2
    <3>1. \A g \in Handlers : g # h => ~InKey(g)
      BY <1>0, <3>0 DEF OrderlyKey, KeyAlone
    <3>2. \A g \in Handlers : g # h => ~InKey(g)'
      BY <1>2, <2>4, <3>1 DEF InKey, Others
    <3>3. \A g \in Handlers : ~KeyTouched(g)
      BY <1>0, <3>1, KeyQuiet DEF KeyTouched
    <3>4. "wg" \notin bad => file["wg"] = want.key /\ want.key # Mixed
      BY <3>0, <3>3 DEF OrderlyKey, KeyAgrees
    <3>5. KeySave(h)'
      BY <1>0, <1>2, <2>1, <2>4, <3>4 DEF KeySave, Saving
    <3>6. \A g \in Handlers : g # h => KeySave(g)'
      BY <3>2 DEF KeySave, InKey, Saving
    <3>7. KeyAgrees' /\ KeyAlone'
      BY <1>2, <3>2, <3>4 DEF KeyAgrees, KeyAlone
    <3> QED
      BY <1>2, <3>0, <3>5, <3>6, <3>7 DEF OrderlyKey
  <2> QED
    BY <2>2, <2>3, <2>5, <2>6
<1> QED
  BY <1>1, <1>2 DEF MergeKey

\* Only bird.conf can be written in full before the last file is.
LEMMA WrittenAre ==
  ASSUME NEW h \in Handlers, Shape(h), pc[h] \in {"truncate", "write"}
  PROVE  Written(h) = IF kind[h] = "bird" /\ todo[h] = <<"app">> THEN {"bird"} ELSE {}
<1>1. kind[h] \in {"bird", "run", "wg"}
  BY Posted DEF Shape
<1>2. CASE kind[h] = "bird"
  BY <1>2, Sequencing, Ranges DEF Shape, Written
<1>3. CASE kind[h] # "bird"
  BY <1>1, <1>3, Sequencing, Ranges DEF Shape, Written
<1> QED
  BY <1>2, <1>3

\* The file a handler is at.
LEMMA AtFile ==
  ASSUME NEW h \in Handlers, Shape(h), pc[h] \in {"truncate", "write"}
  PROVE  \/ kind[h] = "bird" /\ todo[h] = <<"bird", "app">> /\ Head(todo[h]) = "bird"
         \/ kind[h] \in {"bird", "run"} /\ todo[h] = <<"app">> /\ Head(todo[h]) = "app"
         \/ kind[h] = "wg" /\ todo[h] = <<"wg">> /\ Head(todo[h]) = "wg"
<1>1. kind[h] \in {"bird", "run", "wg"}
  BY Posted DEF Shape
<1> QED
  BY <1>1, Sequencing DEF Shape

\* A file is truncated, or the save fails with it untouched.
LEMMA TruncateKeeps ==
  ASSUME Inv, NEW h \in Handlers, Truncate(h)
  PROVE  Inv'
<1> USE DEF Inv
<1> DEFINE f == Head(todo[h])
<1>0. pc[h] = "truncate" /\ Shape(h) /\ alive
  BY DEF Truncate, Shapes, Quiet
<1>1. /\ f \in Files
      /\ \/ kind[h] = "bird" /\ todo[h] = <<"bird", "app">> /\ f = "bird"
         \/ kind[h] \in {"bird", "run"} /\ todo[h] = <<"app">> /\ f = "app"
         \/ kind[h] = "wg" /\ todo[h] = <<"wg">> /\ f = "wg"
  BY <1>0, AtFile DEF Files
<1>2. CASE Fail(h, Written(h)) /\ file' = file
  <2> USE DEF Fail
  <2>0. /\ Written(h) \subseteq {"bird"} /\ (BirdTouched(h) => "bird" \in Written(h))
        /\ kind[h] = "wg" => Written(h) = {}
    BY <1>0, WrittenAre DEF BirdTouched
  <2>1. TypeOK' /\ Shapes' /\ Others(h) /\ pc'[h] = "idle"
    BY <1>2, <2>0, Returns DEF TypeOK, Files
  <2>2. CASE kind[h] = "wg"
    <3>1. OrderlyApp'
      BY <1>2, <2>0, <2>1, <2>2, AppFrame DEF InApp
    <3>2. ASSUME "key" \in orderly' PROVE OrderlyKey'
      <4>1. "key" \in orderly /\ InKey(h)
        BY <1>0, <1>2, <2>2, <3>2 DEF InKey
      <4>2. /\ \A g \in Handlers : g # h => ~InKey(g)
            /\ \A g \in Handlers : ~InKey(g)'
        BY <1>2, <4>1, KeyReturns
      <4>3. \A g \in Handlers : ~KeyTouched(g)
        BY <1>0, <4>2, KeyQuiet DEF KeyTouched
      <4>4. KeyAgrees'
        BY <1>2, <2>0, <4>1, <4>3 DEF OrderlyKey, KeyAgrees
      <4> QED
        BY <1>2, <4>1, <4>2, <4>4, KeyIdle DEF OrderlyKey
    <3> QED
      BY <2>1, <3>1, <3>2 DEF OrderlyKey
  <2>3. CASE kind[h] # "wg"
    <3>1. OrderlyKey'
      BY <1>2, <2>0, <2>1, <2>3, KeyFrame DEF InKey
    <3>2. ASSUME "app" \in orderly' PROVE OrderlyApp'
      <4>1. "app" \in orderly /\ InApp(h)
        BY <1>0, <1>2, <2>3, <3>2 DEF InApp
      <4>2. /\ \A g \in Handlers : g # h => ~InApp(g)
            /\ \A g \in Handlers : ~InApp(g)'
        BY <1>2, <4>1, AppReturns
      <4>3. /\ \A g \in Handlers : ~AppTouched(g)
            /\ "bird" \notin bad' => \A g \in Handlers : ~BirdTouched(g)
        BY <1>0, <1>2, <2>0, <4>2, AppQuiet DEF AppTouched
      <4>4. AppAgrees' /\ BirdAgrees'
        BY <1>2, <2>0, <4>1, <4>3 DEF OrderlyApp, AppAgrees, BirdAgrees
      <4> QED
        BY <1>0, <1>2, <4>1, <4>2, <4>4, AppIdle DEF OrderlyApp
    <3> QED
      BY <2>1, <3>1, <3>2 DEF OrderlyApp
  <2> QED
    BY <2>2, <2>3
<1>3. ASSUME file' = [file EXCEPT ![f] = Empty],
             pc' = [pc EXCEPT ![h] = "write"],
             UNCHANGED <<mem, alive, kind, posted, todo, new, historyVars>>
      PROVE  Inv'
  <2> USE DEF historyVars
  <2>2. DOMAIN file' = Files /\ \A e \in Files : file'[e] = IF e = f THEN Empty ELSE file[e]
    BY <1>1, <1>3 DEF TypeOK
  <2>3. TypeOK'
    BY <1>3, <2>2, ContentsAre DEF TypeOK, Files
  <2>4. Shapes'
    BY <1>0, <1>3 DEF Shapes, Shape, Quiet, Saving, TypeOK
  <2>5. Others(h) /\ pc'[h] = "write"
    BY <1>3 DEF Others, TypeOK
  <2>6. CASE kind[h] = "wg"
    <3>1. OrderlyApp'
      BY <1>1, <1>3, <2>2, <2>5, <2>6, AppFrame DEF InApp, Files
    <3>2. ASSUME "key" \in orderly' PROVE OrderlyKey'
      <4>1. "key" \in orderly /\ \A g \in Handlers : g # h => ~InKey(g)
        BY <1>0, <1>3, <2>6, <3>2 DEF OrderlyKey, KeyAlone, InKey
      <4>2. \A g \in Handlers : g # h => ~InKey(g)'
        BY <1>3, <2>5, <4>1 DEF InKey, Others
      <4>3. KeySave(h)'
        BY <1>0, <1>1, <1>3, <2>2, <2>5, <2>6, <4>1 DEF OrderlyKey, KeySave, Saving, Files
      <4>4. \A g \in Handlers : g # h => KeySave(g)'
        BY <4>2 DEF KeySave, InKey, Saving
      <4>5. KeyAgrees' /\ KeyAlone'
        BY <1>3, <2>5, <2>6, <4>2 DEF KeyAgrees, KeyTouched, KeyAlone
      <4> QED
        BY <1>3, <4>1, <4>3, <4>4, <4>5 DEF OrderlyKey
    <3> QED
      BY <2>3, <2>4, <3>1, <3>2 DEF OrderlyKey
  <2>7. CASE kind[h] # "wg"
    <3>1. OrderlyKey'
      BY <1>1, <1>3, <2>2, <2>5, <2>7, KeyFrame DEF InKey, Files
    <3>2. ASSUME "app" \in orderly' PROVE OrderlyApp'
      <4>1. "app" \in orderly /\ \A g \in Handlers : g # h => ~InApp(g)
        BY <1>0, <1>3, <2>7, <3>2 DEF OrderlyApp, AppAlone, InApp
      <4>2. \A g \in Handlers : g # h => ~InApp(g)'
        BY <1>3, <2>5, <4>1 DEF InApp, Others
      <4>3. AppSave(h)'
        <5>1. AppSave(h)
          BY <4>1 DEF OrderlyApp
        <5> QED
          BY <1>0, <1>1, <1>3, <2>2, <2>5, <2>7, <5>1, Sequencing DEF AppSave, Saving, Files
      <4>4. \A g \in Handlers : g # h => AppSave(g)'
        BY <4>2 DEF AppSave, InApp, Saving
      <4>5. AppAgrees'
        <5>1. CASE f = "app"
          BY <1>1, <1>3, <2>5, <5>1, Sequencing DEF AppAgrees, AppTouched
        <5>2. CASE f # "app"
          <6>1. file'["app"] = file["app"] /\ \A g \in Handlers : ~AppTouched(g)
            BY <1>0, <2>2, <4>1, <5>2, AppQuiet DEF AppTouched, Files
          <6> QED
            BY <1>3, <4>1, <6>1 DEF OrderlyApp, AppAgrees
        <5> QED
          BY <5>1, <5>2
      <4>6. BirdAgrees'
        <5>1. CASE kind[h] = "bird"
          BY <1>3, <2>5, <5>1 DEF BirdAgrees, BirdTouched
        <5>2. CASE kind[h] # "bird"
          <6>1. file'["bird"] = file["bird"] /\ \A g \in Handlers : ~BirdTouched(g)
            BY <1>1, <2>2, <2>7, <4>1, <5>2, AppQuiet DEF BirdTouched, Files
          <6> QED
            BY <1>3, <4>1, <6>1 DEF OrderlyApp, BirdAgrees
        <5> QED
          BY <5>1, <5>2
      <4>7. AppAlone'
        BY <4>2 DEF AppAlone
      <4> QED
        BY <1>3, <4>1, <4>3, <4>4, <4>5, <4>6, <4>7 DEF OrderlyApp
    <3> QED
      BY <2>3, <2>4, <3>1, <3>2 DEF OrderlyApp
  <2> QED
    BY <2>6, <2>7
<1> QED
  BY <1>2, <1>3 DEF Truncate

\* An acknowledged save moves want and clears the files of its kind.
LEMMA AcksBird ==
  ASSUME TypeOK, NEW h \in Handlers, Ack(h), kind[h] = "bird", posted[h] \in Birds
  PROVE  /\ want' \in [app : Apps, key : Keys \cup {Missing, Mixed}]
         /\ want'.app.bird = posted[h] /\ want'.app.run = want.app.run
         /\ want'.key = want.key
         /\ bad' = bad \ {"bird", "app"}
<1> DEFINE a == [want.app EXCEPT ![kind[h]] = posted[h]]
<1>1. a \in Apps /\ a.bird = posted[h] /\ a.run = want.app.run
  BY ReplaceBird DEF TypeOK
<1>2. want' = [want EXCEPT !.app = a]
  BY DEF Ack
<1> HIDE DEF a
<1>3. want' \in [app : Apps, key : Keys \cup {Missing, Mixed}] /\ want'.app = a /\ want'.key = want.key
  BY <1>1, <1>2 DEF TypeOK
<1>4. bad' = bad \ {"bird", "app"}
  BY Sequencing, Ranges DEF Ack
<1> QED
  BY <1>1, <1>3, <1>4

\* ... for the runtime settings, and
LEMMA AcksRun ==
  ASSUME TypeOK, NEW h \in Handlers, Ack(h), kind[h] = "run", posted[h] \in Runs
  PROVE  /\ want' \in [app : Apps, key : Keys \cup {Missing, Mixed}]
         /\ want'.app.run = posted[h] /\ want'.app.bird = want.app.bird
         /\ want'.key = want.key
         /\ bad' = bad \ {"app"}
<1> DEFINE a == [want.app EXCEPT ![kind[h]] = posted[h]]
<1>1. a \in Apps /\ a.run = posted[h] /\ a.bird = want.app.bird
  BY ReplaceRun DEF TypeOK
<1>2. want' = [want EXCEPT !.app = a]
  BY DEF Ack
<1> HIDE DEF a
<1>3. want' \in [app : Apps, key : Keys \cup {Missing, Mixed}] /\ want'.app = a /\ want'.key = want.key
  BY <1>1, <1>2 DEF TypeOK
<1>4. bad' = bad \ {"app"}
  BY Sequencing, Ranges DEF Ack
<1> QED
  BY <1>1, <1>3, <1>4

\* ... for the key.
LEMMA AcksKey ==
  ASSUME TypeOK, NEW h \in Handlers, Ack(h), kind[h] = "wg", posted[h] \in Keys \cup {Placeholder},
         file'["wg"] \in Keys \cup {Mixed}
  PROVE  /\ want' \in [app : Apps, key : Keys \cup {Missing, Mixed}]
         /\ want'.app = want.app
         /\ posted[h] # Placeholder => want'.key = posted[h]
         /\ posted[h] = Placeholder =>
              want'.key = IF "wg" \in bad THEN file'["wg"] ELSE want.key
         /\ bad' = bad \ {"wg"}
<1>1. bad' = bad \ {"wg"}
  BY Sequencing, Ranges DEF Ack
<1>2. CASE posted[h] # Placeholder
  <2>1. want' = [want EXCEPT !.key = posted[h]]
    BY <1>2 DEF Ack
  <2> QED
    BY <1>1, <1>2, <2>1 DEF TypeOK
<1>3. CASE posted[h] = Placeholder
  <2> DEFINE k == IF "wg" \in bad THEN file'["wg"] ELSE want.key
  <2>1. want' = [want EXCEPT !.key = k]
    BY <1>3 DEF Ack
  <2>2. k \in Keys \cup {Missing, Mixed}
    BY DEF TypeOK
  <2> HIDE DEF k
  <2>3. want' \in [app : Apps, key : Keys \cup {Missing, Mixed}] /\ want'.app = want.app /\ want'.key = k
    BY <2>1, <2>2 DEF TypeOK
  <2> QED
    BY <1>1, <1>3, <2>3 DEF k
<1> QED
  BY <1>2, <1>3

\* A write that fails: the file is Empty, or garbled, and known to be bad.
LEMMA WriteFails ==
  ASSUME Inv, NEW h \in Handlers, pc[h] = "write",
         NEW d \in {file[Head(todo[h])], Mixed}, file' = [file EXCEPT ![Head(todo[h])] = d],
         Fail(h, Written(h) \cup {Head(todo[h])})
  PROVE  Inv'
<1> USE DEF Inv, Fail
<1> DEFINE f == Head(todo[h])
<1>1. Shape(h) /\ alive
  BY DEF Shapes, Quiet
<1>2. /\ f \in Files
      /\ \/ kind[h] = "bird" /\ todo[h] = <<"bird", "app">> /\ f = "bird"
         \/ kind[h] \in {"bird", "run"} /\ todo[h] = <<"app">> /\ f = "app"
         \/ kind[h] = "wg" /\ todo[h] = <<"wg">> /\ f = "wg"
  BY <1>1, AtFile DEF Files
<1>3. /\ Written(h) = IF kind[h] = "bird" /\ todo[h] = <<"app">> THEN {"bird"} ELSE {}
      /\ bad' = bad \cup Written(h) \cup {f}
      /\ kind[h] = "bird" => "bird" \in bad'
  BY <1>1, <1>2, WrittenAre
<1>4. DOMAIN file' = Files /\ \A e \in Files : file'[e] = IF e = f THEN d ELSE file[e]
  BY <1>2 DEF TypeOK
<1>5. TypeOK' /\ Shapes' /\ Others(h) /\ pc'[h] = "idle"
  <2>1. \A e \in Files : file'[e] \in Contents(e)
    BY <1>2, <1>4, ContentsAre DEF TypeOK, Files
  <2>2. bad' \subseteq Files
    BY <1>2, <1>3 DEF TypeOK, Files
  <2> QED
    BY <1>4, <2>1, <2>2, Returns DEF TypeOK
<1>6. \A e \in Files \ bad' : file'[e] = file[e] /\ e \notin bad
  BY <1>3, <1>4
<1>7. CASE kind[h] = "wg"
  <2>1. file'["app"] = file["app"] /\ file'["bird"] = file["bird"] /\ bad' = bad \cup {"wg"}
    BY <1>2, <1>3, <1>4, <1>7 DEF Files
  <2>2. OrderlyApp'
    BY <1>5, <1>7, <2>1, AppFrame DEF InApp
  <2>3. ASSUME "key" \in orderly' PROVE OrderlyKey'
    <3>1. "key" \in orderly /\ InKey(h)
      BY <1>7, <2>3 DEF InKey
    <3>2. \A g \in Handlers : ~InKey(g)'
      BY <3>1, KeyReturns
    <3>3. KeyAgrees'
      BY <2>1 DEF KeyAgrees
    <3> QED
      BY <3>1, <3>2, <3>3, KeyIdle DEF OrderlyKey
  <2> QED
    BY <1>5, <2>2, <2>3 DEF OrderlyKey
<1>8. CASE kind[h] # "wg"
  <2>1. file'["wg"] = file["wg"] /\ ("wg" \in bad' <=> "wg" \in bad)
    BY <1>2, <1>3, <1>4, <1>8 DEF Files
  <2>2. OrderlyKey'
    BY <1>5, <1>8, <2>1, KeyFrame DEF InKey
  <2>3. ASSUME "app" \in orderly' PROVE OrderlyApp'
    <3>1. "app" \in orderly /\ InApp(h)
      BY <1>8, <2>3 DEF InApp
    <3>2. /\ \A g \in Handlers : g # h => ~InApp(g)
          /\ \A g \in Handlers : ~InApp(g)'
      BY <3>1, AppReturns
    <3>3. /\ "app" \notin bad' => \A g \in Handlers : ~AppTouched(g)
          /\ "bird" \notin bad' => \A g \in Handlers : ~BirdTouched(g)
      <4>1. "app" \notin bad' => ~AppTouched(h)
        BY <1>2, <1>3, Sequencing DEF AppTouched
      <4>2. "bird" \notin bad' => ~BirdTouched(h)
        BY <1>3 DEF BirdTouched
      <4> QED
        BY <3>2, <4>1, <4>2, AppQuiet
    <3>4. AppAgrees'
      BY <1>6, <3>1, <3>3 DEF OrderlyApp, AppAgrees, Files
    <3>5. BirdAgrees'
      BY <1>6, <3>1, <3>3 DEF OrderlyApp, BirdAgrees, Files
    <3> QED
      BY <1>1, <3>1, <3>2, <3>4, <3>5, AppIdle DEF OrderlyApp
  <2> QED
    BY <1>5, <2>2, <2>3 DEF OrderlyApp
<1> QED
  BY <1>7, <1>8

\* The last write of wg0.conf, with which its save is acknowledged.
LEMMA KeyWritten ==
  ASSUME Inv, NEW h \in Handlers, pc[h] = "write", kind[h] = "wg",
         NEW d \in {new[h]} \cup (IF file["wg"] = Empty THEN {} ELSE {Mixed}),
         file' = [file EXCEPT !["wg"] = d],
         Ack(h), Return(h), orderly' = orderly, mem' = mem, alive' = alive
  PROVE  Inv'
<1> USE DEF Inv
<1>1. /\ alive /\ new[h] \in Keys /\ d \in Keys \cup {Mixed} /\ todo[h] = <<"wg">>
      /\ posted[h] \in Keys \cup {Placeholder}
  <2>1. Shape(h) /\ alive
    BY DEF Shapes, Quiet
  <2>2. new[h] \in Keys /\ <<kind[h], posted[h]>> \in Posts
    BY <2>1 DEF Shape, Saving
  <2>3. todo[h] = <<"wg">> /\ posted[h] \in Keys \cup {Placeholder}
    BY <2>1, <2>2, AtFile, Posted
  <2> QED
    BY <2>1, <2>2, <2>3
<1>2. DOMAIN file' = Files /\ \A e \in Files : file'[e] = IF e = "wg" THEN d ELSE file[e]
  BY DEF TypeOK, Files
<1>3. /\ want' \in [app : Apps, key : Keys \cup {Missing, Mixed}]
      /\ want'.app = want.app
      /\ posted[h] # Placeholder => want'.key = posted[h]
      /\ posted[h] = Placeholder => want'.key = IF "wg" \in bad THEN d ELSE want.key
      /\ bad' = bad \ {"wg"}
  <2>1. file'["wg"] = d
    BY <1>2 DEF Files
  <2> QED
    BY <1>1, <2>1, AcksKey
<1>4. TypeOK' /\ Shapes' /\ Others(h) /\ pc'[h] = "idle"
  <2>1. \A e \in Files : file'[e] \in Contents(e)
    BY <1>1, <1>2, ContentsAre DEF TypeOK, Files
  <2>2. bad' \subseteq Files
    BY <1>3 DEF TypeOK
  <2> QED
    BY <1>2, <1>3, <2>1, <2>2, Returns DEF TypeOK
<1>5. OrderlyApp'
  <2>1. file'["app"] = file["app"] /\ file'["bird"] = file["bird"]
    BY <1>2 DEF Files
  <2> QED
    BY <1>3, <1>4, <2>1, AppFrame DEF InApp
<1>6. ASSUME "key" \in orderly' PROVE OrderlyKey'
  <2>1. "key" \in orderly /\ InKey(h)
    BY <1>6 DEF InKey
  <2>2. file["wg"] = Empty /\ KeySave(h)
    BY <2>1 DEF OrderlyKey, KeySave
  <2>3. d = new[h]
    BY <2>2
  <2>4. want'.key = d
    BY <1>1, <1>3, <2>2, <2>3 DEF KeySave, Saving
  <2>5. KeyAgrees' /\ (want.key # Mixed)'
    BY <1>1, <1>2, <2>3, <2>4, ContentsAssumption DEF KeyAgrees, Files
  <2>6. \A g \in Handlers : ~InKey(g)'
    BY <2>1, KeyReturns
  <2> QED
    BY <2>5, <2>6, KeyIdle
<1> QED
  BY <1>4, <1>5, <1>6 DEF OrderlyKey

\* A write of bird.conf or app.yaml, after which the handler goes on.
LEMMA FileWritten ==
  ASSUME Inv, NEW h \in Handlers, pc[h] = "write", kind[h] # "wg",
         NEW d \in {Data(h, Head(todo[h]))}
                     \cup (IF file[Head(todo[h])] = Empty THEN {} ELSE {Mixed}),
         file' = [file EXCEPT ![Head(todo[h])] = d],
         pc' = [pc EXCEPT ![h] = AfterWrite(h)],
         todo' = [todo EXCEPT ![h] = Tail(@)],
         UNCHANGED <<kind, posted, new, historyVars, mem, alive>>
  PROVE  Inv'
<1> USE DEF Inv, historyVars
<1> DEFINE f == Head(todo[h])
<1>1. Shape(h) /\ alive /\ new[h] \in Apps
  BY DEF Shapes, Quiet, Shape, Saving
<1>2. /\ f \in Files
      /\ \/ /\ kind[h] = "bird" /\ todo[h] = <<"bird", "app">> /\ f = "bird"
            /\ pc'[h] = "truncate" /\ todo'[h] = <<"app">> /\ d \in {new[h].bird, Mixed}
         \/ /\ kind[h] \in {"bird", "run"} /\ todo[h] = <<"app">> /\ f = "app"
            /\ pc'[h] = "publish" /\ todo'[h] = <<>> /\ d \in {new[h], Mixed}
  <2>1. \/ kind[h] = "bird" /\ todo[h] = <<"bird", "app">> /\ f = "bird"
        \/ kind[h] \in {"bird", "run"} /\ todo[h] = <<"app">> /\ f = "app"
    BY <1>1, AtFile
  <2>2. pc'[h] = AfterWrite(h) /\ todo'[h] = Tail(todo[h]) /\ d \in {Data(h, f), Mixed}
    BY DEF TypeOK
  <2>3. CASE f = "bird"
    BY <2>1, <2>2, <2>3, Sequencing DEF AfterWrite, Data, Files
  <2>4. CASE f = "app"
    BY <2>1, <2>2, <2>4, Sequencing DEF AfterWrite, Data, Files
  <2> QED
    BY <2>1, <2>3, <2>4
<1>3. DOMAIN file' = Files /\ \A e \in Files : file'[e] = IF e = f THEN d ELSE file[e]
  BY <1>2 DEF TypeOK
<1>4. /\ \A g \in Handlers : g # h => pc'[g] = pc[g] /\ todo'[g] = todo[g]
      /\ Others(h)
  BY DEF TypeOK, Others
<1>5. TypeOK'
  <2>1. \A e \in Files : file'[e] \in Contents(e)
    <3>1. kind[h] = "bird" => new[h].bird \in Birds
      BY <1>1, Posted DEF Shape, Saving
    <3> QED
      BY <1>1, <1>2, <1>3, <3>1, ContentsAre DEF TypeOK, Files
  <2>2. pc' \in [Handlers -> {"idle", "read", "truncate", "write", "publish"}]
    BY <1>2, <1>4 DEF TypeOK
  <2>3. todo' \in [Handlers -> {<<>>, <<"app">>, <<"bird", "app">>, <<"wg">>}]
    BY <1>2, <1>4 DEF TypeOK
  <2> QED
    BY <1>3, <2>1, <2>2, <2>3 DEF TypeOK
<1>6. Shapes'
  <2>1. Shape(h)'
    BY <1>1, <1>2 DEF Shape, Saving
  <2>2. \A g \in Handlers : g # h => Shape(g)'
    BY <1>4 DEF Shapes, Shape
  <2> QED
    BY <1>1, <2>1, <2>2 DEF Shapes
<1>7. OrderlyKey'
  <2>1. file'["wg"] = file["wg"]
    BY <1>2, <1>3 DEF Files
  <2> QED
    BY <1>4, <2>1, KeyFrame DEF InKey
<1>8. OrderlyApp'
  <2> SUFFICES ASSUME "app" \in orderly' PROVE OrderlyApp'
    BY DEF OrderlyApp
  <2>0. "app" \in orderly /\ AppSave(h)
    BY DEF OrderlyApp
  <2>1. \A g \in Handlers : g # h => ~InApp(g) /\ ~InApp(g)'
    <3>1. \A g \in Handlers : g # h => ~InApp(g)
      BY <2>0 DEF OrderlyApp, AppAlone, InApp
    <3> QED
      BY <1>4, <3>1 DEF InApp
  <2>2. file[f] = Empty
    BY <1>2, <2>0, Sequencing DEF AppSave
  <2>3. d = Data(h, f)
    BY <2>2
  <2>4. AppSave(h)'
    BY <1>2, <1>3, <2>0, <2>3, Sequencing DEF AppSave, Saving, Files, Data
  <2>5. \A g \in Handlers : g # h => AppSave(g)'
    BY <2>1 DEF AppSave, InApp, Saving
  <2>6. AppAgrees'
    <3>1. CASE f = "app"
      BY <1>2, <3>1, Sequencing DEF AppAgrees, AppTouched
    <3>2. CASE f = "bird"
      <4>1. file'["app"] = file["app"] /\ \A g \in Handlers : ~AppTouched(g)
        BY <1>2, <1>3, <2>1, <3>2, AppQuiet, Sequencing DEF AppTouched, Files
      <4> QED
        BY <2>0, <4>1 DEF OrderlyApp, AppAgrees
    <3> QED
      BY <1>2, <3>1, <3>2
  <2>7. BirdAgrees'
    <3>1. CASE kind[h] = "bird"
      BY <1>2, <3>1 DEF BirdAgrees, BirdTouched
    <3>2. CASE kind[h] # "bird"
      <4>1. file'["bird"] = file["bird"] /\ \A g \in Handlers : ~BirdTouched(g)
        BY <1>2, <1>3, <2>1, <3>2, AppQuiet DEF BirdTouched, Files
      <4> QED
        BY <2>0, <4>1 DEF OrderlyApp, BirdAgrees
    <3> QED
      BY <3>1, <3>2
  <2>8. AppAlone'
    BY <2>1 DEF AppAlone
  <2> QED
    BY <1>1, <2>0, <2>4, <2>5, <2>6, <2>7, <2>8 DEF OrderlyApp
<1> QED
  BY <1>5, <1>6, <1>7, <1>8

\* A file is written, with or without an error.
LEMMA WriteKeeps ==
  ASSUME Inv, NEW h \in Handlers, Write(h)
  PROVE  Inv'
<1> DEFINE f == Head(todo[h])
<1>1. pc[h] = "write" /\ Shape(h)
  BY DEF Inv, Shapes, Write
<1>2. \/ kind[h] = "wg" /\ f = "wg" /\ AfterWrite(h) = "idle" /\ Data(h, f) = new[h]
      \/ kind[h] # "wg" /\ AfterWrite(h) # "idle"
  BY <1>1, AtFile, Sequencing DEF AfterWrite, Data
<1>3. CASE \E d \in {file[f], Mixed} :
             file' = [file EXCEPT ![f] = d] /\ Fail(h, Written(h) \cup {f})
  BY <1>1, <1>3, WriteFails
<1>4. CASE /\ \E d \in {Data(h, f)} \cup (IF file[f] = Empty THEN {} ELSE {Mixed}) :
                file' = [file EXCEPT ![f] = d]
           /\ IF AfterWrite(h) = "idle"
              THEN Ack(h) /\ Return(h) /\ UNCHANGED orderly
              ELSE /\ pc' = [pc EXCEPT ![h] = AfterWrite(h)]
                   /\ todo' = [todo EXCEPT ![h] = Tail(@)]
                   /\ UNCHANGED <<kind, posted, new, historyVars>>
           /\ UNCHANGED <<mem, alive>>
  <2>1. CASE kind[h] = "wg"
    BY <1>1, <1>2, <1>4, <2>1, KeyWritten
  <2>2. CASE kind[h] # "wg"
    BY <1>1, <1>2, <1>4, <2>2, FileWritten
  <2> QED
    BY <2>1, <2>2
<1> QED
  BY <1>3, <1>4 DEF Write

\* s.cfg becomes what is in app.yaml and, for BIRD, in bird.conf.
LEMMA PublishKeeps ==
  ASSUME Inv, NEW h \in Handlers, Publish(h)
  PROVE  Inv'
<1> USE DEF Inv, Publish
<1>1. /\ alive /\ new[h] \in Apps /\ InApp(h)
      /\ \/ kind[h] = "bird" /\ posted[h] \in Birds /\ new[h].bird = posted[h]
         \/ kind[h] = "run" /\ posted[h] \in Runs
  <2>1. Shape(h) /\ alive
    BY DEF Shapes, Quiet
  <2> QED
    BY <2>1, Posted DEF Shape, Saving, InApp
<1>2. /\ want' \in [app : Apps, key : Keys \cup {Missing, Mixed}]
      /\ want'.key = want.key
      /\ kind[h] = "bird" => /\ want'.app.bird = posted[h] /\ want'.app.run = want.app.run
                             /\ bad' = bad \ {"bird", "app"}
      /\ kind[h] = "run" => /\ want'.app.run = posted[h] /\ want'.app.bird = want.app.bird
                            /\ bad' = bad \ {"app"}
  BY <1>1, AcksBird, AcksRun
<1>3. bad' \subseteq bad /\ ("wg" \in bad' <=> "wg" \in bad)
  BY <1>1, <1>2
<1>4. TypeOK' /\ Shapes' /\ Others(h) /\ pc'[h] = "idle"
  BY <1>1, <1>2, <1>3, Returns DEF TypeOK
<1>5. OrderlyKey'
  BY <1>1, <1>2, <1>3, <1>4, KeyFrame DEF InKey, InApp
<1>6. ASSUME "app" \in orderly' PROVE OrderlyApp'
  <2>1. "app" \in orderly /\ AppSave(h) /\ mem = want.app
    BY <1>6 DEF OrderlyApp
  <2>2. /\ \A g \in Handlers : g # h => ~InApp(g)
        /\ \A g \in Handlers : ~InApp(g)'
    BY <1>1, <2>1, AppReturns
  <2>3. mem' = want'.app
    <3>1. mem'.bird = want'.app.bird /\ mem'.run = want'.app.run
      BY <1>1, <1>2, <2>1 DEF AppSave, Saving
    <3>2. mem' \in Apps /\ want'.app \in Apps
      BY <1>1, <1>2
    <3> QED
      BY <3>1, <3>2, SameApp
  <2>4. AppAgrees'
    <3>1. file'["app"] = mem'
      BY <1>1, <2>1 DEF AppSave
    <3> QED
      BY <1>1, <3>1, Loads DEF AppAgrees
  <2>5. BirdAgrees'
    <3>1. CASE kind[h] = "bird"
      BY <2>1, <3>1 DEF BirdAgrees, AppSave
    <3>2. CASE kind[h] = "run"
      <4>1. \A g \in Handlers : ~BirdTouched(g)
        BY <2>2, <3>2, AppQuiet DEF BirdTouched
      <4>2. "bird" \notin bad' => "bird" \notin bad
        BY <1>2, <3>2
      <4>3. mem'.bird = mem.bird
        BY <2>1, <3>2 DEF AppSave, Saving
      <4> QED
        BY <2>1, <4>1, <4>2, <4>3 DEF OrderlyApp, BirdAgrees
    <3> QED
      BY <1>1, <3>1, <3>2
  <2> QED
    BY <1>1, <2>2, <2>3, <2>4, <2>5, AppIdle
<1> QED
  BY <1>4, <1>5, <1>6 DEF OrderlyApp

\* A crash ends the orderly time of the parts that are being saved.
LEMMA CrashKeeps == ASSUME Inv, Crash PROVE Inv'
<1> USE DEF Inv, Crash
<1>1. TypeOK'
  BY DEF TypeOK
<1>2. Shapes'
  BY DEF Shapes, Shape, Quiet, Saving
<1>3. \A g \in Handlers : ~InApp(g)' /\ ~InKey(g)'
  BY DEF InApp, InKey
<1>4. OrderlyApp'
  <2>1. ASSUME "app" \in orderly'
        PROVE  (mem = want.app)' /\ "app" \notin bad' /\ AppAgrees' /\ BirdAgrees'
    <3>1. "app" \in orderly /\ "app" \notin bad /\ \A g \in Handlers : ~InApp(g)
      BY <2>1, BusyParts
    <3> QED
      BY <3>1, AppQuiet DEF OrderlyApp, AppAgrees, BirdAgrees
  <2> QED
    BY <1>3, <2>1, AppIdle
<1>5. OrderlyKey'
  <2>1. ASSUME "key" \in orderly' PROVE (want.key # Mixed)' /\ KeyAgrees'
    <3>1. "key" \in orderly /\ \A g \in Handlers : ~InKey(g)
      BY <2>1, BusyParts
    <3> QED
      BY <3>1, KeyQuiet DEF OrderlyKey, KeyAgrees
  <2> QED
    BY <1>3, <2>1, KeyIdle
<1> QED
  BY <1>1, <1>2, <1>4, <1>5

\* A restart reads back what s.cfg was.
LEMMA BootKeeps == ASSUME Inv, Boot PROVE Inv'
<1> USE DEF Inv, Boot, handlerVars, historyVars
<1>0. \A g \in Handlers : ~InApp(g) /\ ~InKey(g) /\ ~InApp(g)' /\ ~InKey(g)'
  BY DEF Shapes, Quiet, InApp, InKey
<1>1. mem' \in Apps
  BY Loads, ContentsAre DEF TypeOK, Load, Files
<1>2. TypeOK'
  BY <1>1 DEF TypeOK
<1>3. Shapes'
  BY DEF Shapes, Shape, Quiet, Saving
<1>4. OrderlyApp'
  <2>1. ASSUME "app" \in orderly' PROVE mem' = mem /\ (alive' \/ "app" \notin bad')
    <3>1. "app" \in orderly /\ Load(file["app"]) = mem /\ "app" \notin bad
      BY <1>0, <2>1, AppQuiet DEF OrderlyApp, AppAgrees
    <3>2. file["app"] # Mixed
      BY <3>1, Loads DEF TypeOK
    <3> QED
      BY <3>1, <3>2
  <2>2. ASSUME "app" \in orderly' PROVE AppAgrees' /\ BirdAgrees'
    BY <1>0, <2>1, <2>2, AppQuiet DEF OrderlyApp, AppAgrees, BirdAgrees
  <2> QED
    BY <1>0, <2>1, <2>2, AppIdle DEF OrderlyApp
<1>5. OrderlyKey'
  <2>1. ASSUME "key" \in orderly' PROVE (want.key # Mixed)' /\ KeyAgrees'
    BY <1>0, <2>1, KeyQuiet DEF OrderlyKey, KeyAgrees
  <2> QED
    BY <1>0, <2>1, KeyIdle
<1> QED
  BY <1>2, <1>3, <1>4, <1>5

\* Stuttering.
LEMMA Unchanged == ASSUME Inv, UNCHANGED vars PROVE Inv'
<1> USE DEF Inv, vars, handlerVars, historyVars
<1>1. TypeOK'
  BY DEF TypeOK
<1>2. Shapes'
  BY DEF Shapes, Shape, Quiet
<1>3. OrderlyApp'
  BY DEF OrderlyApp, AppAlone, InApp, AppSave, AppAgrees, BirdAgrees, AppTouched, BirdTouched
<1>4. OrderlyKey'
  BY DEF OrderlyKey, KeyAlone, InKey, KeySave, KeyAgrees, KeyTouched
<1> QED
  BY <1>1, <1>2, <1>3, <1>4

\* Inv is inductive.
THEOREM Invariance == Spec => []Inv
<1>1. Init => Inv
  BY Initially
<1>2. Inv /\ [Next]_vars => Inv'
  <2> SUFFICES ASSUME Inv, [Next]_vars PROVE Inv'
    OBVIOUS
  <2>1. ASSUME NEW h \in Handlers, NEW p \in Posts, Post(h, p[1], p[2]) PROVE Inv'
    <3> DEFINE k == p[1]
               v == p[2]
    <3>1. <<k, v>> \in Posts
      <4>1. CASE p \in {"bird"} \X Birds
        BY <4>1, Posted
      <4>2. CASE p \in {"run"} \X Runs
        BY <4>2, Posted
      <4>3. CASE p \in {"wg"} \X (Keys \cup {Placeholder})
        BY <4>3, Posted
      <4> QED
        BY <4>1, <4>2, <4>3 DEF Posts
    <3>2. Post(h, k, v)
      BY <2>1
    <3> HIDE DEF k, v
    <3> QED
      BY <3>1, <3>2, PostKeeps
  <2>2. ASSUME NEW h \in Handlers,
               Snapshot(h) \/ MergeKey(h) \/ Truncate(h) \/ Write(h) \/ Publish(h)
        PROVE  Inv'
    BY <2>2, SnapshotKeeps, MergeKeyKeeps, TruncateKeeps, WriteKeeps, PublishKeeps
  <2> QED
    BY <2>1, <2>2, CrashKeeps, BootKeeps, Unchanged DEF Next
<1> QED
  BY <1>1, <1>2, PTL DEF Spec

\* The types hold whatever the handlers, the failures and the crashes do; in
\* particular what is written into a file is a config of that file.
THEOREM TypeCorrect == Spec => []TypeOK
<1>1. Inv => TypeOK
  BY DEF Inv
<1> QED
  BY <1>1, Invariance, PTL

\* api_wg.go:62-88: with any number of saves under way, the placeholder never
\* reaches wg0.conf, and a save that no other one of wg0.conf overlapped left the
\* key it was to leave, whatever saves of settings ran, failed or crashed with it.
THEOREM KeysKept == Spec => []KeyKept
<1>1. Inv => KeyKept
  <2> SUFFICES ASSUME Inv PROVE KeyKept
    OBVIOUS
  <2>1. file["wg"] \in Keys \cup {Missing, Empty, Mixed}
    BY ContentsAre DEF Inv, TypeOK, Files
  <2>2. "key" \in orderly /\ ~Busy("key") /\ "wg" \notin bad => file["wg"] = want.key
    BY BusyParts, KeyQuiet DEF Inv, OrderlyKey, KeyAgrees
  <2> QED
    BY <2>1, <2>2 DEF KeyKept
<1> QED
  BY <1>1, Invariance, PTL

\* api_settings.go:37-57, api_bird.go:47-64: without overlap among the saves of
\* settings and without a crash in the middle of one, s.cfg, app.yaml and
\* bird.conf are the acknowledged saves, through any number of failed writes and
\* restarts and whatever saves of wg0.conf run, fail or crash with them.
THEOREM AcknowledgedSavesKept == Spec => []SavesKept
<1>1. Inv => SavesKept
  BY BusyParts, AppQuiet DEF Inv, SavesKept, OrderlyApp, AppAgrees, BirdAgrees
<1> QED
  BY <1>1, Invariance, PTL
=============================================================================
