----------------------------- MODULE ConfigStore -----------------------------
(***************************************************************************)
(* The saved configuration of the web process (internal/server,            *)
(* internal/config): the App config in memory (s.cfg) and the files        *)
(* app.yaml, bird.conf and wg0.conf.  Three POST handlers save them, each  *)
(* in steps: a snapshot taken under a lock that is released again, then    *)
(* os.WriteFile, which truncates and then writes, for one or two files,    *)
(* then the assignment of s.cfg.  Handlers run concurrently, writes fail,  *)
(* and the process may be killed and started again at any point.           *)
(***************************************************************************)
EXTENDS Sequences, Functions

CONSTANTS
  Handlers,     \* POST requests being handled at a time
  Birds,        \* BIRD settings that bird.Generate accepts
  Runs,         \* runtime settings that normalise
  Keys,         \* WireGuard keys, standing for the rest of wg0.conf as well
  Default,      \* the part of config.Default() that no save has replaced
  Placeholder,  \* wg.RedactedValue where the key should be
  Missing, Empty, Mixed   \* no file, a truncated one, a garbled one

Files == {"app", "bird", "wg"}
Apps  == [bird : Birds \cup {Default}, run : Runs \cup {Default}]
DefaultApp == [bird |-> Default, run |-> Default]

ASSUME ContentsAssumption ==
  /\ {Default, Placeholder, Missing, Empty, Mixed} \cap (Birds \cup Runs \cup Keys) = {}
  /\ Missing # Empty /\ Missing # Mixed /\ Empty # Mixed
  /\ Placeholder \notin {Default, Missing, Empty, Mixed}
  /\ Default \notin {Missing, Empty, Mixed}
  /\ {Missing, Empty, Mixed} \cap Apps = {}

VARIABLES
  mem,      \* s.cfg
  file,     \* contents of the files
  alive,    \* the web process runs
  kind,     \* what each handler saves: "bird", "run" or "wg"
  posted,   \* the value it was sent
  pc,       \* "idle", "read", "truncate", "write", "publish"
  todo,     \* the files it has yet to write
  new,      \* the App config or the WireGuard key it is saving
  want,     \* history: every acknowledged save, applied in order
  orderly,  \* history: the parts of which no saves overlapped, and none was cut
            \* short by a crash
  bad       \* history: files a failed save touched, not saved well since

handlerVars == <<kind, posted, pc, todo, new>>
historyVars == <<want, orderly, bad>>
vars == <<mem, file, alive, handlerVars, historyVars>>

FilesOf == [bird |-> <<"bird", "app">>, run |-> <<"app">>, wg |-> <<"wg">>]

\* Settings and wg0.conf are saved independently of each other.
Parts   == {"app", "key"}
Part(k) == IF k = "wg" THEN "key" ELSE "app"

Contents(f) ==
  {Missing, Empty, Mixed} \cup
    CASE f = "app" -> Apps [] f = "bird" -> Birds [] f = "wg" -> Keys

TypeOK ==
  /\ mem \in Apps
  /\ DOMAIN file = Files /\ \A f \in Files : file[f] \in Contents(f)
  /\ alive \in BOOLEAN
  /\ kind \in [Handlers -> {"bird", "run", "wg"}]
  /\ posted \in [Handlers -> Birds \cup Runs \cup Keys \cup {Default, Placeholder}]
  /\ pc \in [Handlers -> {"idle", "read", "truncate", "write", "publish"}]
  /\ todo \in [Handlers -> {<<>>, <<"app">>, <<"bird", "app">>, <<"wg">>}]
  /\ new \in [Handlers -> Apps \cup Keys \cup {Default}]
  /\ want \in [app : Apps, key : Keys \cup {Missing, Mixed}]
  /\ orderly \subseteq Parts
  /\ bad \subseteq Files

Init ==
  /\ mem = DefaultApp
  /\ file = [f \in Files |-> Missing]
  /\ alive = TRUE
  /\ kind = [h \in Handlers |-> "run"]
  /\ posted = [h \in Handlers |-> Default]
  /\ pc = [h \in Handlers |-> "idle"]
  /\ todo = [h \in Handlers |-> <<>>]
  /\ new = [h \in Handlers |-> Default]
  /\ want = [app |-> DefaultApp, key |-> Missing]
  /\ orderly = Parts
  /\ bad = {}

----------------------------------------------------------------------------
(* The POST handlers *)

Quiet   == \A h \in Handlers : pc[h] = "idle"
Busy(p) == \E h \in Handlers : pc[h] # "idle" /\ Part(kind[h]) = p

\* A request whose body decodes and validates (bird.Generate); others return
\* before anything is read.
Post(h, k, v) ==
  /\ alive /\ pc[h] = "idle"
  /\ kind' = [kind EXCEPT ![h] = k]
  /\ posted' = [posted EXCEPT ![h] = v]
  /\ pc' = [pc EXCEPT ![h] = "read"]
  /\ todo' = [todo EXCEPT ![h] = FilesOf[k]]
  /\ new' = [new EXCEPT ![h] = Default]
  /\ orderly' = IF Busy(Part(k)) THEN orderly \ {Part(k)} ELSE orderly
  /\ UNCHANGED <<mem, file, alive, want, bad>>

\* The handler returns, and with it go its variables.
Return(h) ==
  /\ pc' = [pc EXCEPT ![h] = "idle"]
  /\ kind' = [kind EXCEPT ![h] = "run"] /\ posted' = [posted EXCEPT ![h] = Default]
  /\ todo' = [todo EXCEPT ![h] = <<>>] /\ new' = [new EXCEPT ![h] = Default]

\* The handler returns an error; files it has begun to write stay as they are.
Fail(h, touched) ==
  /\ Return(h)
  /\ bad' = bad \cup touched
  /\ UNCHANGED <<mem, alive, want, orderly>>

\* Files of h's save that are written in full.
Written(h) == Range(FilesOf[kind[h]]) \ Range(todo[h])

\* Mutant of Snapshot: the config to save is built from the defaults.
SnapshotOfDefaults(h) ==
  /\ pc[h] = "read" /\ kind[h] # "wg"
  /\ new' = [new EXCEPT ![h] = [DefaultApp EXCEPT ![kind[h]] = posted[h]]]
  /\ pc' = [pc EXCEPT ![h] = "truncate"]
  /\ UNCHANGED <<mem, file, alive, kind, posted, todo, historyVars>>

\* s.mu.RLock(): the snapshot is copied and one part of it replaced.
Snapshot(h) ==
  /\ pc[h] = "read" /\ kind[h] # "wg"
  /\ new' = [new EXCEPT ![h] = [mem EXCEPT ![kind[h]] = posted[h]]]
  /\ pc' = [pc EXCEPT ![h] = "truncate"]
  /\ UNCHANGED <<mem, file, alive, kind, posted, todo, historyVars>>

\* Mutants of Mergeable: a placeholder without an existing key is saved as it
\* is; an existing key replaces the submitted one.
MergePlaceholder(existing, v) ==
  IF v = Placeholder /\ existing \in Keys THEN {existing} ELSE {v}
MergeKeepsExisting(existing, v) ==
  IF existing \in Keys THEN {existing} ELSE {v} \ {Placeholder}

\* MergeRedactedConfig and ValidateConfig: the keys that v may be saved with
\* over the existing contents.  An empty or missing file is not merged, and
\* ValidateConfig takes no placeholder for a key; what a garbled file yields,
\* if anything, is not known.
Mergeable(existing, v) ==
  CASE v # Placeholder                        -> {v}
    [] v = Placeholder /\ existing \in Keys    -> {existing}
    [] v = Placeholder /\ existing = Mixed     -> Keys
    [] OTHER                                  -> {}

MergeKey(h) ==
  /\ pc[h] = "read" /\ kind[h] = "wg"
  /\ \/ \E k \in Mergeable(file["wg"], posted[h]) :
          /\ new' = [new EXCEPT ![h] = k]
          /\ pc' = [pc EXCEPT ![h] = "truncate"]
          /\ UNCHANGED <<mem, file, alive, kind, posted, todo, historyVars>>
     \/ /\ posted[h] = Placeholder /\ file["wg"] \notin Keys
        /\ Fail(h, {})
        /\ UNCHANGED file

\* os.WriteFile opens with O_TRUNC; it, or MkdirAll before it, may fail.
Truncate(h) ==
  /\ pc[h] = "truncate"
  /\ \/ /\ file' = [file EXCEPT ![Head(todo[h])] = Empty]
        /\ pc' = [pc EXCEPT ![h] = "write"]
        /\ UNCHANGED <<mem, alive, kind, posted, todo, new, historyVars>>
     \/ Fail(h, Written(h)) /\ UNCHANGED file

\* Mutant of Data: bird.conf gets the settings, not the generated config.
DataUngenerated(h, f) == new[h]

\* What h puts into file f: bird.conf is generated from the BIRD settings.
Data(h, f) == IF f = "bird" THEN new[h].bird ELSE new[h]

\* wg0.conf is done with its file; the others go on to app.yaml and s.cfg.
AfterWrite(h) ==
  IF Tail(todo[h]) # <<>> THEN "truncate"
  ELSE IF kind[h] = "wg" THEN "idle" ELSE "publish"

\* h's save is acknowledged: it asks for what was posted, or with the
\* placeholder for the key that was there (any, after a failed save).
Ack(h) ==
  /\ want' = CASE kind[h] # "wg" ->
                    [want EXCEPT !.app = [@ EXCEPT ![kind[h]] = posted[h]]]
               [] kind[h] = "wg" /\ posted[h] # Placeholder ->
                    [want EXCEPT !.key = posted[h]]
               [] OTHER -> [want EXCEPT !.key = IF "wg" \in bad THEN file'["wg"] ELSE @]
  /\ bad' = bad \ Range(FilesOf[kind[h]])

\* os.WriteFile writes from the start of the file: over what another handler
\* wrote since the truncation, the longer of the two shows at the end.
Write(h) ==
  LET f == Head(todo[h])
  IN  /\ pc[h] = "write"
      /\ \/ /\ \E d \in {Data(h, f)} \cup (IF file[f] = Empty THEN {} ELSE {Mixed}) :
                 file' = [file EXCEPT ![f] = d]
            /\ IF AfterWrite(h) = "idle"
               THEN Ack(h) /\ Return(h) /\ UNCHANGED orderly
               ELSE /\ pc' = [pc EXCEPT ![h] = AfterWrite(h)]
                    /\ todo' = [todo EXCEPT ![h] = Tail(@)]
                    /\ UNCHANGED <<kind, posted, new, historyVars>>
            /\ UNCHANGED <<mem, alive>>
         \/ /\ \E d \in {file[f], Mixed} : file' = [file EXCEPT ![f] = d]
            /\ Fail(h, Written(h) \cup {f})

\* s.mu.Lock(): s.cfg = cfg
Publish(h) ==
  /\ pc[h] = "publish"
  /\ mem' = new[h]
  /\ Ack(h)
  /\ Return(h)
  /\ UNCHANGED <<file, alive, orderly>>

----------------------------------------------------------------------------
(* The process *)

\* config.Load: a missing file, and an empty one, give the defaults.
Load(contents) == IF contents \in {Missing, Empty} THEN DefaultApp ELSE contents

Crash ==
  /\ alive
  /\ alive' = FALSE
  /\ orderly' = {p \in orderly : ~Busy(p) /\ (p = "app" => "app" \notin bad)}
  /\ pc' = [h \in Handlers |-> "idle"]
  /\ kind' = [h \in Handlers |-> "run"] /\ posted' = [h \in Handlers |-> Default]
  /\ todo' = [h \in Handlers |-> <<>>] /\ new' = [h \in Handlers |-> Default]
  /\ UNCHANGED <<mem, file, want, bad>>

\* runServe; a garbled app.yaml parses as something or ends the process.
Boot ==
  /\ ~alive
  /\ \/ /\ file["app"] # Mixed
        /\ mem' = Load(file["app"]) /\ alive' = TRUE
     \/ /\ file["app"] = Mixed
        /\ mem' \in Apps /\ alive' = TRUE
     \/ /\ file["app"] = Mixed
        /\ UNCHANGED <<mem, alive>>
  /\ UNCHANGED <<file, handlerVars, historyVars>>

Posts == ({"bird"} \X Birds) \cup ({"run"} \X Runs)
           \cup ({"wg"} \X (Keys \cup {Placeholder}))

Next ==
  \/ \E h \in Handlers :
       \/ \E p \in Posts : Post(h, p[1], p[2])
       \/ Snapshot(h) \/ MergeKey(h) \/ Truncate(h) \/ Write(h) \/ Publish(h)
  \/ Crash
  \/ Boot

Spec == Init /\ [][Next]_vars

----------------------------------------------------------------------------
(* Properties *)

\* api_wg.go:62-88, wg/config.go:76-92: whatever other saves truncate, write or
\* leave half written between the read and the write of a redacted save, the
\* placeholder never reaches wg0.conf; and a save that no other one of wg0.conf
\* overlaps leaves the key it was sent, or with the placeholder the key that was
\* there, whatever becomes of the settings in the meantime.
KeyKept ==
  /\ file["wg"] \in Keys \cup {Missing, Empty, Mixed}
  /\ "key" \in orderly /\ ~Busy("key") /\ "wg" \notin bad => file["wg"] = want.key

\* api_settings.go:37-57, api_bird.go:47-64: as long as saves of settings do not
\* overlap and none is cut short by a crash, s.cfg is exactly the acknowledged
\* saves (one for BIRD never undoes one for the settings), app.yaml and bird.conf
\* agree with it unless the last save of theirs failed, and a restart changes
\* nothing; saves of wg0.conf may overlap them and fail, or be cut short.
SavesKept ==
  "app" \in orderly /\ ~Busy("app") /\ alive =>
    /\ mem = want.app
    /\ "app" \notin bad => Load(file["app"]) = mem
    /\ "bird" \notin bad => file["bird"] = mem.bird \/ (file["bird"] = Missing /\ mem.bird = Default)

\* api_bird_test.go:54-56 fails when "app config did not persist BIRD settings"
\* after a POST that was acknowledged: from then on app.yaml, when it is whole,
\* never goes back to having none.
BirdSettingsPersist ==
  Quiet /\ alive /\ want.app.bird # Default /\ file["app"] \in Apps
    => file["app"].bird # Default
==============================================================================
